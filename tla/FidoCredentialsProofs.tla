------------------------ MODULE FidoCredentialsProofs ------------------------
(***************************************************************************)
(* Proofs for FidoCredentials, for every value of its constants: no two    *)
(* signatures with one counter, one usable credential per relying party    *)
(* and user, and no assertion against the protection level or by a         *)
(* credential that is gone.                                                *)
(***************************************************************************)
EXTENDS MCFidoCredentials, FiniteSetTheorems, SequenceTheorems, WellFoundedInduction, TLAPS

-----------------------------------------------------------------------------
(* The inductive invariant *)

CredRecords ==
    [kind : {"none", "file", "container", "handle"}, id : Nat, rp : Rps \cup {None}, user : Users \cup {None},
     prot : 1..3, st : {"active", "revoked", "expired"}, exp : BOOLEAN, imported : BOOLEAN, btn : BOOLEAN, key : Nat]

\* A credential carries the protection level it was made with, in whatever copy.
Known(c) == c \in CredRecords /\ c.id \in 1..hist.ids /\ hist.prot[c.id] = c.prot

\* What a slot holds: nothing, or a known credential; a file of older firmware has no metadata.
Resident(c) ==
    \/ c = NoCred
    \/ /\ Known(c) /\ c.kind \in {"file", "container"} /\ c.rp \in Rps /\ c.user \in Users
       /\ c.kind = "file" => c.st = "active" /\ ~c.exp

FileSets == [slot : [Slots -> CredRecords], rp : [Rps -> Nat], ctr : Nat, key : Nat]

IsHist(h) ==
    /\ DOMAIN h = {"ids", "prot", "handles", "issued", "settled", "late", "signs", "mishaps", "cmds", "erased", "twice", "host"}
    /\ h.ids \in 0..MaxIds /\ h.prot \in [1..MaxIds -> 0..3] /\ h.handles \subseteq CredRecords
    /\ h.issued \subseteq Nat \X Nat /\ h.settled \subseteq Nat \X Nat

\* A pair of the history is behind the counter of a file set.
Behind(x, f) == x[1] < f.key \/ (x[1] = f.key /\ x[2] <= f.ctr)

\* A credential that is usable now or would be with another time, and another for the same user
Live(c) == c.kind = "file" \/ (c.kind = "container" /\ c.st = "active")
Same(c, d) == Live(c) /\ Live(d) /\ c.rp = d.rp /\ c.user = d.user

\* The files: known credentials, a counter that is not behind the signatures given, and one live
\* credential per relying party and user.
Stored ==
    /\ cache \in FileSets /\ flash \in FileSets /\ IsHist(hist)
    /\ \A s \in Slots : Resident(cache.slot[s]) /\ Resident(flash.slot[s])
    /\ \A h \in hist.handles : Known(h) /\ h.kind = "handle"
    /\ \A x \in hist.issued : Behind(x, cache)
    /\ \A x \in hist.settled : Behind(x, flash)
    /\ ~hist.twice => \A s, t \in Slots : s # t => ~Same(cache.slot[s], cache.slot[t]) /\ ~Same(flash.slot[s], flash.slot[t])

SlotWrites == [f : {"slot"}, at : Slots, v : CredRecords]
RpWrites == [f : {"rp"}, at : Rps, v : Nat] \cup [f : {"rp"}, at : {None}, v : [Rps -> Nat]]
NumberWrites == [f : {"ctr", "key"}, at : {None}, v : Nat]
Writes == SlotWrites \cup RpWrites \cup NumberWrites

\* A write to a slot leaves one live credential per user.
StoresOne(w) ==
    /\ Resident(w.v)
    /\ ~hist.twice => \A t \in Slots : t # w.at => ~Same(w.v, cache.slot[t])

\* A reset replaces the key before the counter; every other command moves the counter on.
Pending(todo) ==
    /\ \A i \in 1..Len(todo) : todo[i].f = "slot" => StoresOne(todo[i])
    /\ \A i, j \in 1..Len(todo) : i # j /\ todo[i].f = "slot" /\ todo[j].f = "slot" => todo[i].v = NoCred
    /\ \A i, j \in 1..Len(todo) : todo[i].f = "key" /\ j < i => todo[j].f \in {"slot", "rp"}
    /\ \A i \in 1..Len(todo) : todo[i].f = "key" => todo[i].v = cache.key + 1
    /\ \A i \in 1..Len(todo) : todo[i].f = "ctr" =>
          \/ i = 1 /\ todo[i].v = cache.ctr + 1
          \/ i > 1 /\ todo[i - 1].f = "key"
          \/ \A x \in hist.issued : x[1] < cache.key

Handlers ==
    [pc : {"idle", "write", "sign"}, todo : Seq(Writes), then : {"idle", "sign"}, cred : CredRecords,
     uv : BOOLEAN, list : BOOLEAN, next : BOOLEAN]

\* The handler in progress: what it has still to write, and the counter it signs with
Running ==
    /\ op \in Handlers
    /\ op.pc = "idle" => op = Idle
    /\ op.pc = "write" <=> op.todo # <<>>
    /\ op.pc = "sign" => op.then = "sign"
    /\ Pending(op.todo)
    /\ op.pc = "write" /\ op.then = "sign" => op.todo = <<Put("ctr", None, cache.ctr + 1)>>
    /\ op.pc = "sign" /\ ~op.cred.imported =>
          \A x \in hist.issued : x[1] < cache.key \/ (x[1] = cache.key /\ x[2] < cache.ctr)

\* The credential is in a slot, and not revoked.
Stands(c) == \E s \in Slots : cache.slot[s].id = c.id /\ cache.slot[s].st # "revoked"

\* The copies and the credential about to sign may be shown, and are still there.
Allowed(c, uv, list) ==
    /\ Known(c) /\ c.kind # "none" /\ Shown(c, uv, list)
    /\ c.kind # "handle" /\ ~hist.erased => Stands(c)

\* The parts of the working memory
Shaped(r) == DOMAIN r = {"next", "rps", "walk", "rtc"}

Asserting ==
    /\ Shaped(ram)
    /\ ram.next \in [left : SUBSET CredRecords, uv : BOOLEAN, list : BOOLEAN]
    /\ \A c \in ram.next.left : Allowed(c, ram.next.uv, ram.next.list)
    /\ op.then = "sign" => Allowed(op.cred, op.uv, op.list)
    /\ ram.next.left # {} /\ ~hist.erased =>
          \A i \in 1..Len(op.todo) : op.todo[i].f = "slot" => Len(op.todo) = 1 /\ cache.slot[op.todo[i].at] = NoCred

CredInv == Stored /\ Running /\ Asserting

-----------------------------------------------------------------------------
(* Credentials *)

LEMMA NoCredTyped == NoCred \in CredRecords /\ NoCred.kind = "none" /\ NoCred.id = 0 /\ ~Live(NoCred)
BY DEF NoCred, CredRecords, Live

\* The fields of a credential that is made.
LEMMA CredFields ==
    ASSUME NEW kind \in {"none", "file", "container", "handle"}, NEW id \in Nat, NEW rp \in Rps \cup {None},
           NEW user \in Users \cup {None}, NEW prot \in 1..3, NEW c, c = Cred(kind, id, rp, user, prot)
    PROVE  /\ c \in CredRecords
           /\ c.kind = kind /\ c.id = id /\ c.rp = rp /\ c.user = user /\ c.prot = prot
           /\ c.st = "active" /\ c.exp = FALSE /\ c.imported = FALSE
BY DEF Cred, NoCred, CredRecords

LEMMA ProtectionLevels == Protections \subseteq 1..3 /\ Max(Protections) \in 1..3
<1>1. Protections \subseteq 1..3 /\ Protections # {}
  BY ConstantTypes
<1>2. \E x \in Protections : \A y \in Protections : x >= y
  <2>1. CASE 3 \in Protections
    BY <1>1, <2>1
  <2>2. CASE 3 \notin Protections /\ 2 \in Protections
    BY <1>1, <2>2
  <2>3. CASE 3 \notin Protections /\ 2 \notin Protections
    <3>1. Protections = {1}
      <4>1. \A x \in 1..3 : x = 1 \/ x = 2 \/ x = 3
        OBVIOUS
      <4> QED BY <1>1, <2>3, <4>1
    <3> QED BY <3>1
  <2> QED BY <2>1, <2>2, <2>3
<1> QED BY <1>1, <1>2 DEF Max

\* What a slot or a copy is does not change when the history grows.
HistGrows ==
    /\ IsHist(hist') /\ hist.ids <= hist'.ids
    /\ \A i \in 1..hist.ids : hist'.prot[i] = hist.prot[i]
    /\ hist'.issued = hist.issued /\ hist'.settled = hist.settled
    /\ hist.erased => hist'.erased
    /\ hist.twice => hist'.twice

LEMMA KnownStays ==
    ASSUME HistGrows, IsHist(hist), NEW c, Known(c)
    PROVE  Known(c)'
BY DEF HistGrows, IsHist, Known

LEMMA ResidentStays ==
    ASSUME HistGrows, IsHist(hist), NEW c, Resident(c)
    PROVE  Resident(c)'
BY KnownStays DEF Resident

\* A step that leaves the files alone and only adds to the history keeps Stored.
LEMMA StoredStays ==
    ASSUME Stored, HistGrows, UNCHANGED <<cache, flash>>,
           \A h \in hist'.handles : Known(h)' /\ h.kind = "handle"
    PROVE  Stored'
<1>1. cache' = cache /\ flash' = flash /\ IsHist(hist)
  BY DEF Stored
<1>2. \A s \in Slots : Resident(cache.slot[s])' /\ Resident(flash.slot[s])'
  <2> SUFFICES ASSUME NEW s \in Slots PROVE Resident(cache.slot[s])' /\ Resident(flash.slot[s])'
    OBVIOUS
  <2>1. Resident(cache.slot[s]) /\ Resident(flash.slot[s])
    BY DEF Stored
  <2> DEFINE c == cache.slot[s]
             d == flash.slot[s]
  <2>2. Resident(c) /\ Resident(d)
    BY <2>1
  <2> QED BY <1>1, <2>2, KnownStays DEF Resident, HistGrows, Known, IsHist
<1>3. hist'.issued = hist.issued /\ hist'.settled = hist.settled /\ (~hist'.twice => ~hist.twice) /\ IsHist(hist')
  BY DEF HistGrows
<1> QED BY <1>1, <1>2, <1>3 DEF Stored, Behind, Same, Live

-----------------------------------------------------------------------------
(* What the commands write *)

LEMMA IdleFields ==
    /\ Idle.pc = "idle" /\ Idle.todo = <<>> /\ Idle.then = "idle" /\ Idle.cred = NoCred
    /\ Idle \in Handlers
BY NoCredTyped DEF Idle, Handlers

LEMMA HandlerTyped ==
    ASSUME NEW pc \in {"idle", "write", "sign"}, NEW todo \in Seq(Writes), NEW then \in {"idle", "sign"},
           NEW cred \in CredRecords, NEW uv \in BOOLEAN, NEW list \in BOOLEAN, NEW n \in BOOLEAN
    PROVE  [pc |-> pc, todo |-> todo, then |-> then, cred |-> cred, uv |-> uv, list |-> list, next |-> n] \in Handlers
BY DEF Handlers

\* A handler that ends has nothing left to do.
LEMMA EndsRunning ==
    ASSUME op' = Idle
    PROVE  Running'
BY IdleFields DEF Running, Pending

\* A command that starts to write
LEMMA StartsRunning ==
    ASSUME NEW w \in Seq(Writes), w # <<>>, op' = Run(w, "idle"), Pending(w)'
    PROVE  Running' /\ op'.then = "idle" /\ op'.todo = w
<1>1. /\ op'.pc = "write" /\ op'.todo = w /\ op'.then = "idle"
      /\ op' \in Handlers
  BY IdleFields, NoCredTyped DEF Run, Idle, Handlers
<1> QED BY <1>1 DEF Running

\* One slot is written.
LEMMA WritesSlot ==
    ASSUME NEW s \in Slots, NEW v \in CredRecords, Resident(v)', op' = Run(<<SlotIs(s, v)>>, "idle"),
           ~hist'.twice => \A t \in Slots : t # s => ~Same(v, cache'.slot[t])
    PROVE  /\ Running' /\ op'.then = "idle"
           /\ op'.todo = <<SlotIs(s, v)>>
<1>1. PICK w : w = <<SlotIs(s, v)>>
  OBVIOUS
<1>2. SlotIs(s, v) = [f |-> "slot", at |-> s, v |-> v]
  BY DEF SlotIs, Put
<1>3. /\ w \in Seq(Writes) /\ w # <<>> /\ Len(w) = 1 /\ w[1].f = "slot" /\ w[1].at = s /\ w[1].v = v
  BY <1>1, <1>2 DEF Writes, SlotWrites
<1>4. Pending(w)'
  BY <1>3 DEF Pending, StoresOne
<1> QED BY <1>1, <1>3, <1>4, StartsRunning

\* A slot is emptied, and a relying party's count goes down.
LEMMA WritesDelete ==
    ASSUME NEW s \in Slots, NEW r \in Rps, NEW n \in Nat,
           op' = Run(<<SlotIs(s, NoCred), Put("rp", r, n)>>, "idle")
    PROVE  Running' /\ op'.then = "idle"
<1>1. PICK w : w = <<SlotIs(s, NoCred), Put("rp", r, n)>>
  OBVIOUS
<1>2. SlotIs(s, NoCred) = [f |-> "slot", at |-> s, v |-> NoCred] /\ Put("rp", r, n) = [f |-> "rp", at |-> r, v |-> n]
  BY DEF SlotIs, Put
<1>3. /\ w \in Seq(Writes) /\ w # <<>> /\ Len(w) = 2
      /\ w[1].f = "slot" /\ w[1].at = s /\ w[1].v = NoCred /\ w[2].f = "rp"
  BY <1>1, <1>2, NoCredTyped DEF Writes, SlotWrites, RpWrites
<1>4. Pending(w)'
  <2>1. \A i \in 1..2 : i = 1 \/ i = 2
    OBVIOUS
  <2> QED BY <1>3, <2>1, NoCredTyped DEF Pending, StoresOne, Resident, Same
<1> QED BY <1>1, <1>3, <1>4, StartsRunning

\* The counter moves on.
LEMMA WritesCounter ==
    ASSUME cache \in FileSets, cache' = cache, op' = Run(Bump, "idle")
    PROVE  Running' /\ op'.then = "idle"
<1>1. PICK w : w = Bump
  OBVIOUS
<1>2. w = <<[f |-> "ctr", at |-> None, v |-> cache.ctr + 1]>>
  BY <1>1 DEF Bump, Put
<1>3. /\ w \in Seq(Writes) /\ w # <<>> /\ Len(w) = 1 /\ w[1].f = "ctr" /\ w[1].v = cache.ctr + 1
  BY <1>2 DEF Writes, NumberWrites, FileSets
<1>4. Pending(w)'
  BY <1>3 DEF Pending, StoresOne
<1> QED BY <1>1, <1>3, <1>4, StartsRunning

\* What a concatenation is made of.
PartsOf(E, a, b, m, n, c) ==
    /\ c \in Seq(E) /\ Len(c) = m + n
    /\ \A i \in 1..m : c[i] = a[i]
    /\ \A i \in 1..n : c[m + i] = b[i]

LEMMA Parts ==
    ASSUME NEW E, NEW a \in Seq(E), NEW b \in Seq(E), NEW m \in Nat, NEW n \in Nat, Len(a) = m, Len(b) = n
    PROVE  PartsOf(E, a, b, m, n, a \o b)
<1>1. /\ a \o b \in Seq(E) /\ Len(a \o b) = m + n
      /\ \A i \in 1..(m + n) : (a \o b)[i] = IF i <= m THEN a[i] ELSE b[i - m]
  BY ConcatProperties
<1>2. \A i \in 1..m : (a \o b)[i] = a[i]
  BY <1>1
<1>3. ASSUME NEW i \in 1..n PROVE (a \o b)[m + i] = b[i]
  <2>1. m + i \in 1..(m + n) /\ ~(m + i <= m) /\ (m + i) - m = i
    OBVIOUS
  <2> QED BY <1>1, <2>1
<1> QED BY <1>1, <1>2, <1>3 DEF PartsOf

LEMMA PairOf ==
    ASSUME NEW x, NEW y
    PROVE  <<x>> \o <<y>> = <<x, y>>
<1>1. <<x>> \in Seq({x, y}) /\ <<y>> \in Seq({x, y}) /\ Len(<<x>>) = 1 /\ Len(<<y>>) = 1
  OBVIOUS
<1> DEFINE z == <<x>> \o <<y>>
<1>2. PartsOf({x, y}, <<x>>, <<y>>, 1, 1, z)
  BY <1>1, Parts
<1> HIDE DEF z
<1>3. z = <<x, y>>
  BY <1>2 DEF PartsOf
<1> QED BY <1>3 DEF z

LEMMA NothingMore ==
    ASSUME NEW x
    PROVE  <<x>> \o <<>> = <<x>>
<1>1. <<x>> \in Seq({x}) /\ <<>> \in Seq({x}) /\ Len(<<x>>) = 1 /\ Len(<<>>) = 0
  OBVIOUS
<1> DEFINE z == <<x>> \o <<>>
<1>2. PartsOf({x}, <<x>>, <<>>, 1, 0, z)
  BY <1>1, Parts
<1> HIDE DEF z
<1>3. z = <<x>>
  BY <1>2 DEF PartsOf
<1> QED BY <1>3 DEF z

\* The counter moves on and a slot is written.
LEMMA WritesCounterAndSlot ==
    ASSUME cache \in FileSets, cache' = cache, NEW s \in Slots, NEW v \in CredRecords, Resident(v)',
           op' = Run(Bump \o <<SlotIs(s, v)>>, "idle"),
           ~hist'.twice => \A t \in Slots : t # s => ~Same(v, cache'.slot[t])
    PROVE  Running' /\ op'.then = "idle"
<1>1. PICK w : w = Bump \o <<SlotIs(s, v)>>
  OBVIOUS
<1>2. w = <<[f |-> "ctr", at |-> None, v |-> cache.ctr + 1], [f |-> "slot", at |-> s, v |-> v]>>
  <2> DEFINE x == Put("ctr", None, cache.ctr + 1)
             y == SlotIs(s, v)
  <2>1. w = <<x>> \o <<y>>
    BY <1>1 DEF Bump
  <2>2. x = [f |-> "ctr", at |-> None, v |-> cache.ctr + 1] /\ y = [f |-> "slot", at |-> s, v |-> v]
    BY DEF Put, SlotIs
  <2> HIDE DEF x, y
  <2>3. <<x>> \o <<y>> = <<x, y>>
    BY PairOf
  <2> QED BY <2>1, <2>2, <2>3
<1>3. /\ w \in Seq(Writes) /\ w # <<>> /\ Len(w) = 2 /\ w[1].f = "ctr" /\ w[1].v = cache.ctr + 1
      /\ w[2].f = "slot" /\ w[2].at = s /\ w[2].v = v
  BY <1>2 DEF Writes, NumberWrites, SlotWrites, FileSets
<1>4. Pending(w)'
  <2>1. \A i \in 1..2 : i = 1 \/ i = 2
    OBVIOUS
  <2> QED BY <1>3, <2>1 DEF Pending, StoresOne
<1> QED BY <1>1, <1>3, <1>4, StartsRunning

\* A reset empties the slots, then the counts, the key and the counter.
LEMMA WritesReset ==
    ASSUME cache \in FileSets, cache' = cache, op' = Run(ResetWrites, "idle")
    PROVE  Running' /\ op'.then = "idle"
<1>1. PICK N \in Nat \ {0} : N = Cardinality(Slots) /\ Slots = 0..(N - 1)
  <2>1. Cardinality(Slots) \in Nat
    BY ConstantTypes, FS_CardinalityType
  <2> QED BY <2>1, ConstantTypes
<1>2. PICK w : w = ResetWrites
  OBVIOUS
<1> DEFINE a == [n \in 1..N |-> SlotIs(n - 1, NoCred)]
           zero == [r \in Rps |-> 0]
<1>3. w = (a \o <<Put("rp", None, zero)>>) \o <<Put("key", None, cache.key + 1), Put("ctr", None, 0)>>
  BY <1>1, <1>2 DEF ResetWrites, SlotsGone
<1>4. zero \in [Rps -> Nat]
  OBVIOUS
<1>5. a \in Seq(Writes) /\ Len(a) = N /\ \A i \in 1..N : a[i] = [f |-> "slot", at |-> i - 1, v |-> NoCred]
  <2>1. ASSUME NEW n \in 1..N
        PROVE  SlotIs(n - 1, NoCred) = [f |-> "slot", at |-> n - 1, v |-> NoCred] /\ SlotIs(n - 1, NoCred) \in Writes
    <3>1. SlotIs(n - 1, NoCred) = [f |-> "slot", at |-> n - 1, v |-> NoCred]
      BY DEF SlotIs, Put
    <3>2. n - 1 \in 0..(N - 1)
      OBVIOUS
    <3>3. n - 1 \in Slots
      BY <1>1, <3>2
    <3> QED BY <3>1, <3>3, NoCredTyped DEF Writes, SlotWrites
  <2>2. a \in [1..N -> Writes] /\ \A i \in 1..N : a[i] = [f |-> "slot", at |-> i - 1, v |-> NoCred]
    BY <2>1
  <2> HIDE DEF a
  <2> QED BY <1>1, <2>2, SeqDef, LenProperties
<1> HIDE DEF a, zero
<1>6. /\ w \in Seq(Writes) /\ Len(w) = N + 3 /\ \A i \in 1..N : w[i] = a[i]
      /\ w[N + 1].f = "rp"
      /\ w[N + 2].f = "key" /\ w[N + 2].v = cache.key + 1
      /\ w[N + 3].f = "ctr"
  <2> DEFINE b == <<Put("rp", None, zero)>>
             c == <<Put("key", None, cache.key + 1), Put("ctr", None, 0)>>
  <2>1. b \in Seq(Writes) /\ Len(b) = 1 /\ b[1].f = "rp"
    BY <1>4 DEF Put, Writes, RpWrites
  <2>2. c \in Seq(Writes) /\ Len(c) = 2 /\ c[1].f = "key" /\ c[1].v = cache.key + 1 /\ c[2].f = "ctr"
    BY DEF Put, Writes, NumberWrites, FileSets
  <2> HIDE DEF b, c
  <2>3. w = (a \o b) \o c
    BY <1>3 DEF b, c
  <2> DEFINE ab == a \o b
             abc == ab \o c
  <2>4. PartsOf(Writes, a, b, N, 1, ab)
    BY <1>1, <1>5, <2>1, Parts
  <2> HIDE DEF ab
  <2>5. ab \in Seq(Writes) /\ Len(ab) = N + 1 /\ N + 1 \in Nat
    BY <2>4 DEF PartsOf
  <2>6. PartsOf(Writes, ab, c, N + 1, 2, abc)
    BY <2>2, <2>5, Parts
  <2> HIDE DEF abc
  <2>7. w = abc
    BY <2>3 DEF ab, abc
  <2>8. (N + 1) + 2 = N + 3 /\ (N + 1) + 1 = N + 2
    OBVIOUS
  <2>9. ab[N + 1] = b[1] /\ \A i \in 1..N : ab[i] = a[i]
    BY <2>4 DEF PartsOf
  <2>10. abc \in Seq(Writes) /\ Len(abc) = N + 3 /\ abc[N + 2] = c[1] /\ abc[N + 3] = c[2]
    <3>1. abc \in Seq(Writes) /\ Len(abc) = (N + 1) + 2 /\ abc[(N + 1) + 1] = c[1] /\ abc[(N + 1) + 2] = c[2]
      BY <2>6 DEF PartsOf
    <3> QED BY <2>8, <3>1
  <2>11. \A i \in 1..(N + 1) : abc[i] = ab[i]
    BY <2>6 DEF PartsOf
  <2>12. abc[N + 1] = b[1] /\ \A i \in 1..N : abc[i] = a[i]
    BY <2>9, <2>11
  <2> QED BY <2>1, <2>2, <2>7, <2>10, <2>12
<1>7. /\ \A i \in 1..N : w[i].f = "slot" /\ w[i].v = NoCred
      /\ \A i \in 1..(N + 3) : i \in 1..N \/ i = N + 1 \/ i = N + 2 \/ i = N + 3
  <2>1. \A i \in 1..N : w[i].f = "slot" /\ w[i].v = NoCred
    BY <1>5, <1>6
  <2>2. \A i \in 1..(N + 3) : i \in 1..N \/ i = N + 1 \/ i = N + 2 \/ i = N + 3
    BY <1>1
  <2> QED BY <2>1, <2>2
<1>8. Pending(w)'
  <2>1. \A i \in 1..Len(w) : w[i].f = "slot" => w[i].v = NoCred
    BY <1>1, <1>6, <1>7
  <2>2. \A i \in 1..Len(w) : w[i].f = "slot" => StoresOne(w[i])'
    BY <2>1, NoCredTyped DEF StoresOne, Resident, Same
  <2>3. \A i, j \in 1..Len(w) : w[i].f = "key" /\ j < i => w[j].f \in {"slot", "rp"}
    <3>1. \A i \in 1..Len(w) : w[i].f = "key" => i = N + 2
      BY <1>6, <1>7
    <3>2. \A j \in 1..Len(w) : j < N + 2 => j \in 1..N \/ j = N + 1
      BY <1>1, <1>6
    <3>3. \A j \in 1..Len(w) : j < N + 2 => w[j].f \in {"slot", "rp"}
      BY <1>6, <1>7, <3>2
    <3> QED BY <3>1, <3>3
  <2>4. \A i \in 1..Len(w) : w[i].f = "key" => w[i].v = cache.key + 1
    BY <1>1, <1>6, <1>7
  <2>5. \A i \in 1..Len(w) : w[i].f = "ctr" => i > 1 /\ w[i - 1].f = "key"
    <3>1. \A i \in 1..Len(w) : w[i].f = "ctr" => i = N + 3
      BY <1>1, <1>6, <1>7
    <3>2. (N + 3) - 1 = N + 2 /\ N + 3 > 1
      BY <1>1
    <3> QED BY <1>6, <3>1, <3>2
  <2> QED BY <2>1, <2>2, <2>3, <2>4, <2>5 DEF Pending
<1>9. w # <<>>
  BY <1>1, <1>6
<1> QED BY <1>2, <1>6, <1>8, <1>9, StartsRunning

\* A command that is going to sign moves the counter on first, unless the credential has none.
LEMMA WritesSignature ==
    ASSUME cache \in FileSets, cache' = cache, NEW c \in CredRecords, NEW uv \in BOOLEAN, NEW list \in BOOLEAN,
           op' = Signs(c, uv, list) \/ op' = [Signs(c, uv, list) EXCEPT !.next = TRUE]
    PROVE  /\ Running' /\ op'.then = "sign" /\ op'.cred = c /\ op'.uv = uv /\ op'.list = list
           /\ \A i \in 1..Len(op'.todo) : op'.todo[i].f # "slot"
<1>1. CASE c.imported
  <2>1. PICK n \in BOOLEAN : op' = [pc |-> "sign", todo |-> <<>>, then |-> "sign", cred |-> c, uv |-> uv, list |-> list, next |-> n]
    <3>1. CASE op' = Signs(c, uv, list)
      <4>1. op' = [pc |-> "sign", todo |-> <<>>, then |-> "sign", cred |-> c, uv |-> uv, list |-> list, next |-> FALSE]
        BY <1>1, <3>1 DEF Signs, CounterOf, Run, Idle
      <4> QED BY <4>1
    <3>2. CASE op' = [Signs(c, uv, list) EXCEPT !.next = TRUE]
      <4>1. op' = [pc |-> "sign", todo |-> <<>>, then |-> "sign", cred |-> c, uv |-> uv, list |-> list, next |-> TRUE]
        BY <1>1, <3>2 DEF Signs, CounterOf, Run, Idle
      <4> QED BY <4>1
    <3> QED BY <3>1, <3>2
  <2>2. op' \in Handlers
    <3>1. <<>> \in Seq(Writes) /\ "sign" \in {"idle", "write", "sign"} /\ "sign" \in {"idle", "sign"}
      OBVIOUS
    <3>2. [pc |-> "sign", todo |-> <<>>, then |-> "sign", cred |-> c, uv |-> uv, list |-> list, next |-> n] \in Handlers
      BY <3>1, HandlerTyped, Zenon
    <3> QED BY <2>1, <3>2, Zenon
  <2>3. Pending(<<>>)'
    BY DEF Pending
  <2> QED BY <1>1, <2>1, <2>2, <2>3 DEF Running
<1>2. CASE ~c.imported
  <2>1. PICK w : w = Bump
    OBVIOUS
  <2>2. w = <<[f |-> "ctr", at |-> None, v |-> cache.ctr + 1]>>
    BY <2>1 DEF Bump, Put
  <2>3. w \in Seq(Writes) /\ w # <<>> /\ Len(w) = 1 /\ w[1].f = "ctr" /\ w[1].v = cache.ctr + 1
    BY <2>2 DEF Writes, NumberWrites, FileSets
  <2>4. PICK n \in BOOLEAN : op' = [pc |-> "write", todo |-> w, then |-> "sign", cred |-> c, uv |-> uv, list |-> list, next |-> n]
    <3>1. CASE op' = Signs(c, uv, list)
      <4>1. op' = [pc |-> "write", todo |-> w, then |-> "sign", cred |-> c, uv |-> uv, list |-> list, next |-> FALSE]
        BY <1>2, <2>1, <2>3, <3>1 DEF Signs, CounterOf, Run, Idle
      <4> QED BY <4>1
    <3>2. CASE op' = [Signs(c, uv, list) EXCEPT !.next = TRUE]
      <4>1. op' = [pc |-> "write", todo |-> w, then |-> "sign", cred |-> c, uv |-> uv, list |-> list, next |-> TRUE]
        BY <1>2, <2>1, <2>3, <3>2 DEF Signs, CounterOf, Run, Idle
      <4> QED BY <4>1
    <3> QED BY <3>1, <3>2
  <2>5. op' \in Handlers
    <3>1. "write" \in {"idle", "write", "sign"} /\ "sign" \in {"idle", "sign"} /\ w \in Seq(Writes)
      BY <2>3
    <3>2. [pc |-> "write", todo |-> w, then |-> "sign", cred |-> c, uv |-> uv, list |-> list, next |-> n] \in Handlers
      BY <3>1, HandlerTyped, Zenon
    <3> QED BY <2>4, <3>2, Zenon
  <2>6. Pending(w)'
    BY <2>3 DEF Pending
  <2>7. op'.todo = w /\ op'.pc = "write"
    BY <2>4
  <2>8. w = <<Put("ctr", None, cache'.ctr + 1)>>
    BY <2>1 DEF Bump
  <2>9. Running'
    BY <2>3, <2>5, <2>6, <2>7, <2>8 DEF Running
  <2>10. op'.then = "sign" /\ op'.cred = c /\ op'.uv = uv /\ op'.list = list
    BY <2>4
  <2>11. \A i \in 1..Len(op'.todo) : op'.todo[i].f # "slot"
    <3>1. \A i \in 1..Len(w) : i = 1
      BY <2>3
    <3>2. w[1].f # "slot"
      BY <2>3
    <3>3. \A i \in 1..Len(w) : w[i].f # "slot"
      BY <3>1, <3>2
    <3> QED BY <2>7, <3>3
  <2> QED BY <2>9, <2>10, <2>11
<1> QED BY <1>1, <1>2

-----------------------------------------------------------------------------
(* What the copies may be used for *)

LEMMA AllowedStays ==
    ASSUME HistGrows, IsHist(hist), cache' = cache, NEW c, NEW uv, NEW list, Allowed(c, uv, list)
    PROVE  Allowed(c, uv, list)'
<1>1. Known(c)'
  BY KnownStays DEF Allowed
<1>2. hist.erased => hist'.erased
  BY DEF HistGrows
<1> QED BY <1>1, <1>2 DEF Allowed, Stands, HistGrows, IsHist

\* A command that cbor_parse has let through has no copies.
LEMMA ParsedAsserts ==
    ASSUME Shaped(ram'), ram'.next = NoNext, op'.then = "idle"
    PROVE  Asserting'
<1>1. ram'.next = NoNext
  OBVIOUS
<1>2. NoNext = [left |-> {}, uv |-> FALSE, list |-> FALSE]
  BY DEF NoNext
<1> QED BY <1>1, <1>2 DEF Asserting

\* The copies are left alone by a handler that writes no slot.
LEMMA CopiesStay ==
    ASSUME Asserting, HistGrows, IsHist(hist), cache' = cache, op'.then = "idle",
           Shaped(ram'), ram'.next = ram.next,
           \A i \in 1..Len(op'.todo) : op'.todo[i].f # "slot"
    PROVE  Asserting'
<1>1. ram'.next = ram.next
  OBVIOUS
<1>2. \A c \in ram.next.left : Allowed(c, ram.next.uv, ram.next.list)'
  <2> SUFFICES ASSUME NEW c \in ram.next.left PROVE Allowed(c, ram.next.uv, ram.next.list)'
    OBVIOUS
  <2>1. PICK uv, list : uv = ram.next.uv /\ list = ram.next.list
    OBVIOUS
  <2>2. Allowed(c, uv, list)
    BY <2>1 DEF Asserting
  <2>3. Allowed(c, uv, list)'
    BY <2>2, AllowedStays
  <2>4. ram'.next.uv = uv /\ ram'.next.list = list
    BY <1>1, <2>1
  <2> QED BY <2>3, <2>4
<1> QED BY <1>1, <1>2 DEF Asserting

\* A step that leaves files and handler alone, forgets the copies or not, and changes at most what
\* the history counts, keeps the invariant.
LEMMA QuietStep ==
    ASSUME CredInv, UNCHANGED <<cache, flash, op>>, op = Idle, HistGrows, hist'.handles = hist.handles,
           Shaped(ram'),
           ram'.next = ram.next \/ ram'.next = NoNext
    PROVE  CredInv'
<1>1. Stored /\ Running /\ Asserting /\ IsHist(hist)
  BY DEF CredInv, Stored
<1>2. Stored'
  <2>1. \A h \in hist'.handles : Known(h)' /\ h.kind = "handle"
    BY <1>1, KnownStays DEF Stored
  <2> QED BY <1>1, <2>1, StoredStays
<1>3. Running'
  BY EndsRunning
<1>4. op'.then = "idle" /\ op'.todo = <<>>
  BY IdleFields
<1>5. Asserting'
  <2>1. CASE ram'.next = ram.next
    BY <1>1, <1>4, <2>1, CopiesStay
  <2>2. CASE ram'.next = NoNext
    BY <1>4, <2>2, ParsedAsserts
  <2> QED BY <2>1, <2>2
<1> QED BY <1>2, <1>3, <1>5 DEF CredInv

\* A step that leaves the history alone, or only counts.
LEMMA SameHist ==
    ASSUME IsHist(hist), hist' = hist \/ \E n : hist' = [hist EXCEPT !.cmds = n] \/ hist' = [hist EXCEPT !.signs = n]
    PROVE  HistGrows /\ hist'.handles = hist.handles /\ hist'.twice = hist.twice /\ hist'.erased = hist.erased
BY DEF IsHist, HistGrows

-----------------------------------------------------------------------------
(* The initial states *)

LEMMA CredInit == Init => CredInv
<1> SUFFICES ASSUME Init PROVE CredInv
  OBVIOUS
<1>1. PICK rp \in Rps, user \in Users : rp = (CHOOSE r \in Rps : TRUE) /\ user = (CHOOSE u \in Users : TRUE)
  BY ConstantTypes
<1> DEFINE c == Cred("file", 1, CHOOSE r \in Rps : TRUE, CHOOSE u \in Users : TRUE, Max(Protections))
<1>3. /\ c \in CredRecords /\ c.kind = "file" /\ c.id = 1 /\ c.rp = rp /\ c.user = user /\ c.prot \in 1..3
      /\ c.st = "active" /\ c.exp = FALSE
  <2>1. PICK prot \in 1..3 : prot = Max(Protections)
    BY ProtectionLevels
  <2>2. c = Cred("file", 1, rp, user, prot)
    BY <1>1, <2>1
  <2> HIDE DEF c
  <2> QED BY <2>2 DEF Cred, NoCred, CredRecords
<1>4. PICK old \in BOOLEAN, host \in Hosts :
        /\ cache = [slot |-> [s \in Slots |-> IF old /\ s = 0 THEN c ELSE NoCred],
                    rp |-> [r \in Rps |-> IF old /\ r = c.rp THEN 1 ELSE 0], ctr |-> 0, key |-> 0]
        /\ hist = [ids |-> IF old THEN 1 ELSE 0, prot |-> [i \in 1..MaxIds |-> IF old /\ i = 1 THEN c.prot ELSE 0],
                   handles |-> {}, issued |-> {}, settled |-> {}, late |-> FALSE,
                   signs |-> 0, mishaps |-> IF host \in {"signs", "walks"} THEN MaxMishaps ELSE 0, cmds |-> IF host \in {"signs", "counts"} THEN 1 ELSE 0, erased |-> FALSE, twice |-> FALSE, host |-> host]
  BY Zenon DEF Init
<1> HIDE DEF c
<1>5. flash = cache /\ ram = Booted /\ op = Idle
  BY DEF Init
<1> DEFINE slot == [s \in Slots |-> IF old /\ s = 0 THEN c ELSE NoCred]
           counts == [r \in Rps |-> IF old /\ r = c.rp THEN 1 ELSE 0]
           levels == [i \in 1..MaxIds |-> IF old /\ i = 1 THEN c.prot ELSE 0]
<1>6. /\ slot \in [Slots -> CredRecords] /\ counts \in [Rps -> Nat] /\ levels \in [1..MaxIds -> 0..3]
      /\ \A s \in Slots : slot[s] = IF old /\ s = 0 THEN c ELSE NoCred
      /\ old => levels[1] = c.prot
  BY <1>3, NoCredTyped, ConstantTypes
<1>7. /\ cache.slot = slot /\ cache.rp = counts /\ cache.ctr = 0 /\ cache.key = 0
      /\ cache = [slot |-> slot, rp |-> counts, ctr |-> 0, key |-> 0]
  BY <1>4
<1>8. /\ hist.ids = IF old THEN 1 ELSE 0
      /\ hist.prot = levels /\ hist.handles = {} /\ hist.issued = {} /\ hist.settled = {}
      /\ IsHist(hist)
  <2> DEFINE ids == IF old THEN 1 ELSE 0
             mishaps == IF host \in {"signs", "walks"} THEN MaxMishaps ELSE 0
             cmds == IF host \in {"signs", "counts"} THEN 1 ELSE 0
  <2>1. ids \in 0..MaxIds /\ mishaps \in Nat /\ cmds \in Nat
    BY ConstantTypes
  <2>2. hist = [ids |-> ids, prot |-> levels, handles |-> {}, issued |-> {}, settled |-> {}, late |-> FALSE,
                signs |-> 0, mishaps |-> mishaps, cmds |-> cmds, erased |-> FALSE, twice |-> FALSE, host |-> host]
    BY <1>4
  <2>3. levels \in [1..MaxIds -> 0..3]
    BY <1>6
  <2> HIDE DEF ids, mishaps, cmds, levels
  <2>4. IsHist(hist)
    BY <2>1, <2>2, <2>3 DEF IsHist
  <2>5. hist.ids = ids /\ hist.prot = levels /\ hist.handles = {} /\ hist.issued = {} /\ hist.settled = {}
    BY <2>2
  <2> QED BY <2>4, <2>5 DEF ids
<1> HIDE DEF slot, counts, levels
<1>9. \A s \in Slots : Resident(cache.slot[s])
  <2>1. old => Known(c)
    BY <1>3, <1>6, <1>8 DEF Known
  <2> QED BY <1>3, <1>6, <1>7, <2>1 DEF Resident
<1>10. Stored
  <2>1. cache \in FileSets
    BY <1>6, <1>7 DEF FileSets
  <2>2. \A s, t \in Slots : s # t => ~Same(cache.slot[s], cache.slot[t])
    BY <1>6, <1>7, NoCredTyped DEF Same
  <2> QED BY <1>5, <1>8, <1>9, <2>1, <2>2 DEF Stored
<1>11. Running
  BY <1>5, IdleFields DEF Running, Pending
<1>12. Asserting
  BY <1>5, IdleFields DEF Booted, NoNext, Asserting, Shaped
<1> QED BY <1>10, <1>11, <1>12 DEF CredInv

-----------------------------------------------------------------------------
(* Steps that write nothing *)

LEMMA RamParts ==
    ASSUME NEW r, Shaped(r)
    PROVE  /\ \A n, x, w : Shaped([r EXCEPT !.next = n, !.rps = x, !.walk = w]) /\ [r EXCEPT !.next = n, !.rps = x, !.walk = w].next = n
           /\ \A n : Shaped([r EXCEPT !.next = n]) /\ [r EXCEPT !.next = n].next = n
           /\ \A x : Shaped([r EXCEPT !.rps = x]) /\ [r EXCEPT !.rps = x].next = r.next
           /\ \A w : Shaped([r EXCEPT !.walk = w]) /\ [r EXCEPT !.walk = w].next = r.next
           /\ \A t : Shaped([r EXCEPT !.rtc = t]) /\ [r EXCEPT !.rtc = t].next = r.next
           /\ Shaped(Adds(r)) /\ Adds(r).next = r.next
BY DEF Shaped, Adds

LEMMA ParsedParts == Shaped(ram) => Shaped(Parsed) /\ Parsed.next = NoNext
BY DEF Shaped, Parsed

LEMMA QuietCred ==
    ASSUME CredInv, Expires \/ Tick \/ GetNextRefused \/ BeginRps \/ NextRp \/ NextCred
                    \/ (\E rp \in Sites : BeginCreds(rp)) \/ (\E b \in BOOLEAN : SetClock(b))
    PROVE  CredInv'
<1>1. IsHist(hist) /\ Shaped(ram)
  BY DEF CredInv, Stored, Asserting
<1>2. Shaped(Parsed) /\ Parsed.next = NoNext
  BY <1>1, ParsedParts
<1>3. UNCHANGED <<cache, flash, op>> /\ op = Idle
  BY DEF Expires, Tick, GetNextRefused, BeginRps, NextRp, NextCred, BeginCreds, SetClock
<1>4. HistGrows /\ hist'.handles = hist.handles
  <2>1. \/ hist' = hist
        \/ hist' = [hist EXCEPT !.late = TRUE]
        \/ hist' = [hist EXCEPT !.cmds = @ + 1]
        \/ \E b \in BOOLEAN : hist' = [hist EXCEPT !.cmds = @ + 1, !.late = b]
    BY DEF Expires, Tick, GetNextRefused, BeginRps, NextRp, NextCred, BeginCreds, SetClock
  <2>2. CASE hist' = hist \/ hist' = [hist EXCEPT !.late = TRUE]
    BY <1>1, <2>2 DEF IsHist, HistGrows
  <2>3. CASE hist' = [hist EXCEPT !.cmds = @ + 1]
    BY <1>1, <2>3 DEF IsHist, HistGrows
  <2>4. CASE \E b \in BOOLEAN : hist' = [hist EXCEPT !.cmds = @ + 1, !.late = b]
    BY <1>1, <2>4 DEF IsHist, HistGrows
  <2> QED BY <2>1, <2>2, <2>3, <2>4
<1>5. Shaped(ram') /\ (ram'.next = ram.next \/ ram'.next = NoNext)
  <2>1. CASE Expires
    BY <1>1, <2>1 DEF Expires, Shaped
  <2>2. CASE Tick
    <3>1. PICK x, w : ram' = [ram EXCEPT !.next = NoNext, !.rps = x, !.walk = w]
      BY <2>2 DEF Tick
    <3> QED BY <1>1, <3>1 DEF Shaped
  <2>3. CASE GetNextRefused
    BY <1>2, <2>3 DEF GetNextRefused
  <2>4. CASE BeginRps
    <3>1. PICK x : ram' = [Parsed EXCEPT !.rps = x]
      BY <2>4 DEF BeginRps
    <3> QED BY <1>2, <3>1, RamParts
  <2>5. CASE NextRp
    <3>1. PICK x : ram' = [Parsed EXCEPT !.rps = x]
      BY <2>5 DEF NextRp
    <3> QED BY <1>2, <3>1, RamParts
  <2>6. CASE NextCred
    <3>1. PICK x : ram' = [Parsed EXCEPT !.walk = x]
      BY <2>6 DEF NextCred
    <3> QED BY <1>2, <3>1, RamParts
  <2>7. CASE \E rp \in Sites : BeginCreds(rp)
    <3>1. PICK x : ram' = [Parsed EXCEPT !.walk = x]
      BY <2>7 DEF BeginCreds
    <3> QED BY <1>2, <3>1, RamParts
  <2>8. CASE \E b \in BOOLEAN : SetClock(b)
    <3>1. PICK r : r = Adds(ram) /\ ram' = [r EXCEPT !.rtc = TRUE]
      BY <2>8 DEF SetClock
    <3> QED BY <1>1, <3>1, RamParts
  <2> QED BY <2>1, <2>2, <2>3, <2>4, <2>5, <2>6, <2>7, <2>8
<1> QED BY <1>3, <1>4, <1>5, QuietStep

-----------------------------------------------------------------------------
(* Credentials come and go *)

\* A command that writes and keeps no copies
LEMMA CommandStep ==
    ASSUME CredInv, UNCHANGED <<cache, flash>>, HistGrows, Running', op'.then = "idle",
           \A h \in hist'.handles : Known(h)' /\ h.kind = "handle",
           ram' = Parsed
    PROVE  CredInv'
<1>1. Stored'
  BY StoredStays DEF CredInv
<1>2. Shaped(ram') /\ ram'.next = NoNext
  <2>1. Shaped(ram)
    BY DEF CredInv, Asserting
  <2> QED BY <2>1, ParsedParts
<1>3. Asserting'
  BY <1>2, ParsedAsserts
<1> QED BY <1>1, <1>3 DEF CredInv

\* ... that changes what a slot holds to something that is live only if it was, for the same user
LEMMA ChangesSlot ==
    ASSUME CredInv, NEW s \in Slots, NEW v \in CredRecords, Changes(<<SlotIs(s, v)>>), Resident(v),
           v = NoCred \/ (v.rp = cache.slot[s].rp /\ v.user = cache.slot[s].user /\ (Live(v) => Live(cache.slot[s]))),
           hist' = [hist EXCEPT !.cmds = @ + 1], ram' = Parsed
    PROVE  CredInv'
<1>1. Stored /\ IsHist(hist)
  BY DEF CredInv, Stored
<1>2. HistGrows /\ hist'.handles = hist.handles /\ hist'.twice = hist.twice
  <2>1. \E n : hist' = [hist EXCEPT !.cmds = n] \/ hist' = [hist EXCEPT !.signs = n]
    OBVIOUS
  <2> QED BY <1>1, <2>1, SameHist
<1>3. \A h \in hist'.handles : Known(h)' /\ h.kind = "handle"
  BY <1>1, <1>2, KnownStays DEF Stored
<1>4. UNCHANGED <<cache, flash>> /\ op' = Run(<<SlotIs(s, v)>>, "idle")
  BY DEF Changes
<1>5. Resident(v)'
  BY <1>1, <1>2, ResidentStays
<1>6. ~hist'.twice => \A t \in Slots : t # s => ~Same(v, cache'.slot[t])
  BY <1>1, <1>2, <1>4, NoCredTyped DEF Stored, Same
<1>7. Running' /\ op'.then = "idle"
  BY <1>4, <1>5, <1>6, WritesSlot
<1> QED BY <1>2, <1>3, <1>4, <1>7, CommandStep

\* What a change makes of the credential in a slot.
LEMMA Changed ==
    ASSUME NEW c, Resident(c), c.kind = "container", NEW m, m = c \/ m = [c EXCEPT !.st = "expired"],
           NEW st \in {"active", "revoked", "expired"}, NEW on \in BOOLEAN, NEW v,
           v = m \/ v = [m EXCEPT !.st = st] \/ v = [m EXCEPT !.btn = on] \/ v = [m EXCEPT !.exp = on]
    PROVE  v \in CredRecords /\ v.kind = "container" /\ v.id = c.id /\ v.prot = c.prot /\ v.rp = c.rp /\ v.user = c.user
           /\ Resident(v)
<1>1. c # NoCred /\ Known(c) /\ c \in CredRecords /\ c.rp \in Rps /\ c.user \in Users
  BY NoCredTyped DEF Resident, Known
<1>2. m \in CredRecords /\ m.kind = "container" /\ m.id = c.id /\ m.prot = c.prot /\ m.rp = c.rp /\ m.user = c.user
  BY <1>1 DEF CredRecords
<1>3. v \in CredRecords /\ v.kind = "container" /\ v.id = c.id /\ v.prot = c.prot /\ v.rp = c.rp /\ v.user = c.user
  <2>1. CASE v = m
    BY <1>2, <2>1
  <2>2. CASE v = [m EXCEPT !.st = st]
    BY <1>2, <2>2 DEF CredRecords
  <2>3. CASE v = [m EXCEPT !.btn = on]
    BY <1>2, <2>3 DEF CredRecords
  <2>4. CASE v = [m EXCEPT !.exp = on]
    BY <1>2, <2>4 DEF CredRecords
  <2> QED BY <2>1, <2>2, <2>3, <2>4
<1> QED BY <1>1, <1>3 DEF Resident, Known

LEMMA MetadataIs ==
    ASSUME NEW c
    PROVE  Metadata(c) = c \/ (c.st = "active" /\ Metadata(c) = [c EXCEPT !.st = "expired"])
BY DEF Metadata

LEMMA ManageCred ==
    ASSUME CredInv, NEW s \in Slots, NEW on \in BOOLEAN,
           DeleteCredential(s) \/ UpdateUser(s) \/ Revoke(s) \/ Expire(s, on) \/ RequireButton(s, on)
    PROVE  CredInv'
<1>1. PICK c : c = cache.slot[s]
  OBVIOUS
<1>2. Resident(c) /\ IsHist(hist) /\ cache \in FileSets /\ c \in CredRecords
  BY <1>1 DEF CredInv, Stored, FileSets
<1>3. PICK m : m = Metadata(c)
  OBVIOUS
<1>4. m = c \/ (c.st = "active" /\ m = [c EXCEPT !.st = "expired"])
  BY <1>3, MetadataIs
<1>5. hist' = [hist EXCEPT !.cmds = @ + 1] /\ ram' = Parsed
  BY DEF DeleteCredential, UpdateUser, Revoke, Expire, RequireButton
<1>6. CASE UpdateUser(s)
  <2>1. Changes(<<SlotIs(s, c)>>)
    BY <1>1, <1>6 DEF UpdateUser, Renamed
  <2> QED BY <1>1, <1>2, <1>5, <2>1, ChangesSlot
<1>7. CASE Revoke(s)
  <2>1. PICK v : v = [m EXCEPT !.st = "revoked"]
    OBVIOUS
  <2>2. Changes(<<SlotIs(s, v)>>) /\ c.kind = "container"
    BY <1>1, <1>3, <1>7, <2>1 DEF Revoke, Kept
  <2>3. v \in CredRecords /\ Resident(v) /\ v.rp = c.rp /\ v.user = c.user /\ v.kind = "container"
    BY <1>2, <1>4, <2>1, <2>2, Changed
  <2>4. v.st = "revoked"
    BY <1>2, <1>4, <2>1 DEF CredRecords
  <2>5. ~Live(v)
    BY <2>3, <2>4 DEF Live
  <2> QED BY <1>1, <1>5, <2>2, <2>3, <2>5, ChangesSlot
<1>8. CASE Expire(s, on)
  <2>1. PICK e, v : e = [c EXCEPT !.exp = on] /\ v = Metadata(e)
    OBVIOUS
  <2>2. Changes(<<SlotIs(s, v)>>) /\ c.kind = "container" /\ m.st = "active"
    BY <1>1, <1>3, <1>8, <2>1 DEF Expire, Kept
  <2>3. e \in CredRecords /\ Resident(e) /\ e.rp = c.rp /\ e.user = c.user /\ e.kind = "container" /\ e.st = c.st
    <3>1. e \in CredRecords /\ Resident(e) /\ e.rp = c.rp /\ e.user = c.user /\ e.kind = "container"
      BY <1>2, <2>1, <2>2, Changed
    <3> QED BY <1>2, <2>1, <3>1 DEF CredRecords
  <2>4. v = e \/ v = [e EXCEPT !.st = "expired"]
    BY <2>1, MetadataIs
  <2>5. v \in CredRecords /\ Resident(v) /\ v.rp = c.rp /\ v.user = c.user /\ v.kind = "container"
    BY <2>3, <2>4, Changed
  <2>6. c.st = "active"
    BY <1>2, <1>4, <2>2 DEF CredRecords
  <2> QED BY <1>1, <1>5, <2>2, <2>5, <2>6, ChangesSlot DEF Live
<1>9. CASE RequireButton(s, on)
  <2>1. PICK v : v = [m EXCEPT !.btn = on]
    OBVIOUS
  <2>2. Changes(<<SlotIs(s, v)>>) /\ c.kind = "container"
    BY <1>1, <1>3, <1>9, <2>1 DEF RequireButton, Kept
  <2>3. v \in CredRecords /\ Resident(v) /\ v.rp = c.rp /\ v.user = c.user /\ v.kind = "container"
    BY <1>2, <1>4, <2>1, <2>2, Changed
  <2>4. v.st = m.st /\ (m.st = "active" => c.st = "active")
    BY <1>2, <1>4, <2>1 DEF CredRecords
  <2> QED BY <1>1, <1>5, <2>2, <2>3, <2>4, ChangesSlot DEF Live
<1>10. CASE DeleteCredential(s)
  <2>1. Changes(DeleteWrites(s)) /\ c # NoCred
    BY <1>1, <1>10, NoCredTyped DEF DeleteCredential
  <2>2. CASE c.kind = "file" /\ cache.rp[c.rp] > 0
    <3>1. PICK n \in Nat : n = cache.rp[c.rp] - 1
      <4>1. c.rp \in Rps /\ cache.rp[c.rp] \in Nat
        BY <1>2, <2>1 DEF Resident, FileSets
      <4> QED BY <2>2, <4>1
    <3>2. PICK x, y : x = SlotIs(s, NoCred) /\ y = Put("rp", c.rp, n)
      OBVIOUS
    <3>3. DeleteWrites(s) = <<x>> \o <<y>>
      BY <1>1, <2>2, <3>1, <3>2 DEF DeleteWrites
    <3>4. DeleteWrites(s) = <<x, y>>
      BY <3>3, PairOf
    <3>5. op' = Run(<<SlotIs(s, NoCred), Put("rp", c.rp, n)>>, "idle") /\ UNCHANGED <<cache, flash>>
      BY <2>1, <3>2, <3>4 DEF Changes
    <3>6. c.rp \in Rps
      BY <1>2, <2>1 DEF Resident
    <3>7. Running' /\ op'.then = "idle"
      BY <3>5, <3>6, WritesDelete
    <3>8. HistGrows /\ hist'.handles = hist.handles
      <4>1. \E k : hist' = [hist EXCEPT !.cmds = k] \/ hist' = [hist EXCEPT !.signs = k]
        BY <1>5
      <4> QED BY <1>2, <4>1, SameHist
    <3>9. \A h \in hist'.handles : Known(h)' /\ h.kind = "handle"
      BY <1>2, <3>8, KnownStays DEF CredInv, Stored
    <3> QED BY <1>5, <3>5, <3>7, <3>8, <3>9, CommandStep
  <2>3. CASE ~(c.kind = "file" /\ cache.rp[c.rp] > 0)
    <3>1. DeleteWrites(s) = <<SlotIs(s, NoCred)>> \o <<>>
      BY <1>1, <2>3 DEF DeleteWrites
    <3>2. DeleteWrites(s) = <<SlotIs(s, NoCred)>>
      BY <3>1, NothingMore
    <3>3. Changes(<<SlotIs(s, NoCred)>>)
      BY <2>1, <3>2
    <3> QED BY <1>5, <3>3, NoCredTyped, ChangesSlot DEF Resident
  <2> QED BY <2>2, <2>3
<1> QED BY <1>6, <1>7, <1>8, <1>9, <1>10

\* The least of some numbers
LEMMA LeastIn ==
    ASSUME NEW S, S \subseteq Nat, S # {}
    PROVE  Min(S) \in S
<1> DEFINE R == OpToRel(<, Nat)
<1>1. \E x \in S : \A y \in S : ~(<<y, x>> \in R)
  <2>1. IsWellFoundedOn(R, Nat)
    BY NatLessThanWellFounded
  <2> HIDE DEF R
  <2> QED BY <2>1, WFMin, Zenon
<1>2. PICK x \in S : \A y \in S : ~(<<y, x>> \in R)
  BY <1>1
<1>3. ASSUME NEW y \in S PROVE x <= y
  <2>1. x \in Nat /\ y \in Nat
    OBVIOUS
  <2>2. y < x => <<y, x>> \in R
    BY <2>1 DEF OpToRel
  <2> HIDE DEF R
  <2> QED BY <1>2, <2>1, <2>2
<1> QED BY <1>2, <1>3 DEF Min

LEMMA SlotNumbers == Slots \subseteq Nat
<1>1. Slots = 0..(Cardinality(Slots) - 1) /\ Cardinality(Slots) \in Nat
  BY ConstantTypes, FS_CardinalityType
<1>2. \A n \in Nat : 0..(n - 1) \subseteq Nat
  OBVIOUS
<1> QED BY <1>1, <1>2

LEMMA HostsAsk == Sites \subseteq Rps /\ Persons \subseteq Users /\ Asked \subseteq 1..3
<1>1. (CHOOSE r \in Rps : TRUE) \in Rps /\ (CHOOSE u \in Users : TRUE) \in Users
  BY ConstantTypes
<1>2. Protections \subseteq 1..3 /\ {1} \subseteq 1..3
  BY ProtectionLevels
<1> QED BY <1>1, <1>2 DEF Sites, Persons, Asked

\* The history of a credential that is made
LEMMA MakesId ==
    ASSUME IsHist(hist), hist.ids < MaxIds, NEW prot \in 1..3,
           DOMAIN hist' = DOMAIN hist, hist'.ids = hist.ids + 1, hist'.prot = [hist.prot EXCEPT ![hist.ids + 1] = prot],
           hist'.handles \subseteq CredRecords,
           hist'.issued = hist.issued, hist'.settled = hist.settled,
           hist.erased => hist'.erased, hist.twice => hist'.twice
    PROVE  HistGrows /\ hist.ids + 1 \in 1..hist'.ids /\ hist'.prot[hist.ids + 1] = prot
<1>1. hist.ids \in Nat /\ hist.ids + 1 \in 1..MaxIds /\ prot \in 0..3
  BY ConstantTypes DEF IsHist
<1>2. IsHist(hist')
  BY <1>1 DEF IsHist
<1>3. \A i \in 1..hist.ids : i # hist.ids + 1 /\ i \in 1..MaxIds
  <2>1. \A n, m \in Nat : \A i \in 1..n : n < m => i # n + 1 /\ i \in 1..m
    OBVIOUS
  <2> QED BY <1>1, <2>1, ConstantTypes
<1>4. \A i \in 1..hist.ids : hist'.prot[i] = hist.prot[i]
  BY <1>3 DEF IsHist
<1>5. hist.ids <= hist'.ids /\ hist.ids + 1 \in 1..hist'.ids
  BY <1>1
<1>6. hist'.prot[hist.ids + 1] = prot
  BY <1>1 DEF IsHist
<1> QED BY <1>2, <1>4, <1>5, <1>6 DEF HistGrows

\* What credential_store writes is the one live credential of its user.
LEMMA StoresCred ==
    ASSUME CredInv, NEW rp \in Rps, NEW user \in Users, NEW id \in Nat, NEW prot \in 1..3, HistGrows, cache' = cache,
           id \in 1..hist'.ids, hist'.prot[id] = prot, ~hist'.twice => ~Hidden(rp, user), Target(rp, user) # {}
    PROVE  \E s \in Slots, v \in CredRecords :
              /\ StoreWrites(rp, user, id, prot) = <<SlotIs(s, v)>>
              /\ Resident(v)'
              /\ ~hist'.twice => \A t \in Slots : t # s => ~Same(v, cache'.slot[t])
<1>1. PICK s : s = (CHOOSE x \in Target(rp, user) : TRUE)
  OBVIOUS
<1>2. PICK v : v = Cred(IF cache.slot[s].kind = "file" THEN "file" ELSE "container", id, rp, user, prot)
  OBVIOUS
<1>3. StoreWrites(rp, user, id, prot) = <<SlotIs(s, v)>>
  BY <1>1, <1>2 DEF StoreWrites
<1>4. /\ v \in CredRecords /\ v.kind \in {"file", "container"} /\ v.id = id /\ v.rp = rp /\ v.user = user /\ v.prot = prot
      /\ v.st = "active" /\ v.exp = FALSE
  BY <1>2 DEF Cred, NoCred, CredRecords
<1>5. Resident(v)'
  BY <1>4 DEF Resident, Known
<1>6. s \in Slots /\ (s \in Matching(rp, user) \/ (Matching(rp, user) = {} /\ s \in Slots))
  <2>1. Matching(rp, user) \subseteq Slots /\ Free \subseteq Slots
    BY DEF Matching, OfRp, Free
  <2>2. Matching(rp, user) # {} => Min(Matching(rp, user)) \in Matching(rp, user)
    BY <2>1, SlotNumbers, LeastIn
  <2>3. Free # {} => Min(Free) \in Free
    BY <2>1, SlotNumbers, LeastIn
  <2>4. CASE Matching(rp, user) # {}
    BY <1>1, <2>1, <2>2, <2>4 DEF Target
  <2>5. CASE Matching(rp, user) = {}
    <3>1. Free # {} /\ Target(rp, user) = {Min(Free)}
      BY <2>5 DEF Target
    <3> QED BY <1>1, <2>1, <2>3, <2>5, <3>1
  <2> QED BY <2>4, <2>5
<1>7. ASSUME ~hist'.twice, NEW t \in Slots, t # s, Same(v, cache'.slot[t]) PROVE FALSE
  <2>1. ~hist.twice /\ ~Hidden(rp, user)
    BY <1>7 DEF HistGrows
  <2>2. PICK c : c = cache.slot[t]
    OBVIOUS
  <2>3. Live(c) /\ c.rp = rp /\ c.user = user
    BY <1>4, <1>7, <2>2 DEF Same
  <2>4. Resident(c) /\ c # NoCred
    BY <2>2, <2>3, NoCredTyped DEF CredInv, Stored
  <2>5. ~(c.st = "active" /\ Passed(c))
    BY <2>1, <2>2, <2>3 DEF Hidden
  <2>6. Usable(c)
    BY <2>3, <2>4, <2>5 DEF Usable, Live, Resident
  <2>7. t \in Matching(rp, user)
    BY <2>2, <2>3, <2>6 DEF Matching, OfRp
  <2>8. s \in Matching(rp, user)
    BY <1>6, <2>7
  <2>9. Live(cache.slot[s]) /\ cache.slot[s].rp = rp /\ cache.slot[s].user = user
    <3>1. Usable(cache.slot[s]) /\ cache.slot[s].rp = rp /\ cache.slot[s].user = user
      BY <2>8 DEF Matching, OfRp
    <3>2. Resident(cache.slot[s]) /\ cache.slot[s].kind # "none"
      BY <1>6, <3>1 DEF Usable, CredInv, Stored
    <3>3. cache.slot[s].kind \in {"file", "container"}
      BY <3>2, NoCredTyped DEF Resident
    <3> QED BY <3>1, <3>3 DEF Usable, Live
  <2>10. Same(cache.slot[s], cache.slot[t])
    BY <2>2, <2>3, <2>9 DEF Same
  <2> QED BY <1>6, <1>7, <2>1, <2>10 DEF CredInv, Stored
<1> QED BY <1>3, <1>4, <1>5, <1>6, <1>7

LEMMA MakesCred ==
    ASSUME CredInv, NEW rp \in Sites, NEW user \in Persons, NEW prot \in Asked, NEW uv, NEW excl,
           MakeCredential(rp, user, prot, uv, excl)
    PROVE  CredInv'
<1>1. rp \in Rps /\ user \in Users /\ prot \in 1..3
  BY HostsAsk
<1>2. IsHist(hist) /\ cache \in FileSets /\ Shaped(ram)
  BY DEF CredInv, Stored, Asserting
<1>3. PICK id : id = hist.ids + 1
  OBVIOUS
<1>4. /\ UNCHANGED <<cache, flash>> /\ hist.ids < MaxIds
      /\ op' = Run(Bump \o StoreWrites(rp, user, id, prot), "idle")
      /\ hist' = [hist EXCEPT !.ids = id, !.prot[id] = prot, !.twice = @ \/ Hidden(rp, user)]
      /\ ram' = Adds(Parsed)
  BY <1>3 DEF MakeCredential
<1>5. /\ DOMAIN hist' = DOMAIN hist /\ hist'.ids = hist.ids + 1 /\ hist'.prot = [hist.prot EXCEPT ![hist.ids + 1] = prot]
      /\ hist'.handles = hist.handles /\ hist'.issued = hist.issued /\ hist'.settled = hist.settled
      /\ hist'.erased = hist.erased /\ (hist.twice => hist'.twice) /\ (Hidden(rp, user) => hist'.twice)
  BY <1>2, <1>3, <1>4 DEF IsHist
<1>6. HistGrows /\ id \in 1..hist'.ids /\ hist'.prot[id] = prot /\ id \in Nat
  <2>1. hist'.handles \subseteq CredRecords
    BY <1>2, <1>5 DEF IsHist
  <2>2. HistGrows /\ hist.ids + 1 \in 1..hist'.ids /\ hist'.prot[hist.ids + 1] = prot
    BY <1>1, <1>2, <1>4, <1>5, <2>1, MakesId
  <2> QED BY <1>2, <1>3, <2>2 DEF IsHist
<1>7. Running' /\ op'.then = "idle"
  <2>1. CASE Target(rp, user) # {}
    <3>1. PICK s \in Slots, v \in CredRecords :
              /\ StoreWrites(rp, user, id, prot) = <<SlotIs(s, v)>>
              /\ Resident(v)'
              /\ ~hist'.twice => \A t \in Slots : t # s => ~Same(v, cache'.slot[t])
      BY <1>1, <1>4, <1>5, <1>6, <2>1, StoresCred
    <3> QED BY <1>2, <1>4, <3>1, WritesCounterAndSlot
  <2>2. CASE Target(rp, user) = {}
    <3>1. StoreWrites(rp, user, id, prot) = <<>>
      BY <2>2 DEF StoreWrites
    <3>2. Bump \o <<>> = Bump
      BY NothingMore DEF Bump
    <3> QED BY <1>2, <1>4, <3>1, <3>2, WritesCounter
  <2> QED BY <2>1, <2>2
<1>8. Stored'
  <2>1. \A h \in hist'.handles : Known(h)' /\ h.kind = "handle"
    BY <1>2, <1>5, <1>6, KnownStays DEF CredInv, Stored
  <2> QED BY <1>4, <1>6, <2>1, StoredStays DEF CredInv
<1>9. Asserting'
  <2>1. PICK r : r = Parsed
    OBVIOUS
  <2>2. Shaped(r) /\ r.next = NoNext /\ ram' = Adds(r)
    BY <1>2, <1>4, <2>1, ParsedParts
  <2>3. Shaped(ram') /\ ram'.next = NoNext
    BY <2>2, RamParts
  <2> QED BY <1>7, <2>3, ParsedAsserts
<1> QED BY <1>7, <1>8, <1>9 DEF CredInv

LEMMA MakesHandle ==
    ASSUME CredInv, NEW rp \in Sites, NEW prot \in Asked, NEW u2f \in BOOLEAN, MakeHandle(rp, prot, u2f)
    PROVE  CredInv'
<1>1. rp \in Rps /\ prot \in 1..3
  BY HostsAsk
<1>2. IsHist(hist) /\ cache \in FileSets /\ Shaped(ram) /\ cache.key \in Nat
  BY DEF CredInv, Stored, Asserting, FileSets
<1>3. PICK id : id = hist.ids + 1
  OBVIOUS
<1>4. PICK h : h = [Cred("handle", id, rp, None, prot) EXCEPT !.key = cache.key]
  OBVIOUS
<1>5. /\ UNCHANGED <<cache, flash>> /\ hist.ids < MaxIds /\ op = Idle
      /\ hist' = [hist EXCEPT !.ids = id, !.prot[id] = prot, !.handles = @ \cup {h}]
      /\ op' = IF u2f THEN Idle ELSE Run(Bump, "idle")
      /\ ram' = IF u2f THEN ram ELSE Parsed
  BY <1>3, <1>4 DEF MakeHandle
<1>6. h \in CredRecords /\ h.kind = "handle" /\ h.id = id /\ h.prot = prot
  <2>1. id \in Nat
    BY <1>2, <1>3 DEF IsHist
  <2> QED BY <1>1, <1>2, <1>4, <2>1 DEF Cred, NoCred, CredRecords
<1>7. /\ DOMAIN hist' = DOMAIN hist /\ hist'.ids = hist.ids + 1 /\ hist'.prot = [hist.prot EXCEPT ![hist.ids + 1] = prot]
      /\ hist'.handles = hist.handles \cup {h} /\ hist'.issued = hist.issued /\ hist'.settled = hist.settled
      /\ hist'.erased = hist.erased /\ hist'.twice = hist.twice
  BY <1>2, <1>3, <1>5 DEF IsHist
<1>8. HistGrows /\ id \in 1..hist'.ids /\ hist'.prot[id] = prot
  <2>1. hist'.handles \subseteq CredRecords
    BY <1>2, <1>6, <1>7 DEF IsHist
  <2>2. HistGrows /\ hist.ids + 1 \in 1..hist'.ids /\ hist'.prot[hist.ids + 1] = prot
    BY <1>1, <1>2, <1>5, <1>7, <2>1, MakesId
  <2> QED BY <1>3, <2>2
<1>9. \A x \in hist'.handles : Known(x)' /\ x.kind = "handle"
  <2>1. Known(h)'
    BY <1>6, <1>8 DEF Known
  <2>2. \A x \in hist.handles : Known(x)' /\ x.kind = "handle"
    BY <1>2, <1>8, KnownStays DEF CredInv, Stored
  <2> QED BY <1>6, <1>7, <2>1, <2>2
<1>10. CASE u2f
  <2>1. op' = Idle /\ ram' = ram
    BY <1>5, <1>10
  <2>2. Running' /\ op'.then = "idle" /\ op'.todo = <<>>
    BY <2>1, EndsRunning, IdleFields
  <2>3. Stored'
    BY <1>5, <1>8, <1>9, StoredStays DEF CredInv
  <2>4. Asserting'
    BY <1>2, <1>5, <1>8, <2>1, <2>2, CopiesStay DEF CredInv
  <2> QED BY <2>2, <2>3, <2>4 DEF CredInv
<1>11. CASE ~u2f
  <2>1. op' = Run(Bump, "idle") /\ ram' = Parsed
    BY <1>5, <1>11
  <2>2. Running' /\ op'.then = "idle"
    BY <1>2, <1>5, <2>1, WritesCounter
  <2> QED BY <1>5, <1>8, <1>9, <2>1, <2>2, CommandStep
<1> QED BY <1>10, <1>11

LEMMA Probes ==
    ASSUME CredInv, NEW rp, NEW id, Probe(rp, id)
    PROVE  CredInv'
<1>1. IsHist(hist) /\ cache \in FileSets
  BY DEF CredInv, Stored
<1>2. /\ UNCHANGED <<cache, flash>> /\ op' = Run(Bump, "idle") /\ ram' = Parsed
      /\ \E n : hist' = [hist EXCEPT !.cmds = n] \/ hist' = [hist EXCEPT !.signs = n]
  BY DEF Probe
<1>3. HistGrows /\ hist'.handles = hist.handles
  BY <1>1, <1>2, SameHist
<1>4. \A h \in hist'.handles : Known(h)' /\ h.kind = "handle"
  BY <1>1, <1>3, KnownStays DEF CredInv, Stored
<1>5. Running' /\ op'.then = "idle"
  BY <1>1, <1>2, WritesCounter
<1> QED BY <1>2, <1>3, <1>4, <1>5, CommandStep

LEMMA Imports ==
    ASSUME CredInv, NEW rp \in Sites, NEW user \in Persons, Import(rp, user)
    PROVE  CredInv'
<1>1. rp \in Rps /\ user \in Users
  BY HostsAsk
<1>2. IsHist(hist) /\ cache \in FileSets /\ Shaped(ram)
  BY DEF CredInv, Stored, Asserting
<1>3. PICK id, s : id = hist.ids + 1 /\ s = Min(Free)
  OBVIOUS
<1>4. PICK v : v = [Cred("container", id, rp, user, 1) EXCEPT !.imported = TRUE]
  OBVIOUS
<1>5. /\ UNCHANGED <<cache, flash>> /\ hist.ids < MaxIds /\ Free # {}
      /\ op' = Run(<<SlotIs(s, v)>>, "idle")
      /\ hist' = [hist EXCEPT !.ids = id, !.prot[id] = 1, !.cmds = @ + 1, !.twice = TRUE]
      /\ ram' = Adds(ram)
  BY <1>3, <1>4 DEF Import
<1>6. s \in Slots /\ cache.slot[s].kind = "none"
  <2>1. Free \subseteq Slots
    BY DEF Free
  <2>2. s \in Free
    BY <1>3, <1>5, <2>1, SlotNumbers, LeastIn
  <2> QED BY <2>2 DEF Free
<1>7. cache.slot[s] = NoCred
  BY <1>6 DEF CredInv, Stored, Resident
<1>8. v \in CredRecords /\ v.kind = "container" /\ v.id = id /\ v.prot = 1 /\ v.rp = rp /\ v.user = user
  <2>1. id \in Nat
    BY <1>2, <1>3 DEF IsHist
  <2>2. v = [kind |-> "container", id |-> id, rp |-> rp, user |-> user, prot |-> 1,
             st |-> "active", exp |-> FALSE, imported |-> TRUE, btn |-> FALSE, key |-> 0]
    BY <1>4 DEF Cred, NoCred
  <2> QED BY <1>1, <2>1, <2>2 DEF CredRecords
<1>9. /\ DOMAIN hist' = DOMAIN hist /\ hist'.ids = hist.ids + 1 /\ hist'.prot = [hist.prot EXCEPT ![hist.ids + 1] = 1]
      /\ hist'.handles = hist.handles /\ hist'.issued = hist.issued /\ hist'.settled = hist.settled
      /\ hist'.erased = hist.erased /\ hist'.twice
  BY <1>2, <1>3, <1>5 DEF IsHist
<1>10. HistGrows /\ id \in 1..hist'.ids /\ hist'.prot[id] = 1
  <2>1. hist'.handles \subseteq CredRecords /\ 1 \in 1..3
    BY <1>2, <1>9 DEF IsHist
  <2>2. HistGrows /\ hist.ids + 1 \in 1..hist'.ids /\ hist'.prot[hist.ids + 1] = 1
    BY <1>2, <1>5, <1>9, <2>1, MakesId
  <2> QED BY <1>3, <2>2
<1>11. Resident(v)'
  BY <1>1, <1>8, <1>10 DEF Resident, Known
<1>12. Running' /\ op'.then = "idle" /\ op'.todo = <<SlotIs(s, v)>>
  BY <1>5, <1>6, <1>8, <1>9, <1>11, WritesSlot
<1>13. Stored'
  <2>1. \A h \in hist'.handles : Known(h)' /\ h.kind = "handle"
    BY <1>2, <1>9, <1>10, KnownStays DEF CredInv, Stored
  <2> QED BY <1>5, <1>10, <2>1, StoredStays DEF CredInv
<1>14. Asserting'
  <2>1. Shaped(ram') /\ ram'.next = ram.next
    BY <1>2, <1>5, RamParts
  <2>2. \A c \in ram.next.left : Allowed(c, ram.next.uv, ram.next.list)'
    <3> SUFFICES ASSUME NEW c \in ram.next.left PROVE Allowed(c, ram.next.uv, ram.next.list)'
      OBVIOUS
    <3>1. PICK uv, list : uv = ram.next.uv /\ list = ram.next.list
      OBVIOUS
    <3>2. Allowed(c, uv, list)
      BY <3>1 DEF CredInv, Asserting
    <3>3. Allowed(c, uv, list)'
      BY <1>2, <1>5, <1>10, <3>2, AllowedStays
    <3>4. ram'.next.uv = uv /\ ram'.next.list = list
      BY <2>1, <3>1
    <3> QED BY <3>3, <3>4
  <2>3. \A i \in 1..Len(op'.todo) : op'.todo[i].f = "slot" => Len(op'.todo) = 1 /\ cache'.slot[op'.todo[i].at] = NoCred
    BY <1>5, <1>7, <1>12 DEF SlotIs, Put
  <2> QED BY <1>12, <2>1, <2>2, <2>3 DEF CredInv, Asserting
<1> QED BY <1>12, <1>13, <1>14 DEF CredInv

LEMMA Resets ==
    ASSUME CredInv, NEW management \in BOOLEAN, Reset(management)
    PROVE  CredInv'
<1>1. IsHist(hist) /\ cache \in FileSets /\ Shaped(ram)
  BY DEF CredInv, Stored, Asserting
<1>2. /\ UNCHANGED <<cache, flash>> /\ op' = Run(ResetWrites, "idle")
      /\ hist' = [hist EXCEPT !.cmds = @ + 1, !.erased = @ \/ (management /\ ram.next # NoNext)]
      /\ ram' = IF management THEN ram ELSE Parsed
  BY DEF Reset, Changes
<1>3. /\ HistGrows /\ hist'.handles = hist.handles /\ (management /\ ram.next # NoNext => hist'.erased)
  <2>1. /\ DOMAIN hist' = DOMAIN hist /\ hist'.ids = hist.ids /\ hist'.prot = hist.prot
        /\ hist'.handles = hist.handles /\ hist'.issued = hist.issued /\ hist'.settled = hist.settled
        /\ (hist.erased => hist'.erased) /\ hist'.twice = hist.twice /\ (management /\ ram.next # NoNext => hist'.erased)
    BY <1>1, <1>2 DEF IsHist
  <2> QED BY <1>1, <2>1 DEF HistGrows, IsHist
<1>4. \A h \in hist'.handles : Known(h)' /\ h.kind = "handle"
  BY <1>1, <1>3, KnownStays DEF CredInv, Stored
<1>5. Running' /\ op'.then = "idle"
  BY <1>1, <1>2, WritesReset
<1>6. CASE ~management
  BY <1>2, <1>3, <1>4, <1>5, <1>6, CommandStep
<1>7. CASE management
  <2>1. ram' = ram /\ (ram.next # NoNext => hist'.erased)
    BY <1>2, <1>3, <1>7
  <2>2. Stored'
    BY <1>2, <1>3, <1>4, StoredStays DEF CredInv
  <2>3. CASE ram.next = NoNext
    <3>1. Asserting'
      BY <1>1, <1>5, <2>1, <2>3, ParsedAsserts
    <3> QED BY <1>5, <2>2, <3>1 DEF CredInv
  <2>4. CASE ram.next # NoNext
    <3>1. \A c \in ram.next.left : Allowed(c, ram.next.uv, ram.next.list)'
      <4> SUFFICES ASSUME NEW c \in ram.next.left PROVE Allowed(c, ram.next.uv, ram.next.list)'
        OBVIOUS
      <4>1. PICK uv, list : uv = ram.next.uv /\ list = ram.next.list
        OBVIOUS
      <4>2. Allowed(c, uv, list)
        BY <4>1 DEF CredInv, Asserting
      <4>3. Allowed(c, uv, list)'
        BY <1>1, <1>2, <1>3, <4>2, AllowedStays
      <4> QED BY <2>1, <4>1, <4>3
    <3>2. Asserting'
      BY <1>1, <1>5, <2>1, <2>4, <3>1 DEF CredInv, Asserting
    <3> QED BY <1>5, <2>2, <3>2 DEF CredInv
  <2> QED BY <2>3, <2>4
<1> QED BY <1>6, <1>7

-----------------------------------------------------------------------------
(* Assertions *)

LEMMA LoadedAllowed ==
    ASSUME CredInv, NEW rp, NEW ids, NEW c \in Loaded(rp, ids), NEW uv, NEW list, Shown(c, uv, list)
    PROVE  c \in CredRecords /\ Allowed(c, uv, list)
<1>1. CASE c \in Handles(rp)
  <2>1. Known(c) /\ c.kind = "handle"
    BY <1>1 DEF Handles, CredInv, Stored
  <2> QED BY <2>1 DEF Allowed, Known
<1>2. CASE \E s \in OfRp(rp) : c = cache.slot[s]
  <2>1. PICK s \in Slots : c = cache.slot[s] /\ Usable(c)
    BY <1>2 DEF OfRp
  <2>2. Resident(c) /\ c.kind # "none"
    BY <2>1 DEF Usable, CredInv, Stored
  <2>3. Known(c) /\ c.kind \in {"file", "container"} /\ c.st = "active"
    BY <2>1, <2>2, NoCredTyped DEF Resident, Usable
  <2>4. Stands(c)
    BY <2>1, <2>3 DEF Stands
  <2> QED BY <2>3, <2>4 DEF Allowed, Known
<1>3. c \in Handles(rp) \/ \E s \in OfRp(rp) : c = cache.slot[s]
  BY DEF Loaded
<1> QED BY <1>1, <1>2, <1>3

\* A command that is going to sign with an allowed credential, and what is left for the next one.
LEMMA AssertStep ==
    ASSUME CredInv, UNCHANGED <<cache, flash>>, \E n : hist' = [hist EXCEPT !.cmds = n] \/ hist' = [hist EXCEPT !.signs = n],
           NEW c \in CredRecords, NEW uv \in BOOLEAN, NEW list \in BOOLEAN,
           op' = Signs(c, uv, list) \/ op' = [Signs(c, uv, list) EXCEPT !.next = TRUE], Allowed(c, uv, list),
           Shaped(ram'), ram'.next \in [left : SUBSET CredRecords, uv : BOOLEAN, list : BOOLEAN],
           \A x \in ram'.next.left : Allowed(x, ram'.next.uv, ram'.next.list)
    PROVE  CredInv'
<1>1. IsHist(hist) /\ cache \in FileSets
  BY DEF CredInv, Stored
<1>2. HistGrows /\ hist'.handles = hist.handles
  BY <1>1, SameHist
<1>3. Stored'
  <2>1. \A h \in hist'.handles : Known(h)' /\ h.kind = "handle"
    BY <1>1, <1>2, KnownStays DEF CredInv, Stored
  <2> QED BY <1>2, <2>1, StoredStays DEF CredInv
<1>4. /\ Running' /\ op'.then = "sign" /\ op'.cred = c /\ op'.uv = uv /\ op'.list = list
      /\ \A i \in 1..Len(op'.todo) : op'.todo[i].f # "slot"
  BY <1>1, WritesSignature
<1>5. Allowed(c, uv, list)'
  BY <1>1, <1>2, AllowedStays
<1>6. PICK left, u, l : left = ram'.next.left /\ u = ram'.next.uv /\ l = ram'.next.list
  OBVIOUS
<1>7. \A x \in left : Allowed(x, u, l)
  BY <1>6
<1>8. \A x \in left : Allowed(x, u, l)'
  BY <1>1, <1>2, <1>7, AllowedStays
<1>9. Asserting'
  BY <1>4, <1>5, <1>6, <1>8 DEF Asserting
<1> QED BY <1>3, <1>4, <1>9 DEF CredInv

LEMMA Asserts ==
    ASSUME CredInv, NEW rp, NEW uv \in BOOLEAN, NEW ids, GetAssertion(rp, uv, ids)
    PROVE  CredInv'
<1>1. PICK list \in BOOLEAN : list = (ids # {})
  OBVIOUS
<1>2. PICK found : found = {c \in Loaded(rp, ids) : Shown(c, uv, ids # {})}
  OBVIOUS
<1>3. /\ UNCHANGED <<cache, flash>> /\ \E n : hist' = [hist EXCEPT !.cmds = n] \/ hist' = [hist EXCEPT !.signs = n]
      /\ \E c \in found :
            /\ op' = Signs(c, uv, list)
            /\ \E n : /\ n = NoNext \/ n = [left |-> found \ {c}, uv |-> uv, list |-> list]
                      /\ ram' = [ram EXCEPT !.next = n]
  <2>1. UNCHANGED <<cache, flash>> /\ \E n : hist' = [hist EXCEPT !.cmds = n] \/ hist' = [hist EXCEPT !.signs = n]
    BY DEF GetAssertion
  <2>2. PICK c \in found :
           /\ op' = Signs(c, uv, ids # {})
           /\ ram' = [ram EXCEPT !.next =
                IF Cardinality(found) > 1 /\ ((\E d \in Loaded(rp, ids) : d.kind # "handle") => Cardinality(ids) <= 1)
                THEN [left |-> found \ {c}, uv |-> uv, list |-> ids # {}] ELSE NoNext]
    BY <1>2, Zenon DEF GetAssertion
  <2>3. op' = Signs(c, uv, list)
    BY <1>1, <2>2
  <2>4. [left |-> found \ {c}, uv |-> uv, list |-> ids # {}] = [left |-> found \ {c}, uv |-> uv, list |-> list]
    BY <1>1
  <2>5. \E n : /\ n = NoNext \/ n = [left |-> found \ {c}, uv |-> uv, list |-> list]
               /\ ram' = [ram EXCEPT !.next = n]
    BY <2>2, <2>4
  <2> QED BY <2>1, <2>3, <2>5
<1>4. PICK c \in found :
        /\ op' = Signs(c, uv, list)
        /\ \E n : /\ n = NoNext \/ n = [left |-> found \ {c}, uv |-> uv, list |-> list]
                 /\ ram' = [ram EXCEPT !.next = n]
  BY <1>3
<1>5. PICK n : /\ n = NoNext \/ n = [left |-> found \ {c}, uv |-> uv, list |-> list]
               /\ ram' = [ram EXCEPT !.next = n]
  BY <1>4
<1>6. \A x \in found : x \in CredRecords /\ Allowed(x, uv, list)
  <2> SUFFICES ASSUME NEW x \in found PROVE x \in CredRecords /\ Allowed(x, uv, list)
    OBVIOUS
  <2>1. x \in Loaded(rp, ids) /\ Shown(x, uv, list)
    BY <1>1, <1>2
  <2> QED BY <2>1, LoadedAllowed
<1>7. op' = Signs(c, uv, list)
  BY <1>4
<1>8. Shaped(ram') /\ ram'.next = n
  <2>1. Shaped(ram)
    BY DEF CredInv, Asserting
  <2>2. ram' = [ram EXCEPT !.next = n]
    BY <1>5
  <2> QED BY <2>1, <2>2, RamParts
<1>9. n \in [left : SUBSET CredRecords, uv : BOOLEAN, list : BOOLEAN] /\ \A x \in n.left : Allowed(x, n.uv, n.list)
  <2>1. CASE n = NoNext
    BY <2>1 DEF NoNext
  <2>2. CASE n = [left |-> found \ {c}, uv |-> uv, list |-> list]
    <3>1. n.left \subseteq found /\ n.uv = uv /\ n.list = list
      BY <2>2
    <3>2. n \in [left : SUBSET CredRecords, uv : BOOLEAN, list : BOOLEAN]
      BY <1>6, <2>2
    <3> QED BY <1>6, <3>1, <3>2
  <2> QED BY <1>5, <2>1, <2>2
<1>10. c \in CredRecords /\ Allowed(c, uv, list)
  BY <1>6
<1>11. /\ ram'.next \in [left : SUBSET CredRecords, uv : BOOLEAN, list : BOOLEAN]
       /\ \A x \in ram'.next.left : Allowed(x, ram'.next.uv, ram'.next.list)
  BY <1>8, <1>9
<1> QED BY <1>3, <1>7, <1>8, <1>10, <1>11, AssertStep

LEMMA AssertsNext ==
    ASSUME CredInv, GetNextAssertion
    PROVE  CredInv'
<1>1. PICK uv, list : uv = ram.next.uv /\ list = ram.next.list
  OBVIOUS
<1>2. PICK c \in ram.next.left : op' = [Signs(c, uv, list) EXCEPT !.next = TRUE]
  BY <1>1 DEF GetNextAssertion
<1>3. /\ UNCHANGED <<cache, flash, ram>>
      /\ \E n : hist' = [hist EXCEPT !.cmds = n] \/ hist' = [hist EXCEPT !.signs = n]
  BY DEF GetNextAssertion
<1>4. /\ Shaped(ram) /\ ram.next \in [left : SUBSET CredRecords, uv : BOOLEAN, list : BOOLEAN]
      /\ \A x \in ram.next.left : Allowed(x, ram.next.uv, ram.next.list)
  BY DEF CredInv, Asserting
<1>5. uv \in BOOLEAN /\ list \in BOOLEAN /\ c \in CredRecords /\ Allowed(c, uv, list)
  BY <1>1, <1>2, <1>4
<1>6. Shaped(ram') /\ ram'.next \in [left : SUBSET CredRecords, uv : BOOLEAN, list : BOOLEAN]
      /\ \A x \in ram'.next.left : Allowed(x, ram'.next.uv, ram'.next.list)
  BY <1>3, <1>4
<1> QED BY <1>2, <1>3, <1>5, <1>6, AssertStep

LEMMA AssertsU2f ==
    ASSUME CredInv, NEW h \in hist.handles, U2fAuthenticate(h)
    PROVE  CredInv'
<1>1. /\ op' = Signs(h, FALSE, TRUE) /\ h.prot # 3 /\ UNCHANGED <<cache, flash, ram>>
      /\ \E n : hist' = [hist EXCEPT !.cmds = n] \/ hist' = [hist EXCEPT !.signs = n]
  BY DEF U2fAuthenticate
<1>3. h \in CredRecords /\ Allowed(h, FALSE, TRUE)
  <2>1. Known(h) /\ h.kind = "handle"
    BY DEF CredInv, Stored
  <2> QED BY <1>1, <2>1 DEF Allowed, Shown, Known
<1>4. /\ Shaped(ram) /\ ram.next \in [left : SUBSET CredRecords, uv : BOOLEAN, list : BOOLEAN]
      /\ \A x \in ram.next.left : Allowed(x, ram.next.uv, ram.next.list)
  BY DEF CredInv, Asserting
<1>5. Shaped(ram') /\ ram'.next \in [left : SUBSET CredRecords, uv : BOOLEAN, list : BOOLEAN]
      /\ \A x \in ram'.next.left : Allowed(x, ram'.next.uv, ram'.next.list)
  BY <1>1, <1>4
<1> QED BY <1>1, <1>3, <1>5, AssertStep

-----------------------------------------------------------------------------
(* Failures and responses *)

LEMMA SameIds ==
    ASSUME hist'.ids = hist.ids, hist'.prot = hist.prot, NEW c
    PROVE  (Known(c)' <=> Known(c)) /\ (Resident(c)' <=> Resident(c))
BY DEF Known, Resident

LEMMA Faults ==
    ASSUME CredInv, Fault
    PROVE  CredInv'
<1>1. IsHist(hist) /\ Shaped(ram)
  BY DEF CredInv, Stored, Asserting
<1>2. UNCHANGED <<cache, flash>> /\ op' = Idle /\ ram' = [ram EXCEPT !.next = NoNext] /\ hist' = [hist EXCEPT !.mishaps = @ + 1]
  BY DEF Fault
<1>3. HistGrows /\ hist'.handles = hist.handles
  BY <1>1, <1>2 DEF HistGrows, IsHist
<1>4. Stored'
  <2>1. \A h \in hist'.handles : Known(h)' /\ h.kind = "handle"
    BY <1>1, <1>3, KnownStays DEF CredInv, Stored
  <2> QED BY <1>2, <1>3, <2>1, StoredStays DEF CredInv
<1>5. Running' /\ op'.then = "idle"
  BY <1>2, EndsRunning, IdleFields
<1>6. Shaped(ram') /\ ram'.next = NoNext
  BY <1>1, <1>2, RamParts
<1>7. Asserting'
  BY <1>5, <1>6, ParsedAsserts
<1> QED BY <1>4, <1>5, <1>7 DEF CredInv

LEMMA Drains ==
    ASSUME CredInv, Drain
    PROVE  CredInv'
<1>1. IsHist(hist)
  BY DEF CredInv, Stored
<1>2. UNCHANGED <<cache, ram, op>> /\ flash' = cache /\ hist' = [hist EXCEPT !.settled = hist.issued]
  BY DEF Drain
<1>3. /\ DOMAIN hist' = DOMAIN hist /\ hist'.ids = hist.ids /\ hist'.prot = hist.prot /\ hist'.handles = hist.handles
      /\ hist'.issued = hist.issued /\ hist'.settled = hist.issued /\ hist'.erased = hist.erased /\ hist'.twice = hist.twice
  BY <1>1, <1>2 DEF IsHist
<1>4. \A c : (Known(c)' <=> Known(c)) /\ (Resident(c)' <=> Resident(c))
  BY <1>3, SameIds
<1>5. Stored'
  <2>1. IsHist(hist')
    BY <1>1, <1>3 DEF IsHist
  <2>2. \A s \in Slots : Resident(cache.slot[s])' /\ Resident(flash.slot[s])'
    <3>1. cache' = cache /\ flash' = cache
      BY <1>2
    <3>2. \A s \in Slots : Resident(cache.slot[s])
      BY DEF CredInv, Stored
    <3> SUFFICES ASSUME NEW s \in Slots PROVE Resident(cache.slot[s])' /\ Resident(flash.slot[s])'
      OBVIOUS
    <3>3. PICK c : c = cache.slot[s]
      OBVIOUS
    <3>4. Resident(c)'
      BY <1>4, <3>2, <3>3
    <3> QED BY <3>1, <3>3, <3>4 DEF Resident, Known
  <2>3. \A h \in hist'.handles : Known(h)' /\ h.kind = "handle"
    BY <1>3, <1>4 DEF CredInv, Stored
  <2> QED BY <1>2, <1>3, <2>1, <2>2, <2>3 DEF CredInv, Stored
<1>6. Pending(op.todo)'
  <2>1. PICK todo : todo = op.todo
    OBVIOUS
  <2>2. Pending(todo)
    BY <2>1 DEF CredInv, Running
  <2>3. Pending(todo)'
    BY <1>2, <1>3, <1>4, <2>2 DEF Pending, StoresOne
  <2> QED BY <1>2, <2>1, <2>3
<1>7. Running'
  BY <1>2, <1>3, <1>6 DEF CredInv, Running
<1>8. Asserting'
  BY <1>2, <1>3 DEF CredInv, Asserting, Allowed, Stands, Known
<1> QED BY <1>5, <1>7, <1>8 DEF CredInv

LEMMA LosesPower ==
    ASSUME CredInv, PowerLoss
    PROVE  CredInv'
<1>1. IsHist(hist)
  BY DEF CredInv, Stored
<1>2. /\ cache' = flash /\ flash' = flash /\ ram' = Booted /\ op' = Idle
      /\ hist' = [hist EXCEPT !.mishaps = @ + 1, !.issued = hist.settled]
  BY DEF PowerLoss
<1>3. /\ DOMAIN hist' = DOMAIN hist /\ hist'.ids = hist.ids /\ hist'.prot = hist.prot /\ hist'.handles = hist.handles
      /\ hist'.issued = hist.settled /\ hist'.settled = hist.settled /\ hist'.erased = hist.erased /\ hist'.twice = hist.twice
  BY <1>1, <1>2 DEF IsHist
<1>4. \A c : (Known(c)' <=> Known(c)) /\ (Resident(c)' <=> Resident(c))
  BY <1>3, SameIds
<1>5. Stored'
  <2>1. IsHist(hist')
    BY <1>1, <1>3 DEF IsHist
  <2>2. \A s \in Slots : Resident(cache.slot[s])' /\ Resident(flash.slot[s])'
    <3>1. \A s \in Slots : Resident(flash.slot[s])
      BY DEF CredInv, Stored
    <3> SUFFICES ASSUME NEW s \in Slots PROVE Resident(cache.slot[s])' /\ Resident(flash.slot[s])'
      OBVIOUS
    <3>2. PICK c : c = flash.slot[s]
      OBVIOUS
    <3>3. Resident(c)'
      BY <1>4, <3>1, <3>2
    <3> QED BY <1>2, <3>2, <3>3 DEF Resident, Known
  <2>3. \A h \in hist'.handles : Known(h)' /\ h.kind = "handle"
    BY <1>3, <1>4 DEF CredInv, Stored
  <2> QED BY <1>2, <1>3, <2>1, <2>2, <2>3 DEF CredInv, Stored
<1>6. Running' /\ op'.then = "idle"
  BY <1>2, EndsRunning, IdleFields
<1>7. Shaped(ram') /\ ram'.next = NoNext
  BY <1>2 DEF Booted, Shaped
<1>8. Asserting'
  BY <1>6, <1>7, ParsedAsserts
<1> QED BY <1>5, <1>6, <1>8 DEF CredInv

LEMMA SignsCred ==
    ASSUME CredInv, Sign
    PROVE  CredInv'
<1>1. IsHist(hist) /\ cache \in FileSets /\ Shaped(ram)
      /\ ram.next \in [left : SUBSET CredRecords, uv : BOOLEAN, list : BOOLEAN]
  BY DEF CredInv, Stored, Asserting
<1>2. PICK given : given = IF op.cred.imported THEN hist.issued ELSE hist.issued \cup {<<cache.key, cache.ctr>>}
  OBVIOUS
<1>3. PICK left : left = ram.next.left \ {op.cred}
  OBVIOUS
<1>4. /\ op.pc = "sign" /\ op' = Idle /\ UNCHANGED <<cache, flash>>
      /\ hist' = [hist EXCEPT !.issued = given, !.settled = IF flash = cache THEN given ELSE @]
      /\ ram' = IF ~op.next THEN ram ELSE [ram EXCEPT !.next = IF left = {} THEN NoNext ELSE [@ EXCEPT !.left = left]]
  BY <1>2, <1>3 DEF Sign
<1>5. /\ DOMAIN hist' = DOMAIN hist /\ hist'.ids = hist.ids /\ hist'.prot = hist.prot /\ hist'.handles = hist.handles
      /\ hist'.issued = given /\ hist'.settled = (IF flash = cache THEN given ELSE hist.settled)
      /\ hist'.erased = hist.erased /\ hist'.twice = hist.twice
  BY <1>1, <1>4 DEF IsHist
<1>6. \A c : (Known(c)' <=> Known(c)) /\ (Resident(c)' <=> Resident(c))
  BY <1>5, SameIds
<1>7. given \subseteq Nat \X Nat /\ \A x \in given : Behind(x, cache)
  <2>1. cache.key \in Nat /\ cache.ctr \in Nat
    BY <1>1 DEF FileSets
  <2>2. hist.issued \subseteq Nat \X Nat /\ \A x \in hist.issued : Behind(x, cache)
    BY DEF CredInv, Stored, IsHist
  <2>3. Behind(<<cache.key, cache.ctr>>, cache) /\ <<cache.key, cache.ctr>> \in Nat \X Nat
    BY <2>1 DEF Behind
  <2> QED BY <1>2, <2>2, <2>3
<1>8. Stored'
  <2>1. IsHist(hist')
    BY <1>1, <1>5, <1>7 DEF IsHist
  <2>2. \A s \in Slots : Resident(cache.slot[s])' /\ Resident(flash.slot[s])'
    <3>1. \A s \in Slots : Resident(cache.slot[s]) /\ Resident(flash.slot[s])
      BY DEF CredInv, Stored
    <3> SUFFICES ASSUME NEW s \in Slots PROVE Resident(cache.slot[s])' /\ Resident(flash.slot[s])'
      OBVIOUS
    <3>2. PICK c, d : c = cache.slot[s] /\ d = flash.slot[s]
      OBVIOUS
    <3>3. Resident(c)' /\ Resident(d)'
      BY <1>6, <3>1, <3>2
    <3> QED BY <1>4, <3>2, <3>3 DEF Resident, Known
  <2>3. \A h \in hist'.handles : Known(h)' /\ h.kind = "handle"
    BY <1>5, <1>6 DEF CredInv, Stored
  <2>4. /\ \A x \in hist'.issued : Behind(x, cache')
        /\ \A x \in hist'.settled : Behind(x, flash')
    BY <1>4, <1>5, <1>7 DEF CredInv, Stored
  <2> QED BY <1>4, <1>5, <2>1, <2>2, <2>3, <2>4 DEF CredInv, Stored
<1>9. Running' /\ op'.then = "idle" /\ op'.todo = <<>>
  BY <1>4, EndsRunning, IdleFields
<1>10. \A c, uv, list : Allowed(c, uv, list) => Allowed(c, uv, list)'
  BY <1>4, <1>5, <1>6 DEF Allowed, Stands
<1>11. Asserting'
  <2>1. CASE ram' = ram
    <3>1. PICK uv, list : uv = ram.next.uv /\ list = ram.next.list
      OBVIOUS
    <3>2. \A c \in ram.next.left : Allowed(c, uv, list)'
      BY <1>10, <3>1 DEF CredInv, Asserting
    <3> QED BY <1>1, <1>9, <2>1, <3>1, <3>2 DEF Asserting
  <2>2. CASE ram' = [ram EXCEPT !.next = NoNext]
    <3>1. Shaped(ram') /\ ram'.next = NoNext
      BY <1>1, <2>2, RamParts
    <3> QED BY <1>9, <3>1, ParsedAsserts
  <2>3. CASE ram' = [ram EXCEPT !.next = [@ EXCEPT !.left = left]]
    <3>1. PICK n : n = [ram.next EXCEPT !.left = left]
      OBVIOUS
    <3>2. Shaped(ram') /\ ram'.next = n
      BY <1>1, <2>3, <3>1, RamParts
    <3>3. PICK uv, list : uv = ram.next.uv /\ list = ram.next.list
      OBVIOUS
    <3>4. /\ n \in [left : SUBSET CredRecords, uv : BOOLEAN, list : BOOLEAN]
          /\ n.left \subseteq ram.next.left /\ n.uv = uv /\ n.list = list
      BY <1>1, <1>3, <3>1, <3>3
    <3>5. \A c \in n.left : Allowed(c, uv, list)'
      BY <1>10, <3>3, <3>4 DEF CredInv, Asserting
    <3> QED BY <1>9, <3>2, <3>4, <3>5 DEF Asserting
  <2> QED BY <1>4, <2>1, <2>2, <2>3
<1> QED BY <1>8, <1>9, <1>11 DEF CredInv

-----------------------------------------------------------------------------
(* Writes *)

\* What a write does to the files.
Writing(w) ==
    /\ cache' \in FileSets
    /\ \A s \in Slots : cache'.slot[s] = IF w.f = "slot" /\ s = w.at THEN w.v ELSE cache.slot[s]
    /\ cache'.ctr = IF w.f = "ctr" THEN w.v ELSE cache.ctr
    /\ cache'.key = IF w.f = "key" THEN w.v ELSE cache.key

LEMMA SlotOf ==
    ASSUME NEW slot, NEW rp, NEW ctr, NEW key, NEW at, NEW v
    PROVE  [[slot |-> slot, rp |-> rp, ctr |-> ctr, key |-> key] EXCEPT !["slot"][at] = v]
              = [slot |-> [slot EXCEPT ![at] = v], rp |-> rp, ctr |-> ctr, key |-> key]
OBVIOUS

LEMMA CountOf ==
    ASSUME NEW slot, NEW rp, NEW ctr, NEW key, NEW at, NEW v
    PROVE  [[slot |-> slot, rp |-> rp, ctr |-> ctr, key |-> key] EXCEPT !["rp"][at] = v]
              = [slot |-> slot, rp |-> [rp EXCEPT ![at] = v], ctr |-> ctr, key |-> key]
OBVIOUS

LEMMA AppliedIs ==
    ASSUME cache \in FileSets, NEW w \in Writes, cache' = Applied(cache, w)
    PROVE  Writing(w)
<1>1. None \notin Slots /\ None \notin Rps
  BY ConstantTypes
<1>2. PICK slot, rp, ctr, key : cache = [slot |-> slot, rp |-> rp, ctr |-> ctr, key |-> key]
                                /\ slot \in [Slots -> CredRecords] /\ rp \in [Rps -> Nat] /\ ctr \in Nat /\ key \in Nat
  BY DEF FileSets
<1>3. CASE w \in SlotWrites
  <2>1. w.f = "slot" /\ w.at \in Slots /\ w.at # None /\ w.v \in CredRecords
    BY <1>1, <1>3 DEF SlotWrites
  <2>2. cache' = [slot |-> [slot EXCEPT ![w.at] = w.v], rp |-> rp, ctr |-> ctr, key |-> key]
    <3>1. PICK c, at, v : c = cache /\ at = w.at /\ v = w.v
      OBVIOUS
    <3>2. cache' = [c EXCEPT !["slot"][at] = v]
      BY <2>1, <3>1 DEF Applied
    <3> QED BY <1>2, <3>1, <3>2, SlotOf
  <2> QED BY <1>2, <2>1, <2>2 DEF Writing, FileSets
<1>4. CASE w \in RpWrites
  <2>1. w.f = "rp"
    BY <1>4 DEF RpWrites
  <2>2. CASE w.at = None
    <3>1. w.v \in [Rps -> Nat]
      BY <1>1, <1>4, <2>2 DEF RpWrites
    <3>2. cache' = [slot |-> slot, rp |-> w.v, ctr |-> ctr, key |-> key]
      BY <1>2, <2>1, <2>2 DEF Applied
    <3> QED BY <1>2, <2>1, <3>1, <3>2 DEF Writing, FileSets
  <2>3. CASE w.at # None
    <3>1. w.v \in Nat /\ w.at \in Rps
      BY <1>4, <2>3 DEF RpWrites
    <3>2. cache' = [slot |-> slot, rp |-> [rp EXCEPT ![w.at] = w.v], ctr |-> ctr, key |-> key]
      <4>1. PICK c, at, v : c = cache /\ at = w.at /\ v = w.v
        OBVIOUS
      <4>2. cache' = [c EXCEPT !["rp"][at] = v]
        BY <2>1, <2>3, <4>1 DEF Applied
      <4> QED BY <1>2, <4>1, <4>2, CountOf
    <3> QED BY <1>2, <2>1, <3>1, <3>2 DEF Writing, FileSets
  <2> QED BY <2>2, <2>3
<1>5. CASE w \in NumberWrites
  <2>1. w.f \in {"ctr", "key"} /\ w.at = None /\ w.v \in Nat
    BY <1>5 DEF NumberWrites
  <2>2. CASE w.f = "ctr"
    <3>1. cache' = [slot |-> slot, rp |-> rp, ctr |-> w.v, key |-> key]
      BY <1>2, <2>1, <2>2 DEF Applied
    <3> QED BY <1>2, <2>1, <2>2, <3>1 DEF Writing, FileSets
  <2>3. CASE w.f = "key"
    <3>1. cache' = [slot |-> slot, rp |-> rp, ctr |-> ctr, key |-> w.v]
      BY <1>2, <2>1, <2>3 DEF Applied
    <3> QED BY <1>2, <2>1, <2>3, <3>1 DEF Writing, FileSets
  <2> QED BY <2>1, <2>2, <2>3
<1> QED BY <1>3, <1>4, <1>5 DEF Writes

\* The files after a write still have one live credential per user, and the counter is not behind.
LEMMA WriteStores ==
    ASSUME Stored, NEW todo, Pending(todo), 1 \in 1..Len(todo), NEW w, w = todo[1], w \in Writes, Writing(w),
           UNCHANGED <<flash, hist>>
    PROVE  Stored'
<1>1. \A c : (Known(c)' <=> Known(c)) /\ (Resident(c)' <=> Resident(c))
  BY SameIds
<1>2. w.f = "slot" => StoresOne(w)
  BY DEF Pending
<1>3. \A s \in Slots : Resident(cache.slot[s])' /\ Resident(flash.slot[s])'
  <2> SUFFICES ASSUME NEW s \in Slots PROVE Resident(cache.slot[s])' /\ Resident(flash.slot[s])'
    OBVIOUS
  <2>1. PICK c, d : c = cache'.slot[s] /\ d = flash.slot[s]
    OBVIOUS
  <2>2. Resident(c) /\ Resident(d)
    BY <1>2, <2>1 DEF Stored, StoresOne, Writing
  <2>3. Resident(c)' /\ Resident(d)'
    BY <1>1, <2>2
  <2> QED BY <2>1, <2>3 DEF Resident, Known
<1>4. \A h \in hist'.handles : Known(h)' /\ h.kind = "handle"
  BY <1>1 DEF Stored
<1>5. \A x \in hist'.issued : Behind(x, cache')
  <2> SUFFICES ASSUME NEW x \in hist.issued PROVE Behind(x, cache')
    OBVIOUS
  <2>1. x[1] \in Nat /\ x[2] \in Nat /\ cache.key \in Nat /\ cache.ctr \in Nat
    BY DEF Stored, IsHist, FileSets
  <2>2. Behind(x, cache)
    BY DEF Stored
  <2>3. w.f = "key" => w.v = cache.key + 1
    BY DEF Pending
  <2>4. w.f = "ctr" => w.v = cache.ctr + 1 \/ x[1] < cache.key
    BY DEF Pending
  <2>5. CASE w.f = "key"
    BY <2>1, <2>2, <2>3, <2>5 DEF Behind, Writing
  <2>6. CASE w.f = "ctr"
    BY <2>1, <2>2, <2>4, <2>6 DEF Behind, Writing
  <2>7. CASE w.f # "key" /\ w.f # "ctr"
    BY <2>2, <2>7 DEF Behind, Writing
  <2> QED BY <2>5, <2>6, <2>7
<1>6. ASSUME ~hist.twice, NEW s \in Slots, NEW t \in Slots, s # t PROVE ~Same(cache'.slot[s], cache'.slot[t])
  <2>1. ~Same(cache.slot[s], cache.slot[t]) /\ ~Same(cache.slot[t], cache.slot[s])
    BY <1>6 DEF Stored
  <2>2. w.f = "slot" => \A u \in Slots : u # w.at => ~Same(w.v, cache.slot[u]) /\ ~Same(cache.slot[u], w.v)
    BY <1>2, <1>6 DEF StoresOne, Same
  <2> QED BY <1>6, <2>1, <2>2 DEF Writing
<1> QED BY <1>3, <1>4, <1>5, <1>6 DEF Stored, Writing

\* What is left to write is as well prepared as before.
LEMMA WritePends ==
    ASSUME Stored, NEW todo \in Seq(Writes), Pending(todo), 1 \in 1..Len(todo), NEW w, w = todo[1], w \in Writes, Writing(w),
           UNCHANGED hist
    PROVE  Pending(Tail(todo))'
<1>1. PICK rest : rest = Tail(todo)
  OBVIOUS
<1>2. /\ rest \in Seq(Writes) /\ Len(todo) \in Nat /\ Len(rest) = Len(todo) - 1
      /\ \A i \in 1..Len(rest) : rest[i] = todo[i + 1] /\ i + 1 \in 1..Len(todo) /\ i + 1 # 1 /\ i \in Nat
  BY <1>1
<1>3. \A c : (Known(c)' <=> Known(c)) /\ (Resident(c)' <=> Resident(c))
  BY SameIds
<1>4. ASSUME NEW i \in 1..Len(rest), rest[i].f = "slot" PROVE StoresOne(rest[i])'
  <2>1. PICK x : x = rest[i]
    OBVIOUS
  <2>2. StoresOne(x) /\ (w.f = "slot" => x.v = NoCred /\ w.v = NoCred)
    BY <1>2, <1>4, <2>1 DEF Pending
  <2>3. Resident(x.v)'
    <3>1. PICK c : c = x.v
      OBVIOUS
    <3>2. Resident(c)'
      BY <1>3, <2>2, <3>1 DEF StoresOne
    <3> QED BY <3>1, <3>2
  <2>4. ASSUME ~hist.twice, NEW t \in Slots, t # x.at PROVE ~Same(x.v, cache'.slot[t])
    <3>1. ~Same(x.v, cache.slot[t])
      BY <2>2, <2>4 DEF StoresOne
    <3>2. w.f = "slot" => ~Same(x.v, w.v)
      BY <2>2, NoCredTyped DEF Same
    <3> QED BY <3>1, <3>2 DEF Writing
  <2>5. StoresOne(x)'
    BY <2>3, <2>4 DEF StoresOne
  <2> QED BY <2>1, <2>5
<1>5. \A i, j \in 1..Len(rest) : i # j /\ rest[i].f = "slot" /\ rest[j].f = "slot" => rest[i].v = NoCred
  <2> SUFFICES ASSUME NEW i \in 1..Len(rest), NEW j \in 1..Len(rest), i # j, rest[i].f = "slot", rest[j].f = "slot"
               PROVE  rest[i].v = NoCred
    OBVIOUS
  <2>1. PICK k, m \in 1..Len(todo) : k = i + 1 /\ m = j + 1 /\ k # m /\ rest[i] = todo[k] /\ rest[j] = todo[m]
    BY <1>2
  <2> QED BY <2>1 DEF Pending
<1>6. \A i, j \in 1..Len(rest) : rest[i].f = "key" /\ j < i => rest[j].f \in {"slot", "rp"}
  <2> SUFFICES ASSUME NEW i \in 1..Len(rest), NEW j \in 1..Len(rest), rest[i].f = "key", j < i
               PROVE  rest[j].f \in {"slot", "rp"}
    OBVIOUS
  <2>1. PICK k, m \in 1..Len(todo) : k = i + 1 /\ m = j + 1 /\ m < k /\ rest[i] = todo[k] /\ rest[j] = todo[m]
    BY <1>2
  <2> QED BY <2>1 DEF Pending
<1>7. ASSUME NEW i \in 1..Len(rest), rest[i].f = "key" PROVE rest[i].v = cache'.key + 1
  <2>1. 1 < i + 1
    BY <1>2
  <2>2. w.f \in {"slot", "rp"}
    BY <1>2, <1>7, <2>1 DEF Pending
  <2>3. cache'.key = cache.key
    BY <2>2 DEF Writing
  <2>4. PICK k \in 1..Len(todo) : k = i + 1 /\ rest[i] = todo[k]
    BY <1>2
  <2>5. todo[k].v = cache.key + 1
    BY <1>7, <2>4 DEF Pending
  <2> QED BY <2>3, <2>4, <2>5
<1>8. ASSUME NEW i \in 1..Len(rest), rest[i].f = "ctr"
      PROVE  (i > 1 /\ rest[i - 1].f = "key") \/ \A x \in hist'.issued : x[1] < cache'.key
  <2>1. (i + 1) - 1 = i /\ i + 1 # 1
    BY <1>2
  <2>2. todo[i].f = "key" \/ \A x \in hist.issued : x[1] < cache.key
    BY <1>2, <1>8, <2>1 DEF Pending
  <2>3. cache.key \in Nat /\ \A x \in hist.issued : x[1] \in Nat /\ (x[1] < cache.key \/ x[1] = cache.key)
    BY DEF Stored, IsHist, FileSets, Behind
  <2>4. cache'.key = cache.key \/ cache'.key = cache.key + 1
    BY DEF Writing, Pending
  <2>5. CASE \A x \in hist.issued : x[1] < cache.key
    BY <2>3, <2>4, <2>5
  <2>6. CASE todo[i].f = "key" /\ i = 1
    <3>1. cache'.key = cache.key + 1
      BY <2>6 DEF Writing, Pending
    <3> QED BY <2>3, <3>1
  <2>7. CASE todo[i].f = "key" /\ i # 1
    <3>1. i > 1 /\ i - 1 \in 1..Len(rest) /\ (i - 1) + 1 = i
      BY <1>2, <2>7
    <3>2. rest[i - 1] = todo[i]
      <4>1. PICK k \in 1..Len(rest) : k = i - 1 /\ k + 1 = i
        BY <3>1
      <4>2. rest[k] = todo[k + 1]
        BY <1>2
      <4> QED BY <4>1, <4>2
    <3> QED BY <2>7, <3>1, <3>2
  <2> QED BY <2>2, <2>5, <2>6, <2>7
<1>9. Pending(rest)'
  BY <1>4, <1>5, <1>6, <1>7, <1>8 DEF Pending
<1> QED BY <1>1, <1>9

\* The state a write starts from
LEMMA WriteIs ==
    ASSUME CredInv, Write
    PROVE  /\ op.todo \in Seq(Writes) /\ 1 \in 1..Len(op.todo) /\ Len(op.todo) \in Nat
           /\ op.todo[1] \in Writes /\ Writing(op.todo[1]) /\ Pending(op.todo)
           /\ UNCHANGED <<flash, ram, hist>>
<1>1. op.todo \in Seq(Writes) /\ op.todo # <<>> /\ Pending(op.todo) /\ cache \in FileSets
  BY DEF CredInv, Stored, Running, Handlers, Write
<1>2. Len(op.todo) \in Nat /\ Len(op.todo) >= 1
  BY <1>1
<1>3. op.todo[1] \in Writes /\ Head(op.todo) = op.todo[1]
  BY <1>1, <1>2
<1>4. cache' = Applied(cache, op.todo[1]) /\ UNCHANGED <<flash, ram, hist>>
  BY <1>3 DEF Write
<1>5. Writing(op.todo[1])
  BY <1>1, <1>3, <1>4, AppliedIs
<1> QED BY <1>1, <1>2, <1>3, <1>4, <1>5

LEMMA WriteRuns ==
    ASSUME CredInv, Write
    PROVE  /\ Running'
           /\ \/ op'.then = "idle"
              \/ op.then = "sign" /\ op'.then = "sign" /\ op.todo[1].f = "ctr" /\ op'.cred = op.cred /\ op'.uv = op.uv /\ op'.list = op.list
           /\ op'.todo = <<>> \/ Len(op.todo) > 1
<1>1. PICK todo, w : todo = op.todo /\ w = todo[1]
  OBVIOUS
<1>2. /\ todo \in Seq(Writes) /\ 1 \in 1..Len(todo) /\ Len(todo) \in Nat
      /\ w \in Writes /\ Writing(w) /\ Pending(todo) /\ UNCHANGED hist
  BY <1>1, WriteIs
<1>3. op \in Handlers /\ op.pc = "write" /\ op.then \in {"idle", "sign"}
  BY DEF CredInv, Running, Handlers, Write
<1>4. CASE Len(todo) > 1
  <2>1. op' = [op EXCEPT !.todo = Tail(todo)]
    BY <1>1, <1>4 DEF Write
  <2>2. op.then = "idle"
    <3>1. PICK x : x = Put("ctr", None, cache.ctr + 1)
      OBVIOUS
    <3>2. op.then = "sign" => todo = <<x>>
      BY <1>1, <1>3, <3>1 DEF CredInv, Running
    <3>3. op.then = "sign" => Len(todo) = 1
      BY <3>2
    <3>4. PICK n \in Nat : n = Len(todo)
      BY <1>2
    <3>5. n > 1
      BY <1>4, <3>4
    <3>6. n # 1
      BY <3>5
    <3> QED BY <1>3, <3>3, <3>4, <3>6
  <2>3. PICK rest : rest = Tail(todo)
    OBVIOUS
  <2>4. rest \in Seq(Writes) /\ rest # <<>>
    BY <1>2, <1>4, <2>3
  <2>5. op' \in Handlers /\ op'.todo = rest /\ op'.pc = "write" /\ op'.then = "idle"
    BY <1>3, <2>1, <2>2, <2>3, <2>4 DEF Handlers
  <2>6. Pending(rest)'
    <3>1. Pending(Tail(todo))'
      BY <1>1, <1>2, WritePends DEF CredInv
    <3> QED BY <2>3, <3>1
  <2>7. Running'
    BY <2>4, <2>5, <2>6 DEF Running
  <2> QED BY <1>1, <1>4, <2>5, <2>7
<1>5. CASE ~(Len(todo) > 1) /\ op.then = "idle"
  <2>1. op' = Idle
    BY <1>1, <1>5 DEF Write
  <2> QED BY <2>1, EndsRunning, IdleFields
<1>6. CASE ~(Len(todo) > 1) /\ op.then = "sign"
  <2>1. op' = [op EXCEPT !.todo = <<>>, !.pc = "sign"]
    BY <1>1, <1>6 DEF Write
  <2>2. todo = <<Put("ctr", None, cache.ctr + 1)>>
    BY <1>1, <1>3, <1>6 DEF CredInv, Running
  <2>3. w.f = "ctr" /\ w.v = cache.ctr + 1
    BY <1>1, <2>2 DEF Put
  <2>4. /\ op' \in Handlers /\ op'.todo = <<>> /\ op'.pc = "sign" /\ op'.then = "sign"
        /\ op'.cred = op.cred /\ op'.uv = op.uv /\ op'.list = op.list
    <3>1. <<>> \in Seq(Writes) /\ "sign" \in {"idle", "write", "sign"}
      OBVIOUS
    <3>2. op' \in Handlers
      BY <1>3, <2>1, <3>1 DEF Handlers
    <3>3. op'.todo = <<>> /\ op'.pc = "sign"
      BY <1>3, <2>1 DEF Handlers
    <3>4. op'.then = op.then /\ op'.cred = op.cred /\ op'.uv = op.uv /\ op'.list = op.list
      BY <1>3, <2>1 DEF Handlers
    <3> QED BY <1>6, <3>2, <3>3, <3>4
  <2>5. \A x \in hist'.issued : x[1] < cache'.key \/ (x[1] = cache'.key /\ x[2] < cache'.ctr)
    <3>1. cache'.ctr = cache.ctr + 1 /\ cache'.key = cache.key
      BY <1>2, <2>3 DEF Writing
    <3>2. \A x \in hist.issued : Behind(x, cache) /\ x[2] \in Nat
      BY DEF CredInv, Stored, IsHist
    <3>3. cache.ctr \in Nat
      BY DEF CredInv, Stored, FileSets
    <3> QED BY <1>2, <3>1, <3>2, <3>3 DEF Behind
  <2>6. Pending(<<>>)'
    BY DEF Pending
  <2>7. Running'
    BY <2>4, <2>5, <2>6 DEF Running
  <2> QED BY <1>1, <1>6, <2>3, <2>4, <2>7
<1> QED BY <1>3, <1>4, <1>5, <1>6

LEMMA WriteAllows ==
    ASSUME CredInv, Write, NEW c, NEW uv, NEW list, Allowed(c, uv, list),
           op.todo[1].f = "slot" => ram.next.left # {}
    PROVE  Allowed(c, uv, list)'
<1>1. PICK w : w = op.todo[1]
  OBVIOUS
<1>2. Writing(w) /\ UNCHANGED <<ram, hist>> /\ 1 \in 1..Len(op.todo)
  BY <1>1, WriteIs
<1>3. Known(c)' /\ c.kind # "none" /\ Shown(c, uv, list)
  BY <1>2, SameIds DEF Allowed
<1>4. ASSUME c.kind # "handle", ~hist.erased PROVE Stands(c)'
  <2>1. PICK s \in Slots : cache.slot[s].id = c.id /\ cache.slot[s].st # "revoked"
    BY <1>4 DEF Allowed, Stands
  <2>2. c.id # 0
    BY DEF Allowed, Known
  <2>3. w.f = "slot" => cache.slot[w.at] = NoCred
    BY <1>1, <1>2, <1>4 DEF CredInv, Asserting
  <2>4. w.f = "slot" => s # w.at
    BY <2>1, <2>2, <2>3, NoCredTyped
  <2>5. cache'.slot[s] = cache.slot[s]
    BY <1>2, <2>4 DEF Writing
  <2> QED BY <2>1, <2>5 DEF Stands
<1> QED BY <1>2, <1>3, <1>4 DEF Allowed

LEMMA WritesCred ==
    ASSUME CredInv, Write
    PROVE  CredInv'
<1>1. /\ op.todo \in Seq(Writes) /\ 1 \in 1..Len(op.todo) /\ Len(op.todo) \in Nat
      /\ op.todo[1] \in Writes /\ Writing(op.todo[1]) /\ Pending(op.todo)
      /\ UNCHANGED <<flash, ram, hist>>
  BY WriteIs
<1>2. Stored'
  <2>1. PICK todo, w : todo = op.todo /\ w = todo[1]
    OBVIOUS
  <2> QED BY <1>1, <2>1, WriteStores DEF CredInv
<1>3. /\ Running'
      /\ \/ op'.then = "idle"
         \/ op.then = "sign" /\ op'.then = "sign" /\ op.todo[1].f = "ctr" /\ op'.cred = op.cred /\ op'.uv = op.uv /\ op'.list = op.list
      /\ op'.todo = <<>> \/ Len(op.todo) > 1
  BY WriteRuns
<1>4. Asserting'
  <2>1. PICK left, uv, list : left = ram.next.left /\ uv = ram.next.uv /\ list = ram.next.list
    OBVIOUS
  <2>2. \A c \in left : Allowed(c, uv, list)'
    <3>1. \A c \in left : Allowed(c, uv, list)
      BY <2>1 DEF CredInv, Asserting
    <3> QED BY <2>1, <3>1, WriteAllows
  <2>3. op'.then = "sign" => Allowed(op.cred, op.uv, op.list)'
    <3> SUFFICES ASSUME op'.then = "sign" PROVE Allowed(op.cred, op.uv, op.list)'
      OBVIOUS
    <3>1. PICK c, u, l : c = op.cred /\ u = op.uv /\ l = op.list
      OBVIOUS
    <3>2. Allowed(c, u, l) /\ op.todo[1].f = "ctr"
      BY <1>3, <3>1 DEF CredInv, Asserting
    <3>3. Allowed(c, u, l)'
      BY <3>2, WriteAllows
    <3> QED BY <1>3, <3>1, <3>3
  <2>4. ASSUME ram.next.left # {}, ~hist.erased, NEW i \in 1..Len(op'.todo), op'.todo[i].f = "slot" PROVE FALSE
    <3>1. Len(op.todo) > 1 /\ op'.todo = Tail(op.todo)
      <4>1. Len(op.todo) > 1
        BY <1>3, <2>4
      <4> QED BY <4>1 DEF Write, CredInv, Running, Handlers
    <3>2. PICK k \in 1..Len(op.todo) : op'.todo[i] = op.todo[k]
      <4>1. PICK todo, rest : todo = op.todo /\ rest = Tail(todo)
        OBVIOUS
      <4>2. Len(todo) \in Nat /\ i \in 1..(Len(todo) - 1) /\ rest[i] = todo[i + 1] /\ i + 1 \in 1..Len(todo)
        BY <1>1, <3>1, <4>1
      <4> QED BY <3>1, <4>1, <4>2
    <3> QED BY <2>4, <3>1, <3>2 DEF CredInv, Asserting
  <2>5. Shaped(ram) /\ ram.next \in [left : SUBSET CredRecords, uv : BOOLEAN, list : BOOLEAN]
    BY DEF CredInv, Asserting
  <2> QED BY <1>1, <2>1, <2>2, <2>3, <2>4, <2>5 DEF Asserting
<1> QED BY <1>2, <1>3, <1>4 DEF CredInv

-----------------------------------------------------------------------------
(* The theorems *)

LEMMA CredNext == CredInv /\ [Next]_vars => CredInv'
<1> SUFFICES ASSUME CredInv, [Next]_vars PROVE CredInv'
  OBVIOUS
<1>1. CASE UNCHANGED vars
  BY <1>1 DEF vars, CredInv, Stored, Running, Asserting, Known, Resident, Pending, StoresOne, Allowed, Stands
<1>2. CASE Write
  BY <1>2, WritesCred
<1>3. CASE Fault
  BY <1>3, Faults
<1>4. CASE Drain
  BY <1>4, Drains
<1>5. CASE PowerLoss
  BY <1>5, LosesPower
<1>6. CASE Sign
  BY <1>6, SignsCred
<1>7. CASE Expires \/ Tick \/ GetNextRefused \/ BeginRps \/ NextRp \/ NextCred
  BY <1>7, QuietCred
<1>8. ASSUME NEW rp \in Sites, NEW user \in Persons, Import(rp, user) PROVE CredInv'
  BY <1>8, Imports
<1>9. ASSUME NEW rp \in Sites, NEW user \in Persons, NEW prot \in Asked, NEW uv \in BOOLEAN, NEW excl \in {0} \cup Ids,
             MakeCredential(rp, user, prot, uv, excl)
      PROVE  CredInv'
  BY <1>9, MakesCred
<1>10. ASSUME NEW rp \in Sites, NEW prot \in Asked, NEW u2f \in BOOLEAN, MakeHandle(rp, prot, u2f) PROVE CredInv'
  BY <1>10, MakesHandle
<1>11. ASSUME NEW rp \in Sites, NEW id \in Ids, Probe(rp, id) PROVE CredInv'
  BY <1>11, Probes
<1>12. CASE GetNextAssertion
  BY <1>12, AssertsNext
<1>13. ASSUME NEW rp \in Sites, BeginCreds(rp) PROVE CredInv'
  BY <1>13, QuietCred
<1>14. ASSUME NEW rp \in Sites, NEW uv \in BOOLEAN, NEW list \in Lists, GetAssertion(rp, uv, list) PROVE CredInv'
  BY <1>14, Asserts
<1>15. ASSUME NEW rp \in Sites, NEW h \in Handles(rp), U2fAuthenticate(h) PROVE CredInv'
  <2>1. h \in hist.handles
    BY DEF Handles
  <2> QED BY <1>15, <2>1, AssertsU2f
<1>16. ASSUME NEW s \in Slots, DeleteCredential(s) \/ UpdateUser(s) \/ Revoke(s) PROVE CredInv'
  <2>1. TRUE \in BOOLEAN
    OBVIOUS
  <2> QED BY <1>16, <2>1, ManageCred
<1>17. ASSUME NEW s \in Slots, NEW on \in BOOLEAN, Expire(s, on) \/ RequireButton(s, on) PROVE CredInv'
  BY <1>17, ManageCred
<1>18. ASSUME NEW b \in BOOLEAN, SetClock(b) PROVE CredInv'
  BY <1>18, QuietCred
<1>19. ASSUME NEW b \in BOOLEAN, Reset(b) PROVE CredInv'
  BY <1>19, Resets
<1> QED BY <1>1, <1>2, <1>3, <1>4, <1>5, <1>6, <1>7, <1>8, <1>9, <1>10, <1>11, <1>12, <1>13, <1>14, <1>15, <1>16,
           <1>17, <1>18, <1>19 DEF Next

\* The files, the handler in progress and the copies of getNextAssertion stay consistent, over every
\* order of commands, failed writes and power losses (credential.c, cbor_make_credential.c,
\* cbor_get_assertion.c, cbor_cred_mgmt.c).
THEOREM CredInvariant == Spec => []CredInv
<1>1. Init => CredInv
  BY CredInit
<1>2. CredInv /\ [Next]_vars => CredInv'
  BY CredNext
<1> QED BY <1>1, <1>2, PTL DEF Spec

\* At most one usable resident credential per relying party and user (credential_store).
THEOREM OnePerUser == Spec => []OneCredPerUser
<1>1. CredInv => OneCredPerUser
  <2> SUFFICES ASSUME CredInv, ~hist.twice, NEW s \in Slots, Usable(cache.slot[s])
               PROVE  Matching(cache.slot[s].rp, cache.slot[s].user) = {s}
    BY DEF OneCredPerUser
  <2>1. \A t \in Slots : Usable(cache.slot[t]) => Live(cache.slot[t])
    <3> SUFFICES ASSUME NEW t \in Slots, Usable(cache.slot[t]) PROVE Live(cache.slot[t])
      OBVIOUS
    <3>1. Resident(cache.slot[t]) /\ cache.slot[t].kind # "none"
      BY DEF CredInv, Stored, Usable
    <3>2. cache.slot[t].kind \in {"file", "container"}
      BY <3>1, NoCredTyped DEF Resident
    <3> QED BY <3>2 DEF Usable, Live
  <2>2. \A t \in Slots : s # t => ~Same(cache.slot[s], cache.slot[t])
    BY DEF CredInv, Stored
  <2> QED BY <2>1, <2>2 DEF Matching, OfRp, Same
<1> QED BY <1>1, CredInvariant, PTL

\* No two signatures under one device key carry the same counter (bump_sign_counter, cbor_reset).
THEOREM CounterIsFresh == Spec => []SignCountFresh
<1>1. CredInv => SignCountFresh
  <2> SUFFICES ASSUME CredInv, op.pc = "sign", ~op.cred.imported, <<cache.key, cache.ctr>> \in hist.issued
               PROVE  FALSE
    BY DEF SignCountFresh
  <2>1. cache.key \in Nat /\ cache.ctr \in Nat
    BY DEF CredInv, Stored, FileSets
  <2>2. PICK x \in hist.issued : x = <<cache.key, cache.ctr>>
    OBVIOUS
  <2>3. x[1] < cache.key \/ (x[1] = cache.key /\ x[2] < cache.ctr)
    BY DEF CredInv, Running
  <2>4. x[1] = cache.key /\ x[2] = cache.ctr
    BY <2>2
  <2> QED BY <2>1, <2>3, <2>4
<1> QED BY <1>1, CredInvariant, PTL

\* An assertion keeps to the protection level of its credential, and the credential is stored and
\* not revoked, also when it is one of the copies of getNextAssertion (cbor_get_assertion).
THEOREM AssertionsAreAllowed == Spec => []AssertionsAllowed
<1>1. CredInv => AssertionsAllowed
  <2> SUFFICES ASSUME CredInv, op.pc = "sign"
               PROVE  /\ hist.prot[op.cred.id] = 3 => op.uv
                      /\ hist.prot[op.cred.id] = 2 => op.uv \/ op.list
                      /\ ~hist.erased /\ op.cred.kind # "handle" => Stands(op.cred)
    BY DEF AssertionsAllowed, ProtectKept, NotAfterRemoval, NotAfterReset, Stands
  <2>1. op.then = "sign"
    BY DEF CredInv, Running
  <2>2. Allowed(op.cred, op.uv, op.list)
    BY <2>1 DEF CredInv, Asserting
  <2>3. hist.prot[op.cred.id] = op.cred.prot
    BY <2>2 DEF Allowed, Known
  <2> QED BY <2>2, <2>3 DEF Allowed, Shown
<1> QED BY <1>1, CredInvariant, PTL
===============================================================================
