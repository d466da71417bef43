------------------------------ MODULE HsmProofs ------------------------------
(***************************************************************************)
(* Proofs for the parts of MCHsm, for every value of their constants:      *)
(* access is earned, some reference opens the master key and a domain's    *)
(* key is that of its shares (HsmSession); counters and purposes follow a  *)
(* key wherever it goes (HsmKeys).                                         *)
(***************************************************************************)
EXTENDS MCHsm, Integers, Sequences, FiniteSets, SequenceTheorems, TLAPS

-----------------------------------------------------------------------------
(* HsmSession: types *)

Copies == [pin : Pins \cup {None}, kdf : {"old", "new"}, legacy : BOOLEAN, key : Nat, masked : BOOLEAN]
Domains == [kind : {"none", "raw", "wrapped"}, xor : SUBSET Shares, ok : BOOLEAN]
Files == [pin : [S!Refs -> [v : Pins, old : BOOLEAN]], mkek : [S!Refs -> Copies], tries : [S!Refs -> Nat],
          need : Nat, have : Nat, dkek : Domains, pka : BOOLEAN, combined : BOOLEAN, puks : [Puks -> Nat],
          locked : BOOLEAN, key : Nat, given : SUBSET Shares]
MaySession == S!Sessions \cup {None}
Ram == [user : BOOLEAN, ses : [S!Refs -> MaySession], mask : BOOLEAN, chal : Nat,
        status : SUBSET Puks, aut : Puks \cup {None}, pending : BOOLEAN]

\* A write of one file, or of one file of each reference
Writes ==
    [f : {"pin"}, at : S!Refs, v : [v : Pins, old : BOOLEAN], must : BOOLEAN]
    \cup [f : {"mkek"}, at : S!Refs, v : Copies, must : BOOLEAN]
    \cup [f : {"mkek"}, at : {None}, v : [S!Refs -> Copies], must : BOOLEAN]
    \cup [f : {"tries"}, at : S!Refs, v : Nat, must : BOOLEAN]
    \cup [f : {"tries"}, at : {None}, v : [S!Refs -> Nat], must : BOOLEAN]
    \cup [f : {"puks"}, at : Puks, v : Nat, must : BOOLEAN]
    \cup [f : {"need", "have"}, at : {None}, v : Nat, must : BOOLEAN]
    \cup [f : {"dkek"}, at : {None}, v : Domains, must : BOOLEAN]
    \cup [f : {"locked"}, at : {None}, v : BOOLEAN, must : BOOLEAN]

Pcs == {"idle", "write", "checked", "granted", "change", "unblock", "initialized", "kcv"}
Cmds == {"check", "upgrade", "pending", "change", "unblock", "initialize", "puk", "import", "lock", None}
Ops == [pc : Pcs, cmd : Cmds, todo : Seq(Writes), then : Pcs \ {"write"}, ref : S!Refs,
        new : Pins \cup {None}, next : {"idle", "change", "unblock"}, share : SUBSET Shares, key : Nat]
Histories == [host : {"pins", "quorum", "domain"}, keys : Nat, nonces : Nat, mishaps : Nat, cmds : Nat,
              answered : SUBSET Puks, part : SUBSET Cmds, torn : SUBSET (Cmds \cup {"pending"})]

\* There are writes left exactly while a handler writes; a change has a new value.
Shaped(o) ==
    /\ o.pc = "write" <=> o.todo # <<>>
    /\ "change" \in {o.pc, o.then, o.next} => o.new # None

SessionTypes ==
    /\ cache \in Files /\ flash \in Files
    /\ ram \in Ram /\ op \in Ops /\ hist \in Histories
    /\ Shaped(op)

\* What the constants are
LEMMA SessionNumbers ==
    /\ None \notin S!Refs \cup Puks \cup Pins \cup S!Sessions \cup {"import", "initialize", "pending"}
    /\ Quorum \in Nat /\ MaxTries \in Nat /\ Dkeks \in Nat /\ 0 < Dkeks /\ Dkeks < 255
    /\ Pins # {} /\ S!Unset = 255
BY SessionConstants DEF S!ConstantTypes, S!Unset

\* What is left of a command's writes
LEMMA RestOf ==
    ASSUME NEW E, NEW q \in Seq(E), q # <<>>
    PROVE  /\ Tail(q) \in Seq(E) /\ Len(q) \in Nat \ {0} /\ Len(Tail(q)) = Len(q) - 1
           /\ \A i \in 1 .. Len(q) - 1 : Tail(q)[i] = q[i + 1]
           /\ Head(q) = q[1] /\ Head(q) \in E
           /\ Len(q) > 1 <=> Tail(q) # <<>>
<1>1. /\ Tail(q) \in Seq(E) /\ Len(q) \in Nat \ {0} /\ Len(Tail(q)) = Len(q) - 1
      /\ \A i \in 1 .. Len(q) - 1 : Tail(q)[i] = q[i + 1]
      /\ Head(q) = q[1] /\ Head(q) \in E
  OBVIOUS
<1>2. \A t \in Seq(E) : t # <<>> <=> Len(t) > 0
  OBVIOUS
<1>3. (Tail(q) # <<>> <=> Len(Tail(q)) > 0) /\ (Len(q) > 1 <=> Len(Tail(q)) > 0)
  BY <1>1, <1>2
<1> QED BY <1>1, <1>3

\* A write changes one file.
LEMMA AppliedWrite ==
    ASSUME NEW c \in Files, NEW w \in Writes
    PROVE  /\ S!Applied(c, w) \in Files
           /\ S!Applied(c, w).pka = c.pka /\ S!Applied(c, w).combined = c.combined
           /\ S!Applied(c, w).key = c.key /\ S!Applied(c, w).given = c.given
<1> USE SessionNumbers DEF S!Applied, S!Refs
<1>1. CASE w \in [f : {"pin"}, at : S!Refs, v : [v : Pins, old : BOOLEAN], must : BOOLEAN]
  BY <1>1 DEF Files
<1>2. CASE w \in [f : {"mkek"}, at : S!Refs, v : Copies, must : BOOLEAN]
  BY <1>2 DEF Files
<1>3. CASE w \in [f : {"mkek"}, at : {None}, v : [S!Refs -> Copies], must : BOOLEAN]
  BY <1>3 DEF Files
<1>4. CASE w \in [f : {"tries"}, at : S!Refs, v : Nat, must : BOOLEAN]
  BY <1>4 DEF Files
<1>5. CASE w \in [f : {"tries"}, at : {None}, v : [S!Refs -> Nat], must : BOOLEAN]
  BY <1>5 DEF Files
<1>6. CASE w \in [f : {"puks"}, at : Puks, v : Nat, must : BOOLEAN]
  BY <1>6 DEF Files
<1>7. CASE w \in [f : {"need", "have"}, at : {None}, v : Nat, must : BOOLEAN]
  BY <1>7 DEF Files
<1>8. CASE w \in [f : {"dkek"}, at : {None}, v : Domains, must : BOOLEAN]
  BY <1>8 DEF Files
<1>9. CASE w \in [f : {"locked"}, at : {None}, v : BOOLEAN, must : BOOLEAN]
  BY <1>9 DEF Files
<1> QED BY <1>1, <1>2, <1>3, <1>4, <1>5, <1>6, <1>7, <1>8, <1>9 DEF Writes

\* The card of host h when it starts
FirstCard(p, h, old, c) ==
    /\ old => h = "pins"
    /\ c => h = "quorum"
    /\ cache = [S!CardOf(p, p, old) EXCEPT !.pka = (h = "quorum"), !.combined = c,
                  !.puks = [q \in Puks |-> IF h = "quorum" /\ ~c /\ q = S!LastPuk THEN 0 ELSE 1]]
    /\ hist = [host |-> h, keys |-> 1, nonces |-> 0, mishaps |-> 0, cmds |-> 0,
               answered |-> {}, part |-> {}, torn |-> {}]

LEMMA FirstCards ==
    ASSUME S!Init
    PROVE  \E h \in {"pins", "quorum", "domain"}, old \in BOOLEAN, c \in BOOLEAN : FirstCard(CHOOSE p \in Pins : TRUE, h, old, c)
BY Zenon DEF S!Init, FirstCard

\* The types hold when the card starts.
LEMMA SessionTypesInit == S!Init => SessionTypes
<1> SUFFICES ASSUME S!Init PROVE SessionTypes
  OBVIOUS
<1> DEFINE p0 == CHOOSE p \in Pins : TRUE
<1>1. p0 \in Pins
  BY SessionNumbers
<1> HIDE DEF p0
<1>2. ASSUME NEW old \in BOOLEAN PROVE S!CardOf(p0, p0, old) \in Files
  BY <1>1, SessionNumbers DEF S!CardOf, S!Wrapped, S!NoDkek, Files, Copies, Domains, S!Refs
<1>3. PICK h \in {"pins", "quorum", "domain"}, old \in BOOLEAN, c \in BOOLEAN : FirstCard(p0, h, old, c)
  BY FirstCards DEF p0
<1>4. cache \in Files
  <2> DEFINE c0 == S!CardOf(p0, p0, old)
             k == [q \in Puks |-> IF h = "quorum" /\ ~c /\ q = S!LastPuk THEN 0 ELSE 1]
  <2>1. c0 \in Files /\ k \in [Puks -> Nat] /\ (h = "quorum") \in BOOLEAN
    BY <1>2
  <2>2. cache = [c0 EXCEPT !.pka = (h = "quorum"), !.combined = c, !.puks = k]
    BY <1>3 DEF FirstCard
  <2> HIDE DEF c0, k
  <2> QED BY <2>1, <2>2 DEF Files
<1>5. hist \in Histories
  BY <1>3 DEF FirstCard, Histories
<1>6. ram \in Ram /\ op \in Ops /\ Shaped(op)
  BY SessionNumbers DEF Shaped, S!Init, S!Booted, S!Idle, Ram, Ops, MaySession, S!Refs, Pcs, Cmds
<1> QED BY <1>4, <1>5, <1>6 DEF SessionTypes, S!Init

\* A handler that starts to write, and one that goes on
LEMMA RunTypes ==
    ASSUME NEW name \in Cmds, NEW writes \in Seq(Writes), NEW then \in Pcs \ {"write", "change"}
    PROVE  /\ S!Run(name, writes, then) \in Ops /\ Shaped(S!Run(name, writes, then))
           /\ S!Run(name, writes, then).pc = IF writes = <<>> THEN then ELSE "write"
           /\ S!Run(name, writes, then).todo = writes
           /\ S!Run(name, writes, then).then = then /\ S!Run(name, writes, then).cmd = name
<1> DEFINE x == S!Run(name, writes, then)
           q == IF writes = <<>> THEN then ELSE "write"
<1>1. S!Idle \in Ops
  BY SessionNumbers DEF S!Idle, Ops, Pcs, S!Refs, Cmds
<1>2. x = [S!Idle EXCEPT !.pc = q, !.cmd = name, !.todo = writes, !.then = then]
  BY DEF S!Run
<1>3. q \in Pcs /\ then \in Pcs /\ then # "write" /\ then # "change" /\ q # "change"
  BY DEF Pcs
<1>6. q = "write" <=> writes # <<>>
  BY <1>3
<1>7. S!Idle.next = "idle"
  BY DEF S!Idle
<1> HIDE DEF q
<1>4. x \in Ops /\ x.pc = q /\ x.todo = writes /\ x.then = then /\ x.cmd = name /\ x.next = "idle"
  BY <1>1, <1>2, <1>3, <1>7 DEF Ops
<1>5. Shaped(x)
  BY <1>3, <1>4, <1>6 DEF Shaped
<1> QED BY <1>4, <1>5 DEF q

\* Single writes
LEMMA PutTypes ==
    /\ \A r \in S!Refs, b \in BOOLEAN :
          /\ \A v \in [v : Pins, old : BOOLEAN] : S!Put("pin", r, v, b) \in Writes
          /\ \A v \in Copies : S!Put("mkek", r, v, b) \in Writes
          /\ \A v \in Nat : S!Put("tries", r, v, b) \in Writes
    /\ \A b \in BOOLEAN :
          /\ \A v \in [S!Refs -> Copies] : S!Put("mkek", None, v, b) \in Writes
          /\ \A v \in [S!Refs -> Nat] : S!Put("tries", None, v, b) \in Writes
          /\ \A v \in Nat : S!Put("need", None, v, b) \in Writes /\ S!Put("have", None, v, b) \in Writes
          /\ \A p \in Puks, v \in Nat : S!Put("puks", p, v, b) \in Writes
          /\ \A v \in Domains : S!Put("dkek", None, v, b) \in Writes
          /\ \A v \in BOOLEAN : S!Put("locked", None, v, b) \in Writes
BY DEF S!Put, Writes

\* A handler that goes on with another step
LEMMA GoesOn ==
    ASSUME op \in Ops, NEW pc \in Pcs
    PROVE  /\ [op EXCEPT !.pc = pc] \in Ops /\ [op EXCEPT !.pc = pc].pc = pc
           /\ [op EXCEPT !.pc = pc].todo = op.todo
           /\ Shaped(op) /\ op.pc # "write" /\ pc # "write" /\ (pc = "change" => op.next = "change")
                => Shaped([op EXCEPT !.pc = pc])
BY DEF Ops, Shaped

\* A list of one write
LEMMA OneWrite == ASSUME NEW w \in Writes PROVE <<w>> \in Seq(Writes) /\ <<w>> # <<>>
OBVIOUS

\* A failed write ends the command, is passed over, or takes the last share back.
Back == S!Run("import", <<S!TakenBack>>, "idle")
LEMMA FaultEnds ==
    ASSUME SessionTypes, S!Fault
    PROVE  /\ op.pc = "write" /\ S!TakenBack.f = "dkek" /\ S!TakenBack.at = None
           /\ \/ op' = S!Idle \/ op' = S!Rest
              \/ /\ op.cmd = "import" /\ op' \in Ops /\ Shaped(op')
                 /\ op'.cmd = "import" /\ op'.pc = "write" /\ op'.then = "idle" /\ op'.todo = <<S!TakenBack>>
<1>1. \/ op' = S!Idle \/ op' = S!Rest
      \/ op' = Back /\ op.cmd = "import" /\ op.share # {}
  BY DEF S!Fault, S!LastShare, Back
<1>2. ASSUME op.share # {} PROVE S!TakenBack \in Writes
  <2> DEFINE s == CHOOSE x \in op.share : TRUE
  <2>1. s \in Shares /\ cache.dkek \in Domains
    BY <1>2 DEF SessionTypes, Ops, Files
  <2> HIDE DEF s
  <2>2. /\ (IF cache.dkek.kind = "raw" THEN S!Xor(cache.dkek.xor, {s}) ELSE {s}) \in SUBSET Shares
        /\ (cache.dkek.kind = "raw" => cache.dkek.ok) \in BOOLEAN
    BY <2>1 DEF Domains, S!Xor
  <2>3. S!Imported(cache.dkek, s) \in Domains
    BY <2>2 DEF S!Imported, Domains
  <2> QED BY <2>3, PutTypes DEF S!TakenBack, s
<1>3. ASSUME op.share # {}
      PROVE  Back \in Ops /\ Shaped(Back) /\ Back.cmd = "import" /\ Back.pc = "write" /\ Back.then = "idle" /\ Back.todo = <<S!TakenBack>>
  <2> DEFINE q == <<S!TakenBack>>
  <2>1. q \in Seq(Writes) /\ q # <<>>
    BY <1>2, <1>3, OneWrite
  <2>2. "import" \in Cmds /\ "idle" \in Pcs \ {"write", "change"}
    BY DEF Cmds, Pcs
  <2>3. Back = S!Run("import", q, "idle")
    BY DEF Back
  <2> HIDE DEF q
  <2>4. /\ S!Run("import", q, "idle") \in Ops /\ Shaped(S!Run("import", q, "idle"))
        /\ S!Run("import", q, "idle").pc = "write" /\ S!Run("import", q, "idle").todo = q
        /\ S!Run("import", q, "idle").then = "idle" /\ S!Run("import", q, "idle").cmd = "import"
    BY <2>1, <2>2, RunTypes
  <2> QED BY <2>3, <2>4 DEF q
<1>4. S!TakenBack.f = "dkek" /\ S!TakenBack.at = None
  BY DEF S!TakenBack, S!Put
<1>5. op.pc = "write"
  BY DEF S!Fault
<1> QED BY <1>1, <1>3, <1>4, <1>5

\* The copies a store writes
LEMMA StoreTypes ==
    ASSUME NEW ses \in [S!Refs -> MaySession], NEW key \in Nat
    PROVE  /\ S!StoreMkek(ses, key) \in Seq(Writes)
           /\ \A r \in S!Refs : ses[r] # None => S!Wrapped(ses[r].pin, ses[r].kdf, key) \in Copies
<1>1. ASSUME NEW r \in S!Refs, ses[r] # None PROVE S!Wrapped(ses[r].pin, ses[r].kdf, key) \in Copies
  BY <1>1 DEF MaySession, S!Sessions, S!Wrapped, Copies
<1>2. "user" \in S!Refs /\ "so" \in S!Refs
  BY DEF S!Refs
<1>3. ses["user"] # None => S!Put("mkek", "user", S!Wrapped(ses["user"].pin, ses["user"].kdf, key), FALSE) \in Writes
  BY <1>1, <1>2, PutTypes
<1>4. ses["so"] # None => S!Put("mkek", "so", S!Wrapped(ses["so"].pin, ses["so"].kdf, key), FALSE) \in Writes
  BY <1>1, <1>2, PutTypes
<1> DEFINE A == IF ses["user"] = None THEN <<>>
                ELSE <<S!Put("mkek", "user", S!Wrapped(ses["user"].pin, ses["user"].kdf, key), FALSE)>>
           B == IF ses["so"] = None THEN <<>>
                ELSE <<S!Put("mkek", "so", S!Wrapped(ses["so"].pin, ses["so"].kdf, key), FALSE)>>
<1>5. A \in Seq(Writes) /\ B \in Seq(Writes) /\ S!StoreMkek(ses, key) = A \o B
  <2>1. S!StoreMkek(ses, key) = A \o B
    BY DEF S!StoreMkek
  <2>2. A \in Seq(Writes)
    <3>1. CASE ses["user"] = None
      BY <3>1
    <3>2. CASE ses["user"] # None
      BY <1>3, <3>2, OneWrite
    <3> QED BY <3>1, <3>2
  <2>3. B \in Seq(Writes)
    <3>1. CASE ses["so"] = None
      BY <3>1
    <3>2. CASE ses["so"] # None
      BY <1>4, <3>2, OneWrite
    <3> QED BY <3>1, <3>2
  <2> HIDE DEF A, B
  <2> QED BY <2>1, <2>2, <2>3
<1> HIDE DEF A, B
<1>6. S!StoreMkek(ses, key) \in Seq(Writes)
  BY <1>5, ConcatProperties
<1> QED BY <1>1, <1>6

\* A loaded key is a key.
LEMMA LoadedTypes == ASSUME NEW c \in Files, NEW m PROVE S!Loaded(c, m) \in S!Refs /\ S!LoadedKey(c, m) \in Nat
<1>1. S!Loaded(c, m) \in S!Refs
  BY DEF S!Loaded, S!Refs
<1> QED BY <1>1 DEF S!LoadedKey, Files, Copies

\* What hsm_update_user_auth and hsm_check_pin do to the session
LEMMA UpdatedTypes ==
    ASSUME SessionTypes, NEW m \in Ram
    PROVE  /\ S!Updated(m) \in Ram /\ S!Updated(m).status = m.status /\ S!Updated(m).ses = m.ses
           /\ S!Updated(m).pending = m.pending /\ S!Updated(m).mask = m.mask
           /\ ~cache.pka => S!Updated(m) = m
           /\ S!Closed(m) \in Ram /\ S!Closed(m).status = m.status /\ S!Closed(m).pending = m.pending
           /\ S!Closed(m).mask = m.mask /\ S!Closed(m).ses = [r \in S!Refs |-> None]
           /\ S!Closed(m).user => m.user
<1>1. cache.pka \in BOOLEAN /\ m.user \in BOOLEAN
  BY DEF SessionTypes, Files, Ram
<1>2. (S!QuorumMet(m) /\ (cache.combined => m.ses["user"] # None)) \in BOOLEAN
  OBVIOUS
<1>3. (cache.pka /\ m.user) \in BOOLEAN /\ [r \in S!Refs |-> None] \in [S!Refs -> MaySession]
  BY <1>1 DEF MaySession
<1> QED BY <1>1, <1>2, <1>3 DEF S!Updated, S!Closed, Ram

\* Every step keeps the types.
LEMMA SessionTypesNext ==
    SessionTypes /\ S!Next => SessionTypes'
<1> SUFFICES ASSUME SessionTypes, S!Next PROVE SessionTypes'
  OBVIOUS
<1> USE DEF SessionTypes
<1>0. /\ S!Idle \in Ops /\ Shaped(S!Idle) /\ "idle" \in Pcs
      /\ hist.mishaps + 1 \in Nat /\ hist.cmds + 1 \in Nat /\ hist.keys + 1 \in Nat /\ hist.nonces + 1 \in Nat
      /\ S!Booted \in Ram /\ <<>> \in Seq(Writes) /\ op.cmd \in Cmds /\ S!Torn \in SUBSET Cmds
      /\ "user" \in S!Refs /\ "so" \in S!Refs /\ None \in Cmds
  BY SessionNumbers DEF Shaped, S!Idle, S!Booted, Ops, Pcs, Cmds, Ram, MaySession, S!Refs, Histories, S!Torn
<1>1. ASSUME op.pc = "write"
      PROVE  /\ S!Rest \in Ops /\ Shaped(S!Rest)
             /\ Head(op.todo) \in Writes /\ S!Applied(cache, Head(op.todo)) \in Files
  <2>1. /\ op.todo \in Seq(Writes) /\ op.todo # <<>> /\ op.then \in Pcs \ {"write"} /\ op.pc = "write"
    BY <1>1 DEF Ops, Shaped
  <2>2. /\ Tail(op.todo) \in Seq(Writes) /\ Head(op.todo) \in Writes
        /\ Len(op.todo) > 1 <=> Tail(op.todo) # <<>>
    BY <2>1, RestOf
  <2>3. S!Rest \in Ops /\ Shaped(S!Rest)
    <3>1. CASE Len(op.todo) > 1
      <4>1. S!Rest = [op EXCEPT !.todo = Tail(op.todo)]
        BY <3>1 DEF S!Rest
      <4> QED BY <2>1, <2>2, <3>1, <4>1 DEF Ops, Shaped
    <3>2. CASE ~(Len(op.todo) > 1)
      BY <1>0, <2>1, <3>2 DEF S!Rest, Ops, Shaped
    <3> QED BY <3>1, <3>2
  <2> QED BY <2>2, <2>3, AppliedWrite
<1>2. CASE S!Write
  BY <1>1, <1>2 DEF S!Write
<1>3. CASE S!Fault
  <2>1. op' \in Ops /\ Shaped(op')
    BY <1>0, <1>1, <1>3, FaultEnds DEF S!Fault
  <2>2. hist' \in Histories
    BY <1>0, <1>3 DEF S!Fault, Histories
  <2> QED BY <1>3, <2>1, <2>2 DEF S!Fault
<1>4. CASE S!Drain
  <2>1. hist' \in Histories
    BY <1>0, <1>4 DEF S!Drain, Histories
  <2> QED BY <1>4, <2>1 DEF S!Drain
<1>5. CASE S!PowerLoss
  <2> DEFINE more == IF flash.dkek.kind = "raw" /\ flash.have = flash.need THEN {"pending"} ELSE {}
  <2>1. hist.torn \cup hist.part \cup more \in SUBSET (Cmds \cup {"pending"})
    BY DEF Histories
  <2>2. hist' = [hist EXCEPT !.mishaps = @ + 1, !.answered = {}, !.torn = hist.torn \cup hist.part \cup more]
    BY <1>5 DEF S!PowerLoss
  <2> HIDE DEF more
  <2>3. hist' \in Histories
    BY <1>0, <2>1, <2>2 DEF Histories
  <2> QED BY <1>0, <1>5, <2>3 DEF S!PowerLoss
<1>6. CASE S!Select
  <2>1. ram' \in Ram /\ hist' \in Histories
    BY <1>0, <1>6 DEF S!Select, Ram, Histories, S!Booted
  <2> QED BY <1>6, <2>1 DEF S!Select
<1>7. ASSUME NEW name \in Cmds, NEW w, w \in Writes, NEW then \in Pcs \ {"write", "change"}
      PROVE  S!Run(name, <<w>>, then) \in Ops /\ Shaped(S!Run(name, <<w>>, then))
  <2> DEFINE q == <<w>>
  <2>1. q \in Seq(Writes) /\ q # <<>>
    BY <1>7, OneWrite
  <2> HIDE DEF q
  <2>2. S!Run(name, q, then) \in Ops /\ Shaped(S!Run(name, q, then))
    BY <2>1, RunTypes
  <2> QED BY <2>2 DEF q
<1>8. S!Counted => hist' \in Histories
  BY <1>0 DEF S!Counted, Histories
<1>9. S!Closed(ram) \in Ram
  BY UpdatedTypes
<1>10. ASSUME NEW r \in S!Refs, NEW next \in {"idle", "change", "unblock"}, NEW new \in Pins \cup {None},
              next = "change" => new # None, S!CheckRight(r, next, new), hist' \in Histories
       PROVE  SessionTypes'
  <2>1. S!Put("tries", r, MaxTries, TRUE) \in Writes
    BY SessionNumbers, PutTypes
  <2> DEFINE o == S!Run("check", <<S!Put("tries", r, MaxTries, TRUE)>>, "checked")
  <2>2. o \in Ops /\ Shaped(o)
    <3>1. "check" \in Cmds /\ "checked" \in Pcs \ {"write", "change"}
      BY DEF Cmds, Pcs
    <3> QED BY <1>7, <2>1, <3>1
  <2>3. op' = IF cache.tries[r] = 0 THEN S!Idle ELSE [o EXCEPT !.ref = r, !.next = next, !.new = new]
    BY <1>10 DEF S!CheckRight
  <2> HIDE DEF o
  <2>4. op' \in Ops /\ Shaped(op')
    <3>1. o.pc = "write" /\ o.todo # <<>> /\ o.then = "checked"
      BY DEF o, S!Run
    <3> QED BY <1>0, <1>10, <2>2, <2>3, <3>1 DEF Ops, Shaped
  <2> QED BY <1>9, <1>10, <2>4 DEF S!CheckRight
<1>11. ASSUME NEW r \in S!Refs, S!CheckWrong(r) PROVE SessionTypes'
  <2>1. S!Put("tries", r, cache.tries[r] - 1, TRUE) \in Writes
    <3>1. cache.tries[r] - 1 \in Nat
      BY <1>11 DEF S!CheckWrong, Files
    <3> QED BY <3>1, PutTypes
  <2>2. op' \in Ops /\ Shaped(op')
    <3>1. "check" \in Cmds /\ "idle" \in Pcs \ {"write", "change"}
      BY DEF Cmds, Pcs
    <3>2. op' = S!Run("check", <<S!Put("tries", r, cache.tries[r] - 1, TRUE)>>, "idle")
      BY <1>11 DEF S!CheckWrong
    <3> QED BY <1>7, <2>1, <3>1, <3>2
  <2> QED BY <1>8, <1>9, <1>11, <2>2 DEF S!CheckWrong
<1>12. ASSUME NEW r \in S!Refs, S!Verify(r) PROVE SessionTypes'
  BY <1>10, <1>12 DEF S!Verify
<1>13. ASSUME NEW ses \in [S!Refs -> MaySession], NEW r \in S!Refs, NEW s \in S!Sessions
       PROVE  [ses EXCEPT ![r] = s] \in [S!Refs -> MaySession]
  BY DEF MaySession
<1>14. CASE S!Checked
  <2> DEFINE r == op.ref
             v == cache.pin[r].v
             oldS == [pin |-> v, kdf |-> "old"]
             newS == [pin |-> v, kdf |-> "new"]
             oldSes == [ram EXCEPT !.ses[r] = oldS]
             newSes == [ram EXCEPT !.ses[r] = newS]
             key == S!LoadedKey(cache, oldSes)
             A == IF cache.mkek[r].legacy THEN S!StoreMkek(oldSes.ses, key) ELSE <<>>
             B == S!StoreMkek(newSes.ses, key)
             P == S!Put("pin", r, [v |-> v, old |-> FALSE], TRUE)
  <2>1. r \in S!Refs /\ v \in Pins /\ oldS \in S!Sessions /\ newS \in S!Sessions
    BY DEF Ops, Files, S!Sessions
  <2>2. oldSes \in Ram /\ newSes \in Ram /\ oldSes.ses \in [S!Refs -> MaySession] /\ newSes.ses \in [S!Refs -> MaySession]
    <3> HIDE DEF r, v, oldS, newS
    <3>1. [ram.ses EXCEPT ![r] = oldS] \in [S!Refs -> MaySession] /\ [ram.ses EXCEPT ![r] = newS] \in [S!Refs -> MaySession]
      BY <1>13, <2>1 DEF Ram
    <3> QED BY <3>1 DEF Ram
  <2>3. key \in Nat
    BY LoadedTypes
  <2>4. P \in Writes
    <3>1. [v |-> v, old |-> FALSE] \in [v : Pins, old : BOOLEAN]
      BY <2>1
    <3> QED BY <2>1, <3>1, PutTypes
  <2> HIDE DEF key, oldSes, newSes, P
  <2>5. A \in Seq(Writes) /\ B \in Seq(Writes) /\ <<P>> \in Seq(Writes)
    <3>1. S!StoreMkek(oldSes.ses, key) \in Seq(Writes) /\ S!StoreMkek(newSes.ses, key) \in Seq(Writes)
      BY <2>2, <2>3, StoreTypes
    <3> QED BY <1>0, <2>4, <3>1, OneWrite
  <2> HIDE DEF A, B
  <2>6. A \o B \o <<P>> \in Seq(Writes) /\ A \o B \o <<P>> # <<>>
    <3>1. A \o B \in Seq(Writes)
      BY <2>5, ConcatProperties
    <3>2. A \o B \o <<P>> \in Seq(Writes) /\ Len(A \o B \o <<P>>) = Len(A \o B) + 1 /\ Len(A \o B) \in Nat
      BY <2>5, <3>1, ConcatProperties, LenProperties
    <3> QED BY <3>2
  <2>7. ram' \in Ram /\ UNCHANGED <<cache, flash, hist>>
    BY <1>14, <2>2 DEF S!Checked, oldSes, newSes
  <2> DEFINE todo == A \o B \o <<P>>
  <2>8. \/ op' = [op EXCEPT !.pc = "granted"] \/ op' = S!Idle
        \/ op' = [op EXCEPT !.pc = "write", !.cmd = "upgrade", !.then = "granted", !.todo = todo]
    BY <1>14 DEF S!Checked, A, B, P, oldSes, newSes, key
  <2> HIDE DEF todo
  <2>10. todo \in Seq(Writes) /\ todo # <<>>
    BY <2>6 DEF todo
  <2>9. op' \in Ops /\ Shaped(op')
    <3>1. op.pc = "checked" /\ op.todo = <<>>
      BY <1>14 DEF S!Checked, Shaped
    <3>2. CASE op' = [op EXCEPT !.pc = "granted"]
      BY <3>1, <3>2, GoesOn DEF Pcs
    <3>3. CASE op' = [op EXCEPT !.pc = "write", !.cmd = "upgrade", !.then = "granted", !.todo = todo]
      BY <1>0, <2>10, <3>3 DEF Pcs, Cmds, Ops, Shaped
    <3> QED BY <1>0, <2>8, <3>2, <3>3
  <2> QED BY <2>7, <2>9
<1>15. CASE S!Granted
  <2>1. ram' \in Ram
    <3>1. [ram EXCEPT !.user = ram.user \/ ~cache.pka] \in Ram
      <4>1. (ram.user \/ ~cache.pka) \in BOOLEAN
        BY DEF Ram, Files
      <4> QED BY <4>1 DEF Ram
    <3>2. S!Updated([ram EXCEPT !.user = ram.user \/ ~cache.pka]) \in Ram
      BY <3>1, UpdatedTypes
    <3> QED BY <1>15, <3>2 DEF S!Granted, Ram
  <2> DEFINE P == S!Put("dkek", None, S!SavedDkek(cache.dkek), FALSE)
  <2>2. <<P>> \in Seq(Writes) /\ <<P>> # <<>>
    <3>1. S!SavedDkek(cache.dkek) \in Domains
      BY DEF Files, Domains, S!SavedDkek
    <3>2. P \in Writes
      BY <3>1, PutTypes
    <3> HIDE DEF P
    <3> QED BY <3>2, OneWrite
  <2> DEFINE todo == <<P>>
  <2>3. \/ op' = [op EXCEPT !.pc = "write", !.cmd = "pending", !.then = op.next, !.todo = todo]
        \/ op' = S!Idle \/ op' = [op EXCEPT !.pc = op.next]
    BY <1>15 DEF S!Granted, P
  <2> HIDE DEF P, todo
  <2>6. todo \in Seq(Writes) /\ todo # <<>>
    BY <2>2 DEF todo
  <2>4. op.pc = "granted" /\ op.todo = <<>> /\ op.next \in Pcs \ {"write"}
    BY <1>15 DEF S!Granted, Ops, Pcs, Shaped
  <2>5. op' \in Ops /\ Shaped(op')
    <3>2. CASE op' = [op EXCEPT !.pc = op.next]
      BY <2>4, <3>2, GoesOn
    <3>3. CASE op' = [op EXCEPT !.pc = "write", !.cmd = "pending", !.then = op.next, !.todo = todo]
      BY <1>0, <2>4, <2>6, <3>3 DEF Pcs, Cmds, Ops, Shaped
    <3> QED BY <1>0, <2>3, <3>2, <3>3
  <2> QED BY <1>15, <2>1, <2>5 DEF S!Granted
<1>16. ASSUME NEW ses \in [S!Refs -> MaySession], NEW r \in S!Refs, NEW new \in Pins, NEW key \in Nat
       PROVE  S!Rewrap(ses, r, new, key) \in Seq(Writes) /\ S!Rewrap(ses, r, new, key) # <<>>
  <2> DEFINE A == S!StoreMkek(ses, key)
             P == S!Put("pin", r, [v |-> new, old |-> FALSE], FALSE)
  <2>1. S!Rewrap(ses, r, new, key) = A \o <<P>>
    BY DEF S!Rewrap
  <2>2. A \in Seq(Writes)
    BY StoreTypes
  <2>3. P \in Writes
    <3>1. [v |-> new, old |-> FALSE] \in [v : Pins, old : BOOLEAN]
      OBVIOUS
    <3> QED BY <3>1, PutTypes
  <2> HIDE DEF A, P
  <2>4. <<P>> \in Seq(Writes)
    BY <2>3, OneWrite
  <2>5. A \o <<P>> \in Seq(Writes) /\ Len(A \o <<P>>) = Len(A) + 1 /\ Len(A) \in Nat
    BY <2>2, <2>4, ConcatProperties, LenProperties
  <2> QED BY <2>1, <2>5
<1>17. ASSUME NEW name \in Cmds, NEW q \in Seq(Writes), NEW then \in Pcs \ {"write", "change"}
       PROVE  S!Run(name, q, then) \in Ops /\ Shaped(S!Run(name, q, then))
  BY RunTypes
<1>18. ASSUME NEW r \in S!Refs, NEW new \in Pins
       PROVE  [ram.ses EXCEPT ![r] = [pin |-> new, kdf |-> "new"]] \in [S!Refs -> MaySession]
  <2> DEFINE s == [pin |-> new, kdf |-> "new"]
  <2>1. s \in S!Sessions /\ ram.ses \in [S!Refs -> MaySession]
    BY DEF S!Sessions, Ram
  <2> HIDE DEF s
  <2>2. [ram.ses EXCEPT ![r] = s] \in [S!Refs -> MaySession]
    BY <1>13, <2>1
  <2> QED BY <2>2 DEF s
<1>19. ASSUME NEW r \in S!Refs, NEW new \in Pins, S!ChangePin(r, new) PROVE SessionTypes'
  BY SessionNumbers, <1>8, <1>10, <1>19 DEF S!ChangePin
<1>20. CASE S!Change
  <2> DEFINE ses == [ram.ses EXCEPT ![op.ref] = [pin |-> op.new, kdf |-> "new"]]
             key == S!LoadedKey(cache, ram)
             todo == S!Rewrap(ses, op.ref, op.new, key)
  <2>1. op.ref \in S!Refs /\ op.new \in Pins /\ key \in Nat
    BY <1>20, LoadedTypes DEF S!Change, Ops, Shaped
  <2>2. ses \in [S!Refs -> MaySession]
    BY <1>18, <2>1
  <2> HIDE DEF key
  <2>3. /\ \/ op' = S!Idle /\ UNCHANGED ram
           \/ ram' = [ram EXCEPT !.ses = ses] /\ op' = S!Run("change", todo, "idle")
        /\ UNCHANGED <<cache, flash, hist>>
    BY <1>20 DEF S!Change, key
  <2> HIDE DEF ses
  <2>4. todo \in Seq(Writes)
    BY <1>16, <2>1, <2>2
  <2> HIDE DEF todo
  <2>5. S!Run("change", todo, "idle") \in Ops /\ Shaped(S!Run("change", todo, "idle"))
    BY <2>4, RunTypes DEF Cmds, Pcs
  <2>6. [ram EXCEPT !.ses = ses] \in Ram
    BY <2>2 DEF Ram
  <2> QED BY <1>0, <2>3, <2>5, <2>6
<1>21. ASSUME NEW new \in Pins \cup {None}, S!ResetRetry(new) PROVE SessionTypes'
  BY <1>0, <1>8, <1>10, <1>21 DEF S!ResetRetry
<1>22. ASSUME NEW new \in Pins \cup {None}, S!ResetRetrySession(new) PROVE SessionTypes'
  <2>1. op' = [S!Idle EXCEPT !.pc = "unblock", !.cmd = "unblock", !.new = new] /\ UNCHANGED <<cache, flash, ram>>
    BY <1>22 DEF S!ResetRetrySession
  <2>2. op' \in Ops /\ Shaped(op')
    BY <1>0, <2>1 DEF S!Idle, Ops, Shaped, Pcs, Cmds, S!Refs
  <2> QED BY <1>8, <1>22, <2>1, <2>2 DEF S!ResetRetrySession
<1>13a. CASE S!Unblock
  <2> DEFINE ses == [ram.ses EXCEPT !["user"] = [pin |-> op.new, kdf |-> "new"]]
             key == S!LoadedKey(cache, ram)
             P == S!Put("tries", "user", MaxTries, TRUE)
             full == <<P>>
             more == S!Rewrap(ses, "user", op.new, key)
             todo == full \o more
  <2>1. P \in Writes /\ key \in Nat
    BY SessionNumbers, PutTypes, LoadedTypes DEF S!Refs
  <2> HIDE DEF key, P
  <2>2. full \in Seq(Writes)
    BY <2>1, OneWrite
  <2>3. /\ \/ UNCHANGED ram /\ op' = S!Run("unblock", full, "idle")
           \/ op.new # None /\ ram' = [ram EXCEPT !.ses = ses] /\ op' = S!Run("unblock", todo, "idle")
        /\ UNCHANGED <<cache, flash, hist>>
    BY <1>13a DEF S!Unblock, key, P
  <2>4. "unblock" \in Cmds /\ "idle" \in Pcs \ {"write", "change"}
    BY DEF Cmds, Pcs
  <2> HIDE DEF ses
  <2>5. ASSUME op.new # None PROVE ses \in [S!Refs -> MaySession] /\ more \in Seq(Writes)
    <3>1. op.new \in Pins
      BY <2>5 DEF Ops
    <3>2. ses \in [S!Refs -> MaySession]
      BY <1>0, <1>18, <3>1 DEF ses
    <3> QED BY <1>0, <1>16, <2>1, <3>1, <3>2
  <2> HIDE DEF full, more
  <2>6. op.new # None => todo \in Seq(Writes)
    BY <2>2, <2>5, ConcatProperties
  <2> HIDE DEF todo
  <2>7. CASE UNCHANGED ram /\ op' = S!Run("unblock", full, "idle")
    BY <1>17, <2>2, <2>3, <2>4, <2>7
  <2>8. CASE op.new # None /\ ram' = [ram EXCEPT !.ses = ses] /\ op' = S!Run("unblock", todo, "idle")
    <3>1. ram' \in Ram
      BY <2>5, <2>8 DEF Ram
    <3>2. op' \in Ops /\ Shaped(op')
      BY <1>17, <2>4, <2>6, <2>8
    <3> QED BY <2>3, <3>1, <3>2
  <2> QED BY <2>3, <2>7, <2>8
<1>24. ASSUME NEW v \in Pins, NEW w \in Pins, NEW key \in Nat
       PROVE  S!InitializeWrites(v, w, key) \in Seq(Writes)
  <2> DEFINE ses == [user |-> [pin |-> v, kdf |-> "new"], so |-> [pin |-> w, kdf |-> "new"]]
             P1 == S!Put("mkek", None, [r \in S!Refs |-> S!NoCopy], FALSE)
             P2 == S!Put("dkek", None, S!NoDkek, FALSE)
             P3 == S!Put("locked", None, FALSE, FALSE)
             P4 == S!Put("tries", None, [r \in S!Refs |-> MaxTries], FALSE)
             P5 == S!Put("pin", "user", [v |-> v, old |-> FALSE], FALSE)
             P6 == S!Put("pin", "so", [v |-> w, old |-> FALSE], FALSE)
             P7 == S!Put("need", None, Dkeks, TRUE)
             P8 == S!Put("have", None, 0, TRUE)
             M == S!StoreMkek(ses, key)
  <2>1. /\ S!NoCopy \in Copies /\ S!NoDkek \in Domains /\ Dkeks \in Nat /\ 0 \in Nat /\ MaxTries \in Nat
        /\ [v |-> v, old |-> FALSE] \in [v : Pins, old : BOOLEAN]
        /\ [v |-> w, old |-> FALSE] \in [v : Pins, old : BOOLEAN]
    BY SessionNumbers DEF S!NoCopy, S!Wrapped, Copies, S!NoDkek, Domains
  <2>2. P1 \in Writes /\ P2 \in Writes /\ P3 \in Writes /\ P4 \in Writes
    BY <2>1, PutTypes
  <2>3. P5 \in Writes /\ P6 \in Writes /\ P7 \in Writes /\ P8 \in Writes
    BY <1>0, <2>1, PutTypes
  <2>4. ses \in [S!Refs -> MaySession]
    BY DEF S!Refs, MaySession, S!Sessions
  <2>5. M \in Seq(Writes)
    BY <2>4, StoreTypes
  <2>6. S!InitializeWrites(v, w, key) = <<P1, P2, P3, P4, P5, P6>> \o M \o <<P7, P8>>
    BY DEF S!InitializeWrites
  <2> HIDE DEF P1, P2, P3, P4, P5, P6, P7, P8, M
  <2> DEFINE A == <<P1, P2, P3, P4, P5, P6>>
             B == <<P7, P8>>
  <2>7. A \in Seq(Writes) /\ B \in Seq(Writes)
    BY <2>2, <2>3
  <2>8. S!InitializeWrites(v, w, key) = A \o M \o B
    BY <2>6
  <2> HIDE DEF A, B
  <2> QED BY <2>5, <2>7, <2>8, ConcatProperties
<1>25. ASSUME NEW v \in Pins, NEW w \in Pins, S!Initialize(v, w) PROVE SessionTypes'
  <2> DEFINE ok == S!Loads(cache, ram)
             key == IF ok THEN S!LoadedKey(cache, ram) ELSE hist.keys + 1
             todo == S!InitializeWrites(v, w, key)
             ses == [user |-> [pin |-> v, kdf |-> "new"], so |-> [pin |-> w, kdf |-> "new"]]
  <2>1. key \in Nat
    BY <1>0, LoadedTypes
  <2>2. op' = [S!Run("initialize", todo, "initialized") EXCEPT !.key = key]
    BY <1>25 DEF S!Initialize
  <2>3. op' \in Ops /\ Shaped(op')
    <3> HIDE DEF key
    <3>1. todo \in Seq(Writes)
      BY <1>24, <2>1
    <3> HIDE DEF todo
    <3>2. S!Run("initialize", todo, "initialized") \in Ops /\ Shaped(S!Run("initialize", todo, "initialized"))
      BY <1>17, <3>1 DEF Cmds, Pcs
    <3> QED BY <2>1, <2>2, <3>2 DEF Ops, Shaped
  <2>4. hist' \in Histories
    <3> DEFINE keys == IF ok THEN hist.keys ELSE hist.keys + 1
               torn == IF ram.pending THEN hist.torn \cup {"pending"} ELSE hist.torn
    <3>1. hist' = [hist EXCEPT !.cmds = @ + 1, !.keys = keys, !.answered = {}, !.torn = torn]
      BY <1>25 DEF S!Initialize
    <3>2. keys \in Nat /\ torn \in SUBSET (Cmds \cup {"pending"})
      BY <1>0 DEF Histories
    <3> HIDE DEF keys, torn
    <3> QED BY <1>0, <3>1, <3>2 DEF Histories
  <2>5. ram' \in Ram
    <3>1. ses \in [S!Refs -> MaySession]
      BY DEF S!Refs, MaySession, S!Sessions
    <3>2. ram' = [ram EXCEPT !.ses = ses, !.mask = FALSE]
      BY <1>25 DEF S!Initialize
    <3> HIDE DEF ses
    <3> QED BY <3>1, <3>2 DEF Ram
  <2>6. cache' \in Files /\ UNCHANGED flash
    BY <1>25 DEF S!Initialize, Files
  <2> QED BY <2>3, <2>4, <2>5, <2>6
<1>26. CASE S!Initialized
  <2>1. ram' \in Ram /\ cache' \in Files
    BY <1>26 DEF S!Initialized, Ram, Files, Ops
  <2> QED BY <1>0, <1>26, <2>1 DEF S!Initialized
<1>27. ASSUME NEW p \in Puks, S!MseSet(p) PROVE SessionTypes'
  <2>1. ram' \in Ram
    BY <1>27 DEF S!MseSet, Ram
  <2> QED BY <1>27, <2>1 DEF S!MseSet
<1>28. CASE S!GetChallenge
  <2>1. ram' \in Ram /\ hist' \in Histories
    BY <1>0, <1>28 DEF S!GetChallenge, S!Challenged, Ram, Histories
  <2> QED BY <1>28, <2>1 DEF S!GetChallenge
<1>29. ASSUME NEW right \in BOOLEAN, S!ExternalAuthenticate(right) PROVE SessionTypes'
  <2> DEFINE answered == [ram EXCEPT !.status = @ \cup {ram.aut}]
             left == IF S!QuorumMet(answered) THEN [answered EXCEPT !.chal = 0] ELSE answered
  <2>1. ram.aut \in Puks
    BY <1>29 DEF S!ExternalAuthenticate, Ram
  <2>2. left \in Ram
    BY <2>1 DEF Ram
  <2>3. ram' = IF right THEN S!Updated(left) ELSE [ram EXCEPT !.status = @ \ {ram.aut}]
    BY <1>29 DEF S!ExternalAuthenticate
  <2>4. S!Updated(left) \in Ram
    <3> HIDE DEF left
    <3> QED BY <2>2, UpdatedTypes
  <2> HIDE DEF left
  <2>5. ram' \in Ram
    BY <2>1, <2>3, <2>4 DEF Ram
  <2>6. hist' \in Histories
    <3> DEFINE ans == IF right THEN hist.answered \cup {ram.aut} ELSE hist.answered \ {ram.aut}
    <3>1. ans \in SUBSET Puks
      BY <2>1 DEF Histories
    <3>2. hist' = [hist EXCEPT !.answered = ans]
      BY <1>29 DEF S!ExternalAuthenticate
    <3> HIDE DEF ans
    <3> QED BY <3>1, <3>2 DEF Histories
  <2> QED BY <1>29, <2>5, <2>6 DEF S!ExternalAuthenticate
<1>30. ASSUME NEW p \in Puks, S!PukAuth(p) PROVE SessionTypes'
  <2> DEFINE n == 1 + (cache.puks[p] % 2)
  <2>1. n \in Nat
    BY DEF Files
  <2>2. op' = S!Run("puk", <<S!Put("puks", p, n, FALSE)>>, "idle")
    BY <1>30 DEF S!PukAuth
  <2> HIDE DEF n
  <2>3. S!Put("puks", p, n, FALSE) \in Writes
    BY <2>1, PutTypes
  <2>4. op' \in Ops /\ Shaped(op')
    BY <1>7, <2>2, <2>3 DEF Cmds, Pcs
  <2> QED BY <1>8, <1>30, <2>4 DEF S!PukAuth
<1>31. S!Kcv \in Ops /\ Shaped(S!Kcv)
  <2> DEFINE P == S!Put("dkek", None, [kind |-> "wrapped", xor |-> {}, ok |-> FALSE], FALSE)
  <2>1. P \in Writes
    <3>1. [kind |-> "wrapped", xor |-> {}, ok |-> FALSE] \in Domains
      BY DEF Domains
    <3> QED BY <3>1, PutTypes
  <2>2. S!Kcv = S!Idle \/ S!Kcv = S!Run("import", <<P>>, "idle")
    BY DEF S!Kcv
  <2> HIDE DEF P
  <2>3. S!Run("import", <<P>>, "idle") \in Ops /\ Shaped(S!Run("import", <<P>>, "idle"))
    BY <1>7, <2>1 DEF Cmds, Pcs
  <2> QED BY <1>0, <2>2, <2>3
<1>32. CASE S!DomainKcv
  <2>1. S!Xor(cache.given, op.share) \in SUBSET Shares
    BY DEF S!Xor, Files, Ops
  <2>2. cache' \in Files
    BY <1>32, <2>1 DEF S!DomainKcv, Files
  <2> QED BY <1>31, <1>32, <2>2 DEF S!DomainKcv
<1>33. CASE S!DomainQuery
  BY <1>31, <1>33 DEF S!DomainQuery
<1>34. ASSUME NEW s \in Shares, S!ImportShare(s) PROVE SessionTypes'
  <2>1. ASSUME NEW d \in Domains PROVE S!Imported(d, s) \in Domains
    <3>1. /\ (IF d.kind = "raw" THEN S!Xor(d.xor, {s}) ELSE {s}) \in SUBSET Shares
          /\ (d.kind = "raw" => d.ok) \in BOOLEAN
      BY DEF Domains, S!Xor
    <3> QED BY <3>1 DEF S!Imported, Domains
  <2> DEFINE d == S!Imported(cache.dkek, s)
             login == \E r \in S!Refs : ram.ses[r] # None
             P == S!Put("dkek", None, d, FALSE)
             Q == S!Put("dkek", None, S!Imported(d, s), FALSE)
             R == S!Put("dkek", None, S!SavedDkek(d), FALSE)
             N == S!Put("have", None, cache.have + 1, TRUE)
             B == IF S!IsLast(cache) /\ login THEN <<R>> ELSE <<>>
             back == <<P, Q>>
             todo == <<P>> \o B \o <<N>>
  <2>2. P \in Writes /\ Q \in Writes /\ R \in Writes /\ N \in Writes
    <3>1. cache.dkek \in Domains /\ cache.have + 1 \in Nat
      BY DEF Files
    <3>2. d \in Domains
      BY <2>1, <3>1
    <3> HIDE DEF d
    <3>3. S!Imported(d, s) \in Domains /\ S!SavedDkek(d) \in Domains
      BY <2>1, <3>2 DEF S!SavedDkek, Domains
    <3> QED BY <3>1, <3>2, <3>3, PutTypes
  <2>3. /\ \/ op' = S!Run("import", back, "idle") /\ UNCHANGED ram
           \/ /\ op' = [S!Run("import", todo, "kcv") EXCEPT !.share = {s}]
              /\ ram' = [ram EXCEPT !.pending = @ \/ (S!IsLast(cache) /\ ~login)]
        /\ UNCHANGED <<cache, flash>> /\ S!Counted
    BY <1>34 DEF S!ImportShare
  <2> HIDE DEF P, Q, R, N
  <2>4. back \in Seq(Writes)
    BY <2>2
  <2>5. todo \in Seq(Writes)
    <3>1. <<P>> \in Seq(Writes) /\ <<N>> \in Seq(Writes) /\ B \in Seq(Writes)
      BY <1>0, <2>2, OneWrite
    <3> HIDE DEF B
    <3> QED BY <3>1, ConcatProperties
  <2> HIDE DEF back, todo
  <2>6. CASE op' = S!Run("import", back, "idle") /\ UNCHANGED ram
    BY <1>8, <1>17, <2>3, <2>4, <2>6 DEF Cmds, Pcs
  <2>7. CASE /\ op' = [S!Run("import", todo, "kcv") EXCEPT !.share = {s}]
             /\ ram' = [ram EXCEPT !.pending = @ \/ (S!IsLast(cache) /\ ~login)]
    <3>1. S!Run("import", todo, "kcv") \in Ops /\ Shaped(S!Run("import", todo, "kcv"))
      BY <1>17, <2>5 DEF Cmds, Pcs
    <3>2. op' \in Ops /\ Shaped(op')
      BY <2>7, <3>1 DEF Ops, Shaped
    <3>3. (ram.pending \/ (S!IsLast(cache) /\ ~login)) \in BOOLEAN
      BY DEF Ram
    <3>4. ram' \in Ram
      BY <2>7, <3>3 DEF Ram
    <3> QED BY <1>8, <2>3, <3>2, <3>4
  <2> QED BY <2>3, <2>6, <2>7
<1>35. ASSUME NEW need \in Nat, NEW have \in Nat, S!DomainChange("import", need, have) PROVE SessionTypes'
  <2> DEFINE P == S!Put("need", None, need, TRUE)
             Q == S!Put("have", None, have, TRUE)
             R == S!Put("dkek", None, S!NoDkek, TRUE)
             todo == <<P, Q, R>>
  <2>1. P \in Writes /\ Q \in Writes /\ R \in Writes
    <3>1. S!NoDkek \in Domains
      BY DEF S!NoDkek, Domains
    <3> QED BY <3>1, PutTypes
  <2>2. op' = S!Run("import", todo, "idle") /\ cache' = [cache EXCEPT !.given = {}] /\ UNCHANGED <<flash, ram>> /\ S!Counted
    BY <1>35 DEF S!DomainChange
  <2> HIDE DEF P, Q, R
  <2>3. todo \in Seq(Writes)
    BY <2>1
  <2> HIDE DEF todo
  <2>4. op' \in Ops /\ Shaped(op')
    BY <1>17, <2>2, <2>3 DEF Cmds, Pcs
  <2>5. cache' \in Files
    BY <2>2 DEF Files
  <2> QED BY <1>8, <2>2, <2>4, <2>5
<1>36. S!DomainSetup \/ S!DomainDelete \/ S!DomainReset => SessionTypes'
  <2>1. cache.need \in Nat /\ S!Unset \in Nat /\ Dkeks \in Nat
    BY SessionNumbers DEF Files
  <2> QED BY <1>35, <2>1 DEF S!DomainSetup, S!DomainDelete, S!DomainReset
<1>37. ASSUME NEW on \in BOOLEAN, S!SecureLock(on) PROVE SessionTypes'
  <2> DEFINE P == S!Put("mkek", "user", [cache.mkek["user"] EXCEPT !.masked = ~@], FALSE)
             Q == S!Put("mkek", "so", [cache.mkek["so"] EXCEPT !.masked = ~@], FALSE)
             R == S!Put("locked", None, on, FALSE)
             A == IF cache.locked = on THEN <<>> ELSE <<P, Q>>
             todo == A \o <<R>>
  <2>1. P \in Writes /\ Q \in Writes /\ R \in Writes
    <3>1. ASSUME NEW r \in S!Refs PROVE [cache.mkek[r] EXCEPT !.masked = ~@] \in Copies
      <4>1. cache.mkek[r] \in Copies
        BY DEF Files
      <4> QED BY <4>1 DEF Copies
    <3> QED BY <1>0, <3>1, PutTypes
  <2>2. op' = S!Run("lock", todo, "idle") /\ UNCHANGED <<cache, flash, ram>> /\ S!Counted
    BY <1>37 DEF S!SecureLock
  <2> HIDE DEF P, Q, R
  <2>3. todo \in Seq(Writes)
    <3>1. A \in Seq(Writes) /\ <<R>> \in Seq(Writes)
      BY <1>0, <2>1, OneWrite
    <3> HIDE DEF A
    <3> QED BY <3>1, ConcatProperties
  <2> HIDE DEF todo
  <2>4. op' \in Ops /\ Shaped(op')
    BY <1>17, <2>2, <2>3 DEF Cmds, Pcs
  <2> QED BY <1>8, <2>2, <2>4
<1>38. CASE S!GiveMask
  <2>1. ram' \in Ram
    BY <1>38 DEF S!GiveMask, Ram
  <2> QED BY <1>38, <2>1 DEF S!GiveMask
<1> QED BY <1>2, <1>3, <1>4, <1>5, <1>6, <1>11, <1>12, <1>14, <1>15, <1>19, <1>20, <1>21, <1>22, <1>13a, <1>25,
           <1>26, <1>27, <1>28, <1>29, <1>30, <1>32, <1>33, <1>34, <1>36, <1>37, <1>38 DEF S!Next

-----------------------------------------------------------------------------
(* HsmSession: access is earned *)

\* Public key authentication is on exactly on a quorum host, nobody initialises such a card, and
\* the approvals that count are the answers to the latest challenge.
Answered ==
    /\ ram.status = hist.answered
    /\ hist.host # "quorum" => hist.answered = {}
QuorumSwitch ==
    /\ cache.pka <=> hist.host = "quorum"
    /\ flash.pka <=> hist.host = "quorum"
    /\ "initialized" \in {op.pc, op.then} => hist.host # "quorum"
AccessInv == SessionTypes /\ Answered /\ QuorumSwitch

\* A reference is checked first: access is closed, and nothing else changes but the handler.
LEMMA CheckRightKeeps ==
    ASSUME AccessInv, NEW r \in S!Refs, NEW next, NEW new, S!CheckRight(r, next, new),
           hist'.answered = hist.answered, hist'.host = hist.host
    PROVE  Answered' /\ QuorumSwitch' /\ (ram'.user => ram.user)
<1>1. ram' = S!Closed(ram) /\ UNCHANGED <<cache, flash>>
  BY DEF S!CheckRight
<1>2. ram'.status = ram.status /\ (ram'.user => ram.user)
  BY <1>1, UpdatedTypes DEF AccessInv, SessionTypes
<1>3. op'.pc # "initialized" /\ op'.then # "initialized"
  BY DEF S!CheckRight, S!Run, S!Idle
<1> QED BY <1>1, <1>2, <1>3 DEF AccessInv, Answered, QuorumSwitch

\* The records of the handler and of the history are typed, so what a step leaves alone is known.
LEMMA CountedKeeps ==
    ASSUME hist \in Histories, S!Counted
    PROVE  hist'.answered = hist.answered /\ hist'.host = hist.host
BY DEF S!Counted, Histories

\* Every step keeps them, and whoever gains access has earned it.
LEMMA AccessNext == AccessInv /\ S!Next => Answered' /\ QuorumSwitch' /\ S!GainsAccess
<1> SUFFICES ASSUME AccessInv, S!Next PROVE Answered' /\ QuorumSwitch' /\ S!GainsAccess
  OBVIOUS
<1> USE DEF AccessInv
<1>0. cache \in Files /\ flash \in Files /\ ram \in Ram /\ op \in Ops /\ hist \in Histories
  BY DEF SessionTypes
<1>1. ASSUME UNCHANGED <<ram, flash>>, cache'.pka = cache.pka, hist'.answered = hist.answered,
             hist'.host = hist.host, "initialized" \in {op'.pc, op'.then} => "initialized" \in {op.pc, op.then}
      PROVE  Answered' /\ QuorumSwitch' /\ S!GainsAccess
  BY <1>1 DEF Answered, QuorumSwitch, S!GainsAccess
<1>2. ASSUME op.pc = "write"
      PROVE  /\ S!Applied(cache, Head(op.todo)).pka = cache.pka
             /\ "initialized" \in {S!Rest.pc, S!Rest.then} => "initialized" \in {op.pc, op.then}
  <2>1. Head(op.todo) \in Writes
    BY <1>2, RestOf DEF SessionTypes, Shaped, Ops
  <2>2. S!Applied(cache, Head(op.todo)).pka = cache.pka
    BY <1>0, <2>1, AppliedWrite
  <2> QED BY <1>0, <2>2 DEF S!Rest, S!Idle, Ops
<1>3. CASE S!Write
  BY <1>1, <1>2, <1>3 DEF S!Write
<1>4. CASE S!Fault
  <2>1. hist'.answered = hist.answered /\ hist'.host = hist.host /\ UNCHANGED <<cache, flash, ram>>
    BY <1>0, <1>4 DEF S!Fault, Histories
  <2>2. "initialized" \in {op'.pc, op'.then} => "initialized" \in {op.pc, op.then}
    BY <1>2, <1>4, FaultEnds DEF S!Idle
  <2> QED BY <1>1, <2>1, <2>2
<1>5. CASE S!Drain
  <2>1. hist'.answered = hist.answered /\ hist'.host = hist.host
    BY <1>0, <1>5 DEF S!Drain, Histories
  <2> QED BY <1>5, <2>1 DEF S!Drain, Answered, QuorumSwitch, S!GainsAccess
<1>6. CASE S!PowerLoss
  <2>1. hist'.answered = {} /\ hist'.host = hist.host
    BY <1>0, <1>6 DEF S!PowerLoss, Histories
  <2>2. ram'.status = {} /\ ram'.user = FALSE /\ op'.pc = "idle" /\ op'.then = "idle"
    BY <1>6 DEF S!PowerLoss, S!Booted, S!Idle
  <2> QED BY <1>6, <2>1, <2>2 DEF S!PowerLoss, Answered, QuorumSwitch, S!GainsAccess
<1>7. CASE S!Select
  <2>1. hist'.answered = {} /\ hist'.host = hist.host
    BY <1>0, <1>7 DEF S!Select, Histories
  <2>2. ram'.status = {} /\ ram'.user = FALSE /\ UNCHANGED <<cache, flash, op>>
    BY <1>7 DEF S!Select, S!Booted
  <2> QED BY <2>1, <2>2 DEF Answered, QuorumSwitch, S!GainsAccess
<1>8. ASSUME NEW r \in S!Refs, S!CheckWrong(r) PROVE Answered' /\ QuorumSwitch' /\ S!GainsAccess
  <2>1. hist'.answered = hist.answered /\ hist'.host = hist.host
    BY <1>0, <1>8, CountedKeeps DEF S!CheckWrong
  <2>2. ram'.status = ram.status /\ (ram'.user => ram.user) /\ UNCHANGED <<cache, flash>>
    BY <1>0, <1>8, UpdatedTypes DEF S!CheckWrong
  <2>3. op'.pc # "initialized" /\ op'.then # "initialized"
    BY <1>8 DEF S!CheckWrong, S!Run, S!Idle
  <2> QED BY <2>1, <2>2, <2>3 DEF Answered, QuorumSwitch, S!GainsAccess
<1>9. ASSUME NEW r \in S!Refs, S!Verify(r) PROVE Answered' /\ QuorumSwitch' /\ S!GainsAccess
  BY <1>9, CheckRightKeeps DEF S!Verify, S!GainsAccess
<1>10. ASSUME NEW r \in S!Refs, NEW new, S!ChangePin(r, new) PROVE Answered' /\ QuorumSwitch' /\ S!GainsAccess
  BY <1>0, <1>10, CountedKeeps, CheckRightKeeps DEF S!ChangePin, S!GainsAccess
<1>11. ASSUME NEW new, S!ResetRetry(new) PROVE Answered' /\ QuorumSwitch' /\ S!GainsAccess
  <2>1. "so" \in S!Refs
    BY DEF S!Refs
  <2> QED BY <1>0, <1>11, <2>1, CountedKeeps, CheckRightKeeps DEF S!ResetRetry, S!GainsAccess
<1>12. CASE S!Checked
  <2>1. ram'.status = ram.status /\ ram'.user = ram.user /\ UNCHANGED <<cache, flash, hist>>
    BY <1>0, <1>12 DEF S!Checked, Ram
  <2>2. "initialized" \in {op'.pc, op'.then} => "initialized" \in {op.pc, op.then}
    <3> DEFINE r == op.ref
               v == cache.pin[r].v
               oldSes == [ram EXCEPT !.ses[r] = [pin |-> v, kdf |-> "old"]]
               newSes == [ram EXCEPT !.ses[r] = [pin |-> v, kdf |-> "new"]]
               key == S!LoadedKey(cache, oldSes)
               todo == (IF cache.mkek[r].legacy THEN S!StoreMkek(oldSes.ses, key) ELSE <<>>)
                         \o S!StoreMkek(newSes.ses, key) \o <<S!Put("pin", r, [v |-> v, old |-> FALSE], TRUE)>>
    <3>1. \/ op' = [op EXCEPT !.pc = "granted"] \/ op' = S!Idle
          \/ op' = [op EXCEPT !.pc = "write", !.cmd = "upgrade", !.then = "granted", !.todo = todo]
      BY <1>12 DEF S!Checked
    <3> HIDE DEF todo
    <3>2. CASE op' = [op EXCEPT !.pc = "granted"] \/ op' = S!Idle
      BY <1>0, <3>2 DEF Ops, S!Idle
    <3>3. CASE op' = [op EXCEPT !.pc = "write", !.cmd = "upgrade", !.then = "granted", !.todo = todo]
      BY <1>0, <3>3 DEF Ops
    <3> QED BY <3>1, <3>2, <3>3
  <2> QED BY <2>1, <2>2 DEF Answered, QuorumSwitch, S!GainsAccess
<1>13. CASE S!Granted
  <2> DEFINE m == [ram EXCEPT !.user = ram.user \/ ~cache.pka]
  <2>1. m \in Ram /\ m.status = ram.status /\ m.ses = ram.ses
    <3>1. (ram.user \/ ~cache.pka) \in BOOLEAN
      BY <1>0 DEF Ram, Files
    <3> QED BY <1>0, <3>1 DEF Ram
  <2>2. ram' = [S!Updated(m) EXCEPT !.pending = FALSE] /\ UNCHANGED <<cache, flash, hist>>
    BY <1>13 DEF S!Granted
  <2> HIDE DEF m
  <2>3. S!Updated(m) \in Ram /\ S!Updated(m).status = ram.status
    BY <2>1, UpdatedTypes
  <2>4. ram'.status = ram.status /\ ram'.user = S!Updated(m).user
    BY <2>2, <2>3 DEF Ram
  <2>5. "initialized" \in {op'.pc, op'.then} => "initialized" \in {op.pc, op.then}
    BY <1>0, <1>13 DEF S!Granted, Ops, S!Idle
  <2>6. S!GainsAccess
    <3>1. CASE ~cache.pka
      BY <1>13, <3>1 DEF S!GainsAccess, S!Granted
    <3>2. CASE cache.pka
      <4>1. S!Updated(m).user = (S!QuorumMet(m) /\ (cache.combined => m.ses["user"] # None))
        BY <2>1, <3>2 DEF S!Updated, Ram
      <4>2. hist'.answered = m.status
        BY <2>1, <2>2 DEF Answered
      <4> QED BY <2>1, <2>4, <3>2, <4>1, <4>2 DEF S!GainsAccess, S!QuorumMet
    <3> QED BY <3>1, <3>2
  <2> QED BY <2>2, <2>4, <2>5, <2>6 DEF Answered, QuorumSwitch
<1>14. CASE S!Change
  <2>1. ram'.status = ram.status /\ ram'.user = ram.user /\ UNCHANGED <<cache, flash, hist>>
    BY <1>0, <1>14 DEF S!Change, Ram
  <2>2. op'.pc # "initialized" /\ op'.then # "initialized"
    <3> DEFINE ses == [ram.ses EXCEPT ![op.ref] = [pin |-> op.new, kdf |-> "new"]]
               todo == S!Rewrap(ses, op.ref, op.new, S!LoadedKey(cache, ram))
    <3>1. op' = S!Idle \/ op' = S!Run("change", todo, "idle")
      BY <1>14 DEF S!Change
    <3> HIDE DEF ses, todo
    <3>2. /\ S!Run("change", todo, "idle").pc \in {"idle", "write"} /\ S!Run("change", todo, "idle").then = "idle"
          /\ S!Idle.pc = "idle" /\ S!Idle.then = "idle"
      BY DEF S!Run, S!Idle
    <3> QED BY <3>1, <3>2
  <2> QED BY <2>1, <2>2 DEF Answered, QuorumSwitch, S!GainsAccess
<1>15. CASE S!Unblock
  <2>1. ram'.status = ram.status /\ ram'.user = ram.user /\ UNCHANGED <<cache, flash, hist>>
    BY <1>0, <1>15 DEF S!Unblock, Ram
  <2>2. op'.pc # "initialized" /\ op'.then # "initialized"
    BY <1>15 DEF S!Unblock, S!Run, S!Idle
  <2> QED BY <2>1, <2>2 DEF Answered, QuorumSwitch, S!GainsAccess
<1>16. ASSUME NEW new, S!ResetRetrySession(new) PROVE Answered' /\ QuorumSwitch' /\ S!GainsAccess
  <2>1. hist'.answered = hist.answered /\ hist'.host = hist.host /\ UNCHANGED <<cache, flash, ram>>
    BY <1>0, <1>16, CountedKeeps DEF S!ResetRetrySession
  <2>2. op'.pc # "initialized" /\ op'.then # "initialized"
    BY <1>16 DEF S!ResetRetrySession, S!Idle
  <2> QED BY <1>1, <2>1, <2>2
<1>17. ASSUME NEW v, NEW w, S!Initialize(v, w) PROVE Answered' /\ QuorumSwitch' /\ S!GainsAccess
  <2>1. hist.host # "quorum" /\ hist'.answered = {} /\ hist'.host = hist.host
    BY <1>0, <1>17 DEF S!Initialize, Histories
  <2>2. ram'.status = ram.status /\ ram'.user = ram.user /\ cache'.pka = cache.pka /\ UNCHANGED flash
    BY <1>0, <1>17 DEF S!Initialize, Ram, Files
  <2> QED BY <2>1, <2>2 DEF Answered, QuorumSwitch, S!GainsAccess
<1>18. CASE S!Initialized
  <2>1. hist.host # "quorum" /\ UNCHANGED <<flash, hist>>
    BY <1>18 DEF S!Initialized, QuorumSwitch
  <2>2. ram'.status = {} /\ cache'.pka = cache.pka /\ op'.pc = "idle" /\ op'.then = "idle"
    BY <1>0, <1>18 DEF S!Initialized, S!Idle, Ram, Files
  <2>3. S!GainsAccess
    BY <1>18, <2>1 DEF S!Initialized, S!GainsAccess, QuorumSwitch
  <2> QED BY <2>1, <2>2, <2>3 DEF Answered, QuorumSwitch
<1>19. ASSUME NEW p, S!MseSet(p) PROVE Answered' /\ QuorumSwitch' /\ S!GainsAccess
  <2>1. ram'.status = ram.status /\ ram'.user = ram.user /\ UNCHANGED <<cache, flash, op, hist>>
    BY <1>0, <1>19 DEF S!MseSet, Ram
  <2> QED BY <2>1 DEF Answered, QuorumSwitch, S!GainsAccess
<1>20. CASE S!GetChallenge
  <2>1. ram'.status = {} /\ ram'.user = ram.user /\ hist'.answered = {} /\ hist'.host = hist.host
    BY <1>0, <1>20 DEF S!GetChallenge, S!Challenged, Ram, Histories
  <2> QED BY <1>20, <2>1 DEF S!GetChallenge, Answered, QuorumSwitch, S!GainsAccess
<1>21. ASSUME NEW right \in BOOLEAN, S!ExternalAuthenticate(right)
       PROVE  Answered' /\ QuorumSwitch' /\ S!GainsAccess
  <2> DEFINE answered == [ram EXCEPT !.status = @ \cup {ram.aut}]
             left == IF S!QuorumMet(answered) THEN [answered EXCEPT !.chal = 0] ELSE answered
  <2>1. ram.aut \in Puks /\ hist.host = "quorum" /\ cache.pka /\ UNCHANGED <<cache, flash, op>>
    BY <1>0, <1>21 DEF S!ExternalAuthenticate, S!QuorumHost, Ram, QuorumSwitch
  <2>2. left \in Ram /\ left.status = ram.status \cup {ram.aut} /\ left.ses = ram.ses
    BY <1>0, <2>1 DEF Ram
  <2>3. ram' = IF right THEN S!Updated(left) ELSE [ram EXCEPT !.status = @ \ {ram.aut}]
    BY <1>21 DEF S!ExternalAuthenticate
  <2> HIDE DEF left
  <2>4. /\ hist'.answered = IF right THEN hist.answered \cup {ram.aut} ELSE hist.answered \ {ram.aut}
        /\ hist'.host = hist.host
    BY <1>0, <1>21 DEF S!ExternalAuthenticate, Histories
  <2>5. ram'.status = hist'.answered
    <3>1. S!Updated(left).status = left.status
      BY <2>2, UpdatedTypes
    <3> QED BY <1>0, <2>2, <2>3, <2>4, <3>1 DEF Ram, Answered
  <2>6. S!GainsAccess
    <3>1. CASE ~right
      BY <1>0, <2>3, <3>1 DEF Ram, S!GainsAccess
    <3>2. CASE right
      <4>1. ram'.user = (S!QuorumMet(left) /\ (cache.combined => left.ses["user"] # None))
        BY <2>1, <2>2, <2>3, <3>2 DEF S!Updated, Ram
      <4>2. hist'.answered = left.status
        BY <2>2, <2>4, <3>2 DEF Answered
      <4> QED BY <2>1, <2>2, <4>1, <4>2 DEF S!GainsAccess, S!QuorumMet
    <3> QED BY <3>1, <3>2
  <2> QED BY <2>1, <2>4, <2>5, <2>6 DEF Answered, QuorumSwitch
<1>22. ASSUME NEW p, S!PukAuth(p) PROVE Answered' /\ QuorumSwitch' /\ S!GainsAccess
  <2>1. op'.pc # "initialized" /\ op'.then # "initialized"
    BY <1>22 DEF S!PukAuth, S!Run, S!Idle
  <2> QED BY <1>0, <1>1, <1>22, <2>1, CountedKeeps DEF S!PukAuth
<1>13a. S!Kcv.pc # "initialized" /\ S!Kcv.then # "initialized"
  BY DEF S!Kcv, S!Run, S!Idle
<1>24. CASE S!DomainKcv
  <2>1. cache'.pka = cache.pka
    BY <1>0, <1>24 DEF S!DomainKcv, Files
  <2> QED BY <1>1, <1>13a, <1>24, <2>1 DEF S!DomainKcv
<1>25. CASE S!DomainQuery
  BY <1>1, <1>13a, <1>25 DEF S!DomainQuery
<1>26. ASSUME NEW s, S!ImportShare(s) PROVE Answered' /\ QuorumSwitch' /\ S!GainsAccess
  <2>1. ram'.status = ram.status /\ ram'.user = ram.user /\ UNCHANGED <<cache, flash>>
    BY <1>0, <1>26 DEF S!ImportShare, Ram
  <2>2. op'.pc # "initialized" /\ op'.then # "initialized"
    BY <1>26 DEF S!ImportShare, S!Run, S!Idle
  <2>3. hist'.answered = hist.answered /\ hist'.host = hist.host
    BY <1>0, <1>26, CountedKeeps DEF S!ImportShare
  <2> QED BY <2>1, <2>2, <2>3 DEF Answered, QuorumSwitch, S!GainsAccess
<1>27. ASSUME NEW name, NEW need, NEW have, S!DomainChange(name, need, have)
       PROVE  Answered' /\ QuorumSwitch' /\ S!GainsAccess
  <2>1. cache'.pka = cache.pka /\ UNCHANGED <<flash, ram>>
    BY <1>0, <1>27 DEF S!DomainChange, Files
  <2>2. op'.pc # "initialized" /\ op'.then # "initialized"
    BY <1>27 DEF S!DomainChange, S!Run, S!Idle
  <2> QED BY <1>0, <1>1, <1>27, <2>1, <2>2, CountedKeeps DEF S!DomainChange
<1>28. ASSUME NEW on, S!SecureLock(on) PROVE Answered' /\ QuorumSwitch' /\ S!GainsAccess
  <2>1. op'.pc # "initialized" /\ op'.then # "initialized"
    BY <1>28 DEF S!SecureLock, S!Run, S!Idle
  <2> QED BY <1>0, <1>1, <1>28, <2>1, CountedKeeps DEF S!SecureLock
<1>29. CASE S!GiveMask
  <2>1. ram'.status = ram.status /\ ram'.user = ram.user /\ UNCHANGED <<cache, flash, op, hist>>
    BY <1>0, <1>29 DEF S!GiveMask, Ram
  <2> QED BY <2>1 DEF Answered, QuorumSwitch, S!GainsAccess
<1> QED BY <1>3, <1>4, <1>5, <1>6, <1>7, <1>8, <1>9, <1>10, <1>11, <1>12, <1>13, <1>14, <1>15, <1>16, <1>17,
           <1>18, <1>19, <1>20, <1>21, <1>22, <1>24, <1>25, <1>26, <1>27, <1>28, <1>29
        DEF S!Next, S!DomainSetup, S!DomainDelete, S!DomainReset

\* The same when the card starts
LEMMA AccessInit == S!Init => Answered /\ QuorumSwitch
<1> SUFFICES ASSUME S!Init PROVE Answered /\ QuorumSwitch
  OBVIOUS
<1> DEFINE p0 == CHOOSE p \in Pins : TRUE
<1>1. PICK h \in {"pins", "quorum", "domain"}, old \in BOOLEAN, c \in BOOLEAN : FirstCard(p0, h, old, c)
  BY FirstCards DEF p0
<1> HIDE DEF p0
<1>2. cache.pka <=> h = "quorum"
  BY <1>1 DEF FirstCard, S!CardOf
<1> QED BY <1>1, <1>2 DEF FirstCard, S!Init, S!Booted, S!Idle, Answered, QuorumSwitch

\* The types and where access comes from, on every behaviour of MCHsm that is one of HsmSession:
\* the parts of the card keep their shape whatever is lost, torn or written late.
SessionInv == part = "session" => AccessInv
THEOREM SessionInvariant == Spec => []SessionInv
<1>1. Init => SessionInv
  BY SessionTypesInit, AccessInit DEF Init, SessionInv, AccessInv
<1>2. SessionInv /\ [Next]_vars => SessionInv'
  <2> SUFFICES ASSUME SessionInv, [Next]_vars, part' = "session" PROVE AccessInv'
    BY DEF SessionInv
  <2>1. CASE Next
    <3>1. part = "session" /\ S!Next
      BY <2>1 DEF Next
    <3> QED BY <3>1, SessionTypesNext, AccessNext DEF SessionInv, AccessInv
  <2>2. CASE UNCHANGED vars
    <3>1. AccessInv /\ UNCHANGED <<cache, flash, ram, op, hist>>
      BY <2>2 DEF vars, SessionInv
    <3> QED BY <3>1 DEF AccessInv, SessionTypes, Answered, QuorumSwitch
  <2> QED BY <2>1, <2>2
<1> QED BY <1>1, <1>2, PTL DEF Spec

\* isUserAuthenticated is gained by the right PIN, by INITIALIZE, or by a quorum of keys that
\* answered the latest challenge and, where both are asked for, the user PIN (hsm_update_user_auth),
\* for any number of keys, references, challenges and mishaps.
THEOREM AccessEarned == Spec => AccessIsEarned
<1>1. SessionInv /\ [Next]_vars => [part = "session" => S!GainsAccess]_vars
  <2> SUFFICES ASSUME SessionInv, Next, part = "session" PROVE S!GainsAccess
    BY DEF vars
  <2> QED BY AccessNext DEF SessionInv, Next
<1> QED BY <1>1, SessionInvariant, PTL DEF Spec, AccessIsEarned

-----------------------------------------------------------------------------
(* HsmKeys: types *)

Metas == [count : {None} \cup Nat, algos : {None} \cup SUBSET K!Algos, dom : {0, None}]
KeyFiles == [key : [K!Slots -> Nat], meta : [K!Slots -> Metas], prkd : SUBSET K!Slots, cert : SUBSET K!Slots,
             seed : BOOLEAN, dkek : Nat]
KeyRam == [user : BOOLEAN, hd : {"ec", "sym", None}]
Blobs == [key : Nat, algos : {None} \cup SUBSET K!Algos, dkek : Nat]

KeyWrites ==
    [f : {"key"}, at : K!Slots, v : Nat] \cup [f : {"meta"}, at : K!Slots, v : Metas]
    \cup [f : {"container"}, at : Containers, v : Nat] \cup [f : {"no container"}, at : Containers, v : {None}]
    \cup [f : {"prkd", "cert"}, at : K!Slots, v : BOOLEAN]
    \cup [f : {"dkek"}, at : {None}, v : Nat] \cup [f : {"seed"}, at : {None}, v : BOOLEAN]

Stores == {"keygen", "keypair", "unwrap", "derive"}     \* commands that store a key
Erases == {"delete", "rollback"}                        \* commands that erase one
KeyOps == [pc : {"idle", "write"}, cmd : K!Commands \cup {None},
           todo : Seq(KeyWrites), slot : K!Slots \cup {None}, key : Nat, source : K!Slots \cup {None}]
KeyHistories == [host : {"keys", "hd", "files"}, keys : Nat, filed : SUBSET Nat, made : [K!Keys -> Metas],
                 uses : [K!Keys -> Nat], origin : [K!Keys -> Nat], blobs : SUBSET Blobs, exempt : SUBSET Nat, part : SUBSET Nat,
                 used : Nat, mishaps : Nat, cmds : Nat, dkeks : Nat, stray : BOOLEAN]

KeyShaped(o) ==
    /\ o.pc = "write" <=> o.todo # <<>>
    /\ o.pc = "idle" => o = K!Idle
    /\ o.cmd \in Stores \cup Erases => o.slot \in K!Slots

Has(q, F) == \E i \in 1 .. Len(q) : q[i].f \in F
\* While DERIVE stores the new key, the counter it has to write is the one it has found.
Sourced(c, o) ==
    o.source # None =>
        /\ o.cmd = "derive" /\ c.meta[o.source].count \in Nat \ {0}
        /\ ~Has(o.todo, {"meta", "no container"})

KeyTypes ==
    /\ cache \in KeyFiles /\ flash \in KeyFiles
    /\ ram \in KeyRam /\ op \in KeyOps /\ hist \in KeyHistories
    /\ KeyShaped(op) /\ Sourced(cache, op)

-----------------------------------------------------------------------------
(* HsmKeys: what a key's metadata says *)

\* The keys a use counter still bounds
Bounded(h, k) == k \in K!Keys /\ h.made[k].count # None /\ k \notin {b.key : b \in h.blobs} \cup h.exempt \cup h.filed

\* Metadata that allows no more than the key was made for, and whose counter leaves no more uses
\* than are left to it; x: a use whose counter is still to be written
Covers(h, k, algos) == \A a \in K!Algos : (algos # None => a \in algos) => K!Allows(h.made[k], a)
Fits(h, k, m, x) ==
    /\ Covers(h, k, m.algos)
    /\ Bounded(h, k) => m.count \in Nat /\ h.uses[k] + m.count <= h.made[k].count + h.mishaps + x

Waits(o, s) == (o.cmd = "use" /\ s = o.todo[1].at) \/ (o.source # None /\ s = o.source)
Pending(o, s) == IF Waits(o, s) THEN 1 ELSE 0

\* Each reference holds no key, one that is exempt, one whose metadata fits, or the one a command is at.
Kept(c, o, h) ==
    \A s \in K!Slots :
        LET k == c.key[s] IN
        k # 0 => \/ k \in h.exempt \/ Fits(h, k, c.meta[s], Pending(o, s))
                 \/ s = o.slot /\ k \in K!Busy(c, o)
\* So it is for the files a power loss leaves, where a command was at the keys in part.
Left(f, o, h) ==
    \A s \in K!Slots :
        LET k == f.key[s] IN
        k # 0 => k \in h.exempt \cup h.part \/ Fits(h, k, f.meta[s], Pending(o, s))
\* Containers are written at once; a key whose uses are bounded is in one of them, and in no other.
Placed(c, f, h) ==
    /\ \A s \in Containers : f.key[s] = c.key[s] /\ f.meta[s] = c.meta[s]
    /\ \A s \in K!Slots : Bounded(h, c.key[s]) => s \in Containers /\ \A t \in K!Slots : c.key[t] = c.key[s] => t = s
    /\ \A s \in K!Slots : Bounded(h, f.key[s]) => s \in Containers
\* Keys are numbered as they are drawn, and the ones still to be drawn are nowhere.
Drawn(c, f, o, h) ==
    /\ h.keys <= MaxKeys
    /\ \A s \in K!Slots : c.key[s] <= h.keys /\ f.key[s] <= h.keys
    /\ \A b \in h.blobs : 0 < b.key /\ b.key <= h.keys /\ (b.key \in h.exempt \/ Covers(h, b.key, b.algos))
    /\ \A k \in K!Keys : h.keys < k => h.uses[k] = 0
    /\ o.key <= h.keys /\ \A k \in h.exempt \cup h.part \cup h.filed : k <= h.keys
    /\ \A k \in K!Keys : Bounded(h, k) => h.uses[k] <= h.made[k].count + h.mishaps /\ h.made[k].count \in Nat

KeyFile == {"key", "container", "no container"}

\* A command that stores a key writes the key first, and then metadata that fits it.
Storing(c, o, h) ==
    o.cmd \in Stores =>
        /\ o.key \in 1 .. h.keys /\ (o.cmd = "derive" => h.made[o.key] = K!NoMeta)
        /\ Bounded(h, o.key) => o.slot \in Containers /\ \A s \in K!Slots : c.key[s] = o.key => s = o.slot
        /\ \A i \in 1 .. Len(o.todo) :
              LET w == o.todo[i] IN
              /\ w.at = o.slot /\ w.f \in {"key", "container", "meta", "prkd", "cert"}
              /\ w.f = "key" => w.v = o.key /\ o.slot \notin Containers
              /\ w.f = "container" => w.v = o.key
              /\ w.f = "meta" => o.key \in h.exempt \/ Fits(h, o.key, w.v, 0)
              /\ w.f \in KeyFile => i = 1
        /\ Has(o.todo, KeyFile) \/ c.key[o.slot] = o.key
        /\ Has(o.todo, {"meta"}) \/ h.made[o.key] = K!NoMeta \/ o.key \in h.exempt \/ Fits(h, o.key, c.meta[o.slot], 0)

\* A command that erases a key leaves none, and is at the key of a file from the start.
Erasing(c, o, h) ==
    o.cmd \in Erases =>
        /\ \A i \in 1 .. Len(o.todo) :
              LET w == o.todo[i] IN
              /\ w.at = o.slot /\ w.f \in {"key", "no container", "meta", "prkd"}
              /\ w.f = "key" => w.v = 0
              /\ w.f \in {"key", "meta"} => o.slot \notin Containers
        /\ Has(o.todo, KeyFile) \/ c.key[o.slot] = 0
        /\ o.cmd = "delete" /\ o.slot \notin Containers => c.key[o.slot] \in {0, o.key}

\* The counter that a use leaves to be written; the other commands touch neither keys nor metadata.
Using(c, o) ==
    /\ o.cmd = "use" =>
          /\ Len(o.todo) = 1 /\ o.todo[1].f = "meta"
          /\ c.meta[o.todo[1].at].count \in Nat \ {0}
          /\ o.todo[1].v = K!Spent(c.meta[o.todo[1].at])
    /\ o.cmd \in {"sidecar", "domain", "seed", None} => ~Has(o.todo, KeyFile \cup {"meta"})
    /\ o.cmd \notin Stores \cup Erases => o.key = 0

KeyInv ==
    /\ KeyTypes
    /\ Kept(cache, op, hist) /\ Left(flash, op, hist) /\ Placed(cache, flash, hist)
    /\ Drawn(cache, flash, op, hist)
    /\ Storing(cache, op, hist) /\ Erasing(cache, op, hist) /\ Using(cache, op)

-----------------------------------------------------------------------------
(* HsmKeys: the types are kept *)

LEMMA KeyNumbers ==
    /\ MaxKeys \in Nat /\ None \notin K!Slots /\ None \notin Nat /\ None \notin K!Commands /\ K!NoMeta \in Metas
    /\ Containers \subseteq K!Slots /\ Legacies \subseteq K!Slots
    /\ K!Keys = 1 .. MaxKeys /\ \A t \in K!Templates : t \in Metas
BY KeyConstants DEF K!ConstantTypes, K!NoMeta, K!Meta, Metas, K!Slots, K!Keys, K!Templates, K!Algos

\* Lists of writes one after the other
Joined(E, a, b, c, q) ==
    /\ q \in Seq(E) /\ Len(q) = Len(a) + Len(b) + Len(c)
    /\ \A i \in 1 .. Len(a) : q[i] = a[i]
    /\ \A j \in 1 .. Len(b) : q[Len(a) + j] = b[j]
    /\ \A j \in 1 .. Len(c) : q[Len(a) + Len(b) + j] = c[j]
    /\ \A i \in 1 .. Len(q) :
          \/ i \in 1 .. Len(a) /\ q[i] = a[i]
          \/ i - Len(a) \in 1 .. Len(b) /\ q[i] = b[i - Len(a)]
          \/ i - Len(a) - Len(b) \in 1 .. Len(c) /\ q[i] = c[i - Len(a) - Len(b)]

LEMMA ThreeParts ==
    ASSUME NEW E, NEW a \in Seq(E), NEW b \in Seq(E), NEW c \in Seq(E)
    PROVE  Joined(E, a, b, c, a \o b \o c)
<1>1. /\ a \o b \in Seq(E) /\ Len(a \o b) = Len(a) + Len(b) /\ Len(a) \in Nat /\ Len(b) \in Nat /\ Len(c) \in Nat
      /\ \A i \in 1 .. Len(a) + Len(b) : (a \o b)[i] = IF i <= Len(a) THEN a[i] ELSE b[i - Len(a)]
  BY ConcatProperties, LenProperties
<1> DEFINE ab == a \o b
<1>2. ab \in Seq(E) /\ Len(ab) = Len(a) + Len(b)
  BY <1>1
<1>3. \A i \in 1 .. Len(a) + Len(b) : ab[i] = IF i <= Len(a) THEN a[i] ELSE b[i - Len(a)]
  BY <1>1
<1> HIDE DEF ab
<1>4. /\ ab \o c \in Seq(E) /\ Len(ab \o c) = Len(ab) + Len(c)
      /\ \A i \in 1 .. Len(ab) + Len(c) : (ab \o c)[i] = IF i <= Len(ab) THEN ab[i] ELSE c[i - Len(ab)]
  <2>1. ab \in Seq(E) /\ c \in Seq(E)
    BY <1>2
  <2> QED BY <2>1, ConcatProperties
<1>5. a \o b \o c = ab \o c
  BY DEF ab
<1> DEFINE q == ab \o c
<1>6. q \in Seq(E) /\ Len(q) = Len(a) + Len(b) + Len(c)
  BY <1>2, <1>4
<1>7. \A i \in 1 .. Len(ab) + Len(c) : q[i] = IF i <= Len(ab) THEN ab[i] ELSE c[i - Len(ab)]
  BY <1>4
<1> HIDE DEF q
<1>8. \A i \in 1 .. Len(a) : q[i] = a[i]
  <2> SUFFICES ASSUME NEW i \in 1 .. Len(a) PROVE q[i] = a[i]
    OBVIOUS
  <2>1. i \in 1 .. Len(ab) + Len(c) /\ i <= Len(ab) /\ i \in 1 .. Len(a) + Len(b) /\ i <= Len(a)
    BY <1>1, <1>2
  <2> QED BY <1>3, <1>7, <2>1
<1>9. \A j \in 1 .. Len(b) : q[Len(a) + j] = b[j]
  <2> SUFFICES ASSUME NEW j \in 1 .. Len(b) PROVE q[Len(a) + j] = b[j]
    OBVIOUS
  <2> DEFINE i == Len(a) + j
  <2>1. /\ i \in 1 .. Len(a) + Len(b) /\ ~(i <= Len(a)) /\ i - Len(a) = j
        /\ i \in 1 .. Len(a) + Len(b) + Len(c) /\ i <= Len(a) + Len(b)
    BY <1>1
  <2> HIDE DEF i
  <2>2. i \in 1 .. Len(ab) + Len(c) /\ i <= Len(ab)
    BY <1>2, <2>1
  <2>3. q[i] = ab[i]
    BY <1>7, <2>2
  <2>4. ab[i] = b[i - Len(a)]
    BY <1>3, <2>1
  <2> QED BY <2>1, <2>3, <2>4 DEF i
<1>10. \A j \in 1 .. Len(c) : q[Len(a) + Len(b) + j] = c[j]
  <2> SUFFICES ASSUME NEW j \in 1 .. Len(c) PROVE q[Len(a) + Len(b) + j] = c[j]
    OBVIOUS
  <2> DEFINE i == Len(ab) + j
  <2>1. i \in 1 .. Len(ab) + Len(c) /\ ~(i <= Len(ab)) /\ i - Len(ab) = j /\ i = Len(a) + Len(b) + j
    BY <1>1, <1>2
  <2> HIDE DEF i
  <2> QED BY <1>7, <2>1
<1>11. ASSUME NEW i \in 1 .. Len(q)
       PROVE  \/ i \in 1 .. Len(a) /\ q[i] = a[i]
              \/ i - Len(a) \in 1 .. Len(b) /\ q[i] = b[i - Len(a)]
              \/ i - Len(a) - Len(b) \in 1 .. Len(c) /\ q[i] = c[i - Len(a) - Len(b)]
  <2>1. CASE i <= Len(a)
    BY <1>1, <1>6, <1>8, <2>1
  <2>2. CASE i > Len(a) /\ i <= Len(a) + Len(b)
    <3>1. i - Len(a) \in 1 .. Len(b) /\ Len(a) + (i - Len(a)) = i
      BY <1>1, <1>6, <2>2
    <3> QED BY <1>9, <3>1
  <2>3. CASE i > Len(a) + Len(b)
    <3>1. i - Len(a) - Len(b) \in 1 .. Len(c) /\ Len(a) + Len(b) + (i - Len(a) - Len(b)) = i
      BY <1>1, <1>6, <2>3
    <3> QED BY <1>10, <3>1
  <2> QED BY <1>1, <1>6, <2>1, <2>2, <2>3
<1>12. Joined(E, a, b, c, q)
  BY <1>6, <1>8, <1>9, <1>10, <1>11 DEF Joined
<1> QED BY <1>5, <1>12 DEF q

\* What a write changes
LEMMA KeyApplied ==
    ASSUME NEW c \in KeyFiles, NEW w \in KeyWrites
    PROVE  /\ K!Applied(c, w) \in KeyFiles
           /\ w.f \in {"key", "container"} =>
                 /\ K!Applied(c, w).meta = c.meta
                 /\ w.at \in K!Slots /\ w.v \in Nat /\ K!Applied(c, w).key = [c.key EXCEPT ![w.at] = w.v]
           /\ w.f = "meta" =>
                 /\ K!Applied(c, w).key = c.key
                 /\ w.at \in K!Slots /\ w.v \in Metas /\ K!Applied(c, w).meta = [c.meta EXCEPT ![w.at] = w.v]
           /\ w.f = "no container" =>
                 /\ w.at \in K!Slots /\ K!Applied(c, w).key = [c.key EXCEPT ![w.at] = 0]
                 /\ K!Applied(c, w).meta = [c.meta EXCEPT ![w.at] = K!NoMeta]
           /\ w.f \notin KeyFile \cup {"meta"} => K!Applied(c, w).key = c.key /\ K!Applied(c, w).meta = c.meta
<1> USE KeyNumbers DEF K!Applied, KeyFile
<1>1. CASE w \in [f : {"key"}, at : K!Slots, v : Nat]
  BY <1>1 DEF KeyFiles
<1>2. CASE w \in [f : {"meta"}, at : K!Slots, v : Metas]
  BY <1>2 DEF KeyFiles
<1>3. CASE w \in [f : {"container"}, at : Containers, v : Nat]
  BY <1>3 DEF KeyFiles
<1>4. CASE w \in [f : {"no container"}, at : Containers, v : {None}]
  BY <1>4 DEF KeyFiles
<1>5. CASE w \in [f : {"prkd", "cert"}, at : K!Slots, v : BOOLEAN]
  BY <1>5 DEF KeyFiles
<1>6. CASE w \in [f : {"dkek"}, at : {None}, v : Nat]
  BY <1>6 DEF KeyFiles
<1>7. CASE w \in [f : {"seed"}, at : {None}, v : BOOLEAN]
  BY <1>7 DEF KeyFiles
<1> QED BY <1>1, <1>2, <1>3, <1>4, <1>5, <1>6, <1>7 DEF KeyWrites

\* Single writes
LEMMA KeyPutTypes ==
    /\ \A s \in K!Slots :
          /\ \A k \in Nat : K!Put("key", s, k) \in KeyWrites
          /\ \A m \in Metas : K!Put("meta", s, m) \in KeyWrites
          /\ \A b \in BOOLEAN : K!Put("prkd", s, b) \in KeyWrites /\ K!Put("cert", s, b) \in KeyWrites
    /\ \A s \in Containers : K!Put("no container", s, None) \in KeyWrites
                             /\ \A k \in Nat : K!Put("container", s, k) \in KeyWrites
    /\ \A k \in Nat : K!Put("dkek", None, k) \in KeyWrites
    /\ K!Put("seed", None, TRUE) \in KeyWrites
BY DEF K!Put, KeyWrites

\* What storing and erasing a key write
LEMMA StoreKeysTypes ==
    ASSUME NEW s \in K!Slots, NEW k \in Nat
    PROVE  LET q == K!StoreKeys(s, k) IN
           /\ q \in Seq(KeyWrites) /\ Len(q) \in {1, 2}
           /\ q[1] = K!Put(IF s \in Containers THEN "container" ELSE "key", s, k)
           /\ Len(q) = 2 => q[2] = K!Put("prkd", s, TRUE)
<1> DEFINE C == K!Put("container", s, k)
           F == K!Put("key", s, k)
           P == K!Put("prkd", s, TRUE)
<1>1. F \in KeyWrites /\ P \in KeyWrites /\ (s \in Containers => C \in KeyWrites)
  BY KeyPutTypes
<1>2. K!StoreKeys(s, k) = IF s \in Containers THEN <<C>> ELSE <<F, P>>
  BY DEF K!StoreKeys
<1>3. K!Put(IF s \in Containers THEN "container" ELSE "key", s, k) = IF s \in Containers THEN C ELSE F
  OBVIOUS
<1> HIDE DEF C, F
<1>4. CASE s \in Containers
  BY <1>1, <1>2, <1>3, <1>4
<1>5. CASE s \notin Containers
  <2> HIDE DEF P
  <2>1. <<F, P>> \in Seq(KeyWrites) /\ Len(<<F, P>>) = 2 /\ <<F, P>>[1] = F /\ <<F, P>>[2] = P
    BY <1>1
  <2>2. K!StoreKeys(s, k) = <<F, P>>
    BY <1>2, <1>5
  <2> QED BY <1>3, <1>5, <2>1, <2>2 DEF P
<1> QED BY <1>4, <1>5

LEMMA DeleteTypes ==
    ASSUME NEW s \in K!Slots
    PROVE  /\ K!DeleteWrites(s) \in Seq(KeyWrites) /\ Len(K!DeleteWrites(s)) \in {1, 2}
           /\ s \in Containers => K!DeleteWrites(s) = <<K!Put("no container", s, None)>>
           /\ s \notin Containers => K!DeleteWrites(s) = <<K!Put("meta", s, K!NoMeta), K!Put("key", s, 0)>>
<1> DEFINE C == K!Put("no container", s, None)
           F == K!Put("key", s, 0)
           M == K!Put("meta", s, K!NoMeta)
<1>1. F \in KeyWrites /\ M \in KeyWrites /\ (s \in Containers => C \in KeyWrites)
  BY KeyPutTypes, KeyNumbers
<1>2. K!DeleteWrites(s) = IF s \in Containers THEN <<C>> ELSE <<M, F>>
  BY DEF K!DeleteWrites
<1> HIDE DEF C, F, M
<1>3. (s \in Containers => <<C>> \in Seq(KeyWrites)) /\ <<M, F>> \in Seq(KeyWrites)
  BY <1>1
<1>4. K!DeleteWrites(s) \in Seq(KeyWrites) /\ Len(K!DeleteWrites(s)) \in {1, 2}
  BY <1>2, <1>3
<1>5. /\ s \in Containers => K!DeleteWrites(s) = <<C>>
      /\ s \notin Containers => K!DeleteWrites(s) = <<M, F>>
  BY <1>2
<1> QED BY <1>4, <1>5 DEF C, F, M

\* A handler goes on with the next write, or is done.
LEMMA KeyRest ==
    ASSUME KeyTypes, op.pc = "write"
    PROVE  /\ Head(op.todo) \in KeyWrites /\ Head(op.todo) = op.todo[1] /\ Len(op.todo) \in Nat \ {0}
           /\ Tail(op.todo) \in Seq(KeyWrites) /\ Len(Tail(op.todo)) = Len(op.todo) - 1
           /\ \A i \in 1 .. Len(Tail(op.todo)) : Tail(op.todo)[i] = op.todo[i + 1]
           /\ Len(op.todo) > 1 => /\ K!Rest = [op EXCEPT !.todo = Tail(op.todo)] /\ Tail(op.todo) # <<>>
           /\ Len(op.todo) <= 1 => /\ K!Rest = IF op.source # None THEN K!Count(op.source) ELSE K!Idle
                                  /\ Tail(op.todo) = <<>>
<1>1. op.todo \in Seq(KeyWrites) /\ op.todo # <<>>
  BY DEF KeyTypes, KeyShaped, KeyOps
<1>2. /\ Tail(op.todo) \in Seq(KeyWrites) /\ Len(op.todo) \in Nat \ {0} /\ Len(Tail(op.todo)) = Len(op.todo) - 1
      /\ \A i \in 1 .. Len(op.todo) - 1 : Tail(op.todo)[i] = op.todo[i + 1]
      /\ Head(op.todo) = op.todo[1] /\ Head(op.todo) \in KeyWrites
      /\ Len(op.todo) > 1 <=> Tail(op.todo) # <<>>
  BY <1>1, RestOf
<1> QED BY <1>2 DEF K!Rest

\* No handler is in progress.
LEMMA KeyIdle == K!Idle \in KeyOps /\ KeyShaped(K!Idle) /\ K!Idle.pc = "idle" /\ K!Idle.todo = <<>> /\ K!Idle.cmd = None
                 /\ K!Idle.slot = None /\ K!Idle.key = 0 /\ K!Idle.source = None
BY KeyNumbers DEF K!Idle, KeyOps, KeyShaped, Stores, Erases, K!Commands

\* A handler that writes a use counter
LEMMA KeyCount ==
    ASSUME NEW s \in K!Slots, cache \in KeyFiles, cache.meta[s].count \in Nat \ {0}
    PROVE  LET o == K!Count(s)
               w == K!Put("meta", s, K!Spent(cache.meta[s]))
           IN  /\ o \in KeyOps /\ KeyShaped(o) /\ o.pc = "write" /\ o.cmd = "use" /\ o.slot = None /\ o.key = 0
               /\ o.source = None /\ Len(o.todo) = 1 /\ o.todo[1] = w
               /\ w \in KeyWrites /\ w.f = "meta" /\ w.at = s /\ w.v = K!Spent(cache.meta[s])
<1> DEFINE P == K!Put("meta", s, K!Spent(cache.meta[s]))
           o == K!Count(s)
<1>1. K!Spent(cache.meta[s]) \in Metas
  <2>1. cache.meta[s] \in Metas /\ cache.meta[s].count - 1 \in Nat
    BY DEF KeyFiles
  <2> QED BY <2>1 DEF K!Spent, Metas
<1>2. P \in KeyWrites /\ P.f = "meta" /\ P.at = s /\ P.v = K!Spent(cache.meta[s])
  BY <1>1, KeyPutTypes DEF K!Put
<1>3. o = [K!Idle EXCEPT !.pc = "write", !.cmd = "use", !.todo = <<P>>]
  BY DEF K!Count
<1> HIDE DEF P, o
<1>4. <<P>> \in Seq(KeyWrites) /\ <<P>> # <<>> /\ Len(<<P>>) = 1 /\ <<P>>[1] = P
  BY <1>2
<1>5. /\ o.pc = "write" /\ o.cmd = "use" /\ o.slot = None /\ o.key = 0 /\ o.source = None /\ o.todo = <<P>>
      /\ o \in KeyOps
  BY <1>3, <1>4, KeyIdle DEF K!Idle, KeyOps, K!Commands
<1>6. KeyShaped(o)
  BY <1>4, <1>5 DEF KeyShaped, Stores, Erases
<1> QED BY <1>2, <1>4, <1>5, <1>6 DEF P, o

\* The writes of GENERATE and of an unwrapped key
LEMMA GenerateTypes ==
    ASSUME NEW s \in K!Slots, NEW k \in Nat, NEW m \in Seq(KeyWrites), NEW c \in Seq(KeyWrites)
    PROVE  K!StoreKeys(s, k) \o m \o c \in Seq(KeyWrites) /\ K!StoreKeys(s, k) \o m \o c # <<>>
<1> DEFINE a == K!StoreKeys(s, k)
<1>1. a \in Seq(KeyWrites) /\ Len(a) \in {1, 2}
  BY StoreKeysTypes
<1> HIDE DEF a
<1> DEFINE q == a \o m \o c
<1>2. Joined(KeyWrites, a, m, c, q) /\ Len(m) \in Nat /\ Len(c) \in Nat
  BY <1>1, ThreeParts, LenProperties
<1> HIDE DEF q
<1>3. q \in Seq(KeyWrites) /\ Len(q) > 0
  <2>1. q \in Seq(KeyWrites) /\ Len(q) = Len(a) + Len(m) + Len(c)
    BY <1>2, Zenon DEF Joined
  <2> DEFINE la == Len(a)
             lm == Len(m)
             lc == Len(c)
  <2>2. la \in {1, 2} /\ lm \in Nat /\ lc \in Nat
    BY <1>1, <1>2, Zenon
  <2> HIDE DEF la, lm, lc
  <2>3. la + lm + lc > 0
    BY <2>2
  <2> QED BY <2>1, <2>3 DEF la, lm, lc
<1>4. q # <<>>
  BY <1>3
<1> QED BY <1>3, <1>4 DEF a, q

LEMMA KeyTypesInit == K!Init => KeyTypes
<1> SUFFICES ASSUME K!Init PROVE KeyTypes
  OBVIOUS
<1>1. K!NoFiles \in KeyFiles
  BY KeyNumbers DEF K!NoFiles, KeyFiles
<1>2. [user |-> FALSE, hd |-> None] \in KeyRam
  BY DEF KeyRam
<1>3. PICK h \in {"keys", "hd", "files"} :
         hist = [host |-> h, keys |-> 0, filed |-> {}, made |-> [k \in K!Keys |-> K!NoMeta],
                 uses |-> [k \in K!Keys |-> 0], origin |-> [k \in K!Keys |-> 0], blobs |-> {}, exempt |-> {},
                 part |-> {}, used |-> 0, mishaps |-> 0, cmds |-> 0, dkeks |-> 1, stray |-> FALSE]
  BY DEF K!Init
<1>4. hist \in KeyHistories
  BY <1>3, KeyNumbers DEF KeyHistories
<1>5. Sourced(cache, op)
  BY KeyIdle DEF K!Init, Sourced
<1> QED BY <1>1, <1>2, <1>4, <1>5, KeyIdle DEF K!Init, KeyTypes

\* Every step keeps the types.
LEMMA KeyTypesNext == KeyTypes /\ K!Next => KeyTypes'
<1> SUFFICES ASSUME KeyTypes, K!Next PROVE KeyTypes'
  OBVIOUS
<1>0. /\ cache \in KeyFiles /\ flash \in KeyFiles /\ ram \in KeyRam /\ op \in KeyOps /\ hist \in KeyHistories
      /\ KeyShaped(op) /\ Sourced(cache, op)
      /\ op'.source = None => Sourced(cache', op')
      /\ op' = op /\ cache' = cache => Sourced(cache', op')
  BY DEF KeyTypes, Sourced
<1>1. ASSUME NEW c \in KeyFiles, NEW o \in KeyOps, KeyShaped(o) PROVE K!Busy(c, o) \in SUBSET Nat
  BY <1>1 DEF K!Busy, KeyFiles, KeyOps, KeyShaped, Erases
<1>2. /\ hist.mishaps + 1 \in Nat /\ hist.cmds + 1 \in Nat /\ hist.keys + 1 \in Nat /\ hist.used + 1 \in Nat
      /\ hist.dkeks + 1 \in Nat
      /\ K!Counted \in KeyHistories
  BY <1>0 DEF KeyHistories, K!Counted
<1>3. CASE K!Write
  <2> DEFINE w == op.todo[1]
             q == Tail(op.todo)
  <2>0. /\ op.pc = "write" /\ w \in KeyWrites /\ Len(op.todo) \in Nat \ {0} /\ q \in Seq(KeyWrites)
        /\ Len(q) = Len(op.todo) - 1 /\ \A i \in 1 .. Len(q) : q[i] = op.todo[i + 1]
        /\ cache' = K!Applied(cache, w)
        /\ Len(op.todo) > 1 => K!Rest = [op EXCEPT !.todo = q] /\ q # <<>>
        /\ Len(op.todo) <= 1 => K!Rest = IF op.source # None THEN K!Count(op.source) ELSE K!Idle
    BY <1>0, <1>3, KeyRest DEF K!Write
  <2> HIDE DEF w, q
  <2>1. K!Rest \in KeyOps /\ KeyShaped(K!Rest) /\ Sourced(cache', K!Rest)
    <3>1. CASE Len(op.todo) > 1
      <4> DEFINE o == [op EXCEPT !.todo = q]
      <4>1. o \in KeyOps /\ KeyShaped(o) /\ o.source = op.source /\ o.cmd = op.cmd /\ o.todo = q
        BY <1>0, <2>0, <3>1 DEF KeyOps, KeyShaped
      <4> HIDE DEF o
      <4>2. Sourced(cache', o)
        <5> SUFFICES ASSUME op.source # None
                     PROVE  /\ op.cmd = "derive" /\ cache'.meta[op.source].count \in Nat \ {0}
                            /\ ~Has(q, {"meta", "no container"})
          BY <4>1 DEF Sourced
        <5>1. /\ op.cmd = "derive" /\ cache.meta[op.source].count \in Nat \ {0}
              /\ \A i \in 1 .. Len(op.todo) : op.todo[i].f \notin {"meta", "no container"}
          BY <1>0 DEF Sourced, Has
        <5>2. w.f \notin {"meta", "no container"}
          <6>1. 1 \in 1 .. Len(op.todo)
            BY <2>0
          <6> QED BY <5>1, <6>1 DEF w
        <5>3. cache'.meta = cache.meta
          BY <1>0, <2>0, <5>2, KeyApplied DEF KeyFile
        <5>4. \A i \in 1 .. Len(q) : i + 1 \in 1 .. Len(op.todo)
          BY <2>0
        <5>5. ~Has(q, {"meta", "no container"})
          BY <2>0, <5>1, <5>4 DEF Has
        <5> QED BY <5>1, <5>3, <5>5
      <4> QED BY <2>0, <3>1, <4>1, <4>2 DEF o
    <3>2. CASE Len(op.todo) <= 1 /\ op.source = None
      BY <2>0, <3>2, KeyIdle DEF Sourced
    <3>3. CASE Len(op.todo) <= 1 /\ op.source # None
      <4>1. op.source \in K!Slots /\ cache.meta[op.source].count \in Nat \ {0}
        BY <1>0, <3>3 DEF KeyOps, Sourced
      <4> DEFINE o == K!Count(op.source)
      <4>2. o \in KeyOps /\ KeyShaped(o) /\ o.source = None
        BY <1>0, <4>1, KeyCount
      <4>3. K!Rest = o
        BY <2>0, <3>3
      <4> HIDE DEF o
      <4> QED BY <4>2, <4>3 DEF Sourced
    <3>4. Len(op.todo) > 1 \/ Len(op.todo) <= 1
      BY <2>0
    <3> QED BY <3>1, <3>2, <3>3, <3>4
  <2>2. cache' \in KeyFiles /\ op' = K!Rest /\ UNCHANGED ram
    BY <1>0, <1>3, KeyRest, KeyApplied DEF K!Write
  <2>3. K!Busy(cache', K!Rest) \in SUBSET Nat
    BY <1>1, <2>1, <2>2
  <2>4. hist' = hist \/ hist' = [hist EXCEPT !.part = K!Busy(cache', K!Rest)]
    BY <1>3 DEF K!Write
  <2>5. hist' \in KeyHistories
    BY <1>0, <2>3, <2>4 DEF KeyHistories
  <2>6. flash' \in KeyFiles
    BY <1>0, <1>3, <2>2 DEF K!Write
  <2> QED BY <1>0, <2>1, <2>2, <2>5, <2>6 DEF KeyTypes
<1>4. CASE K!Fault
  <2> DEFINE E == IF op.cmd \in {"keypair", "unwrap", "delete", "rollback"} THEN K!Busy(cache, op) ELSE {}
  <2>1. E \in SUBSET Nat
    BY <1>0, <1>1
  <2>2. hist' = [hist EXCEPT !.mishaps = @ + 1, !.exempt = @ \cup E]
    BY <1>4 DEF K!Fault, K!Mishap
  <2> HIDE DEF E
  <2>3. hist' \in KeyHistories
    BY <1>0, <1>2, <2>1, <2>2 DEF KeyHistories
  <2>4. op' \in KeyOps /\ KeyShaped(op') /\ op'.source = None
    <3>1. CASE op.cmd = "keygen"
      <4> DEFINE q == K!RollbackWrites(op.slot)
      <4>1. op.slot \in K!Slots
        BY <1>0, <3>1 DEF KeyShaped, Stores
      <4>2. q \in Seq(KeyWrites) /\ q # <<>>
        <5> DEFINE a == K!DeleteWrites(op.slot)
                   P == K!Put("prkd", op.slot, FALSE)
        <5>1. a \in Seq(KeyWrites) /\ Len(a) \in {1, 2}
          BY <4>1, DeleteTypes
        <5>2. P \in KeyWrites
          BY <4>1, KeyPutTypes
        <5>3. q = a \o <<P>>
          BY DEF K!RollbackWrites
        <5> HIDE DEF a, P, q
        <5>4. <<P>> \in Seq(KeyWrites) /\ Len(<<P>>) = 1
          BY <5>2
        <5> DEFINE b == <<P>>
        <5> HIDE DEF b
        <5>5. b \in Seq(KeyWrites) /\ Len(b) = 1 /\ q = a \o b
          BY <5>3, <5>4 DEF b
        <5>6. q \in Seq(KeyWrites) /\ Len(q) = Len(a) + Len(b)
          BY <5>1, <5>5, ConcatProperties
        <5> QED BY <5>1, <5>5, <5>6
      <4>3. op' = [op EXCEPT !.cmd = "rollback", !.todo = q] /\ op.pc = "write" /\ op.source = None
        BY <1>0, <1>4, <3>1 DEF K!Fault, Sourced
      <4> HIDE DEF q
      <4> QED BY <1>0, <4>1, <4>2, <4>3 DEF KeyOps, KeyShaped, Erases, K!Commands
    <3>2. CASE op.cmd # "keygen"
      BY <1>4, <3>2, KeyIdle DEF K!Fault
    <3> QED BY <3>1, <3>2
  <2> QED BY <1>0, <1>4, <2>3, <2>4 DEF K!Fault, KeyTypes
<1>5. CASE K!Drain
  <2>1. hist' \in KeyHistories
    BY <1>0, <1>1, <1>5 DEF K!Drain, KeyHistories
  <2> QED BY <1>0, <1>5, <2>1 DEF K!Drain, KeyTypes
<1>6. CASE K!PowerLoss
  <2>1. hist' \in KeyHistories
    BY <1>0, <1>2, <1>6 DEF K!PowerLoss, K!Mishap, KeyHistories
  <2>2. ram' \in KeyRam
    BY <1>6 DEF K!PowerLoss, KeyRam
  <2> QED BY <1>0, <1>6, <2>1, <2>2, KeyIdle DEF K!PowerLoss, KeyTypes
<1>7. K!Login \/ K!Select \/ K!HdCipher \/ (\E type \in {"ec", "sym"} : K!HdDerive(type)) => KeyTypes'
  <2>1. K!Login \/ K!Select \/ K!HdCipher \/ (\E type \in {"ec", "sym"} : K!HdDerive(type))
          => ram' \in KeyRam /\ UNCHANGED <<cache, flash, op, hist>>
    <3>1. K!Login => ram' \in KeyRam /\ UNCHANGED <<cache, flash, op, hist>>
      BY <1>0 DEF K!Login, KeyRam
    <3>2. K!Select => ram' \in KeyRam /\ UNCHANGED <<cache, flash, op, hist>>
      BY <1>0 DEF K!Select, KeyRam
    <3>3. K!HdCipher => ram' \in KeyRam /\ UNCHANGED <<cache, flash, op, hist>>
      BY <1>0 DEF K!HdCipher, KeyRam
    <3>4. ASSUME NEW type \in {"ec", "sym"}, K!HdDerive(type)
          PROVE  ram' \in KeyRam /\ UNCHANGED <<cache, flash, op, hist>>
      BY <1>0, <3>4 DEF K!HdDerive, KeyRam
    <3> QED BY <3>1, <3>2, <3>3, <3>4
  <2> QED BY <1>0, <2>1 DEF KeyTypes
<1>8. ASSUME NEW name \in K!Commands, NEW s \in K!Slots \cup {None}, name \in Stores \cup Erases => s \in K!Slots,
             NEW k \in Nat, NEW q \in Seq(KeyWrites), q # <<>>, K!Command(name, s, k, q), hist' \in KeyHistories
      PROVE  KeyTypes'
  <2>1. /\ op' = [pc |-> "write", cmd |-> name, todo |-> q, slot |-> s, key |-> k, source |-> None]
        /\ UNCHANGED <<cache, flash, ram>>
    BY <1>8 DEF K!Command
  <2>2. op' \in KeyOps /\ KeyShaped(op')
    BY <1>8, <2>1 DEF KeyOps, KeyShaped, Stores, Erases
  <2> QED BY <1>0, <1>8, <2>1, <2>2 DEF KeyTypes
<1>9. ASSUME NEW w \in KeyWrites PROVE <<w>> \in Seq(KeyWrites) /\ <<w>> # <<>>
  OBVIOUS
<1>10. ASSUME NEW s \in K!Slots, NEW t \in K!Templates, NEW name \in {"keygen", "keypair"},
              NEW cert \in Seq(KeyWrites), K!Generate(name, s, t, cert)
       PROVE  KeyTypes'
  <2> DEFINE k == hist.keys + 1
             m == K!StoreMeta(s, t)
             q == K!StoreKeys(s, k) \o m \o cert
  <2>1. t \in Metas /\ k \in K!Keys
    BY <1>0, <1>10, KeyNumbers DEF K!Generate, KeyHistories
  <2>2. m \in Seq(KeyWrites)
    <3> DEFINE P == K!Put("meta", s, t)
    <3>1. P \in KeyWrites
      BY <2>1, KeyPutTypes
    <3>2. m = IF t = K!NoMeta THEN <<>> ELSE <<P>>
      BY DEF K!StoreMeta
    <3> HIDE DEF P, m
    <3> QED BY <1>9, <3>1, <3>2
  <2>3. q \in Seq(KeyWrites) /\ q # <<>>
    <3> HIDE DEF m
    <3> QED BY <1>2, <2>2, GenerateTypes
  <2>4. K!Command(name, s, k, q)
    BY <1>10 DEF K!Generate
  <2>5. hist' \in KeyHistories
    <3> DEFINE filed == IF s \in Legacies THEN hist.filed \cup {k} ELSE hist.filed
    <3>1. hist' = [K!Counted EXCEPT !.keys = k, !.made[k] = t, !.filed = filed]
      BY <1>10 DEF K!Generate, K!Counted
    <3>2. filed \in SUBSET Nat /\ k \in Nat
      BY <1>0, <1>2 DEF KeyHistories
    <3> HIDE DEF filed, k
    <3> QED BY <1>2, <2>1, <3>1, <3>2 DEF KeyHistories
  <2> HIDE DEF q
  <2> QED BY <1>2, <1>8, <2>3, <2>4, <2>5 DEF K!Commands
<1>11. ASSUME NEW s \in K!Slots, NEW t \in K!Templates, K!KeyGen(s, t) \/ K!KeypairGen(s, t) PROVE KeyTypes'
  <2> DEFINE P == K!Put("cert", s, TRUE)
  <2>1. P \in KeyWrites
    BY KeyPutTypes
  <2>2. K!Generate("keygen", s, t, <<>>) \/ K!Generate("keypair", s, t, <<P>>)
    BY <1>11 DEF K!KeyGen, K!KeypairGen
  <2> HIDE DEF P
  <2>3. <<P>> \in Seq(KeyWrites) /\ <<>> \in Seq(KeyWrites)
    BY <1>9, <2>1
  <2> DEFINE c == <<P>>
  <2> HIDE DEF c
  <2>4. c \in Seq(KeyWrites) /\ (K!Generate("keygen", s, t, <<>>) \/ K!Generate("keypair", s, t, c))
    BY <2>2, <2>3 DEF c
  <2> QED BY <1>10, <2>3, <2>4
<1>12. ASSUME NEW s \in K!Slots, K!Used(s), cache.meta[s].count # 0,
              ram' \in KeyRam, UNCHANGED <<cache, flash>>
       PROVE  KeyTypes'
  <2>1. hist' \in KeyHistories
    <3> DEFINE uses == [hist.uses EXCEPT ![cache.key[s]] = @ + 1]
    <3>1. uses \in [K!Keys -> Nat]
      <4>1. ASSUME NEW f \in [K!Keys -> Nat], NEW k PROVE [f EXCEPT ![k] = @ + 1] \in [K!Keys -> Nat]
        <5>1. CASE k \in K!Keys
          BY <5>1
        <5>2. CASE k \notin K!Keys
          BY <5>2
        <5> QED BY <5>1, <5>2
      <4>2. hist.uses \in [K!Keys -> Nat]
        BY <1>0 DEF KeyHistories
      <4> QED BY <4>1, <4>2
    <3>2. hist' = [hist EXCEPT !.used = @ + 1, !.uses = uses]
      BY <1>12 DEF K!Used
    <3> HIDE DEF uses
    <3> QED BY <1>0, <1>2, <3>1, <3>2 DEF KeyHistories
  <2>2. CASE cache.meta[s].count = None
    BY <1>0, <1>12, <2>1, <2>2, KeyIdle DEF K!Used, KeyTypes
  <2>3. CASE cache.meta[s].count # None
    <3>1. cache.meta[s].count \in Nat \ {0} /\ op' = K!Count(s)
      BY <1>0, <1>12, <2>3 DEF KeyFiles, Metas, K!Used
    <3>2. op' \in KeyOps /\ KeyShaped(op') /\ op'.source = None
      BY <1>0, <3>1, KeyCount
    <3> QED BY <1>0, <1>12, <2>1, <3>2 DEF KeyTypes
  <2> QED BY <2>2, <2>3
<1>13. ASSUME NEW s \in K!Slots, K!Sign(s) \/ K!Decipher(s) \/ K!Cipher(s) \/ K!HdSign(s)
       PROVE  KeyTypes'
  <2>1. CASE K!Sign(s) \/ K!Decipher(s)
    BY <1>0, <1>12, <2>1 DEF K!Sign, K!Decipher, K!Asymmetric, K!Usable
  <2>2. CASE K!Cipher(s)
    <3>1. CASE K!Usable(s, "cipher") /\ K!Used(s)
      BY <1>0, <1>12, <2>2, <3>1 DEF K!Cipher, K!Usable
    <3>2. CASE hist' = [hist EXCEPT !.stray = TRUE] /\ UNCHANGED op
      <4>1. hist' \in KeyHistories
        BY <1>0, <3>2 DEF KeyHistories
      <4> QED BY <1>0, <2>2, <3>2, <4>1 DEF K!Cipher, KeyTypes
    <3> QED BY <2>2, <3>1, <3>2 DEF K!Cipher
  <2>3. CASE K!HdSign(s)
    <3>1. ram' \in KeyRam
      BY <1>0, <2>3 DEF K!HdSign, KeyRam
    <3> QED BY <1>12, <2>3, <3>1 DEF K!HdSign, K!Usable
  <2> QED BY <1>13, <2>1, <2>2, <2>3
<1>13a. ASSUME NEW s \in K!Slots, NEW d \in K!Slots, K!DeriveAsym(s, d) PROVE KeyTypes'
  <2> DEFINE k == hist.keys + 1
             q == K!StoreKeys(d, k)
             source == IF cache.meta[s].count = None THEN None ELSE s
  <2>1. /\ op' = [pc |-> "write", cmd |-> "derive", todo |-> q, slot |-> d, key |-> k, source |-> source]
        /\ UNCHANGED <<cache, flash, ram>> /\ cache.meta[s].count # 0
    BY <1>13a DEF K!DeriveAsym, K!Usable
  <2>2. q \in Seq(KeyWrites) /\ q # <<>> /\ ~Has(q, {"meta", "no container"})
    <3>1. /\ q \in Seq(KeyWrites) /\ Len(q) \in {1, 2}
          /\ q[1] = K!Put(IF d \in Containers THEN "container" ELSE "key", d, k)
          /\ Len(q) = 2 => q[2] = K!Put("prkd", d, TRUE)
      BY <1>2, StoreKeysTypes
    <3> HIDE DEF q, k
    <3>2. q[1].f \in {"container", "key"} /\ (Len(q) = 2 => q[2].f = "prkd")
      BY <3>1 DEF K!Put
    <3>3. \A n \in {1, 2} : \A i \in 1 .. n : i = 1 \/ (i = 2 /\ n = 2)
      OBVIOUS
    <3>4. \A i \in 1 .. Len(q) : q[i].f \in {"container", "key", "prkd"}
      BY <3>1, <3>2, <3>3
    <3>5. q # <<>>
      BY <3>1
    <3> QED BY <3>1, <3>4, <3>5 DEF Has
  <2>3. source # None => cache.meta[source].count \in Nat \ {0}
    BY <1>0, <2>1 DEF KeyFiles, Metas
  <2>4. hist' \in KeyHistories
    <3> DEFINE uses == [hist.uses EXCEPT ![cache.key[s]] = @ + 1]
               origin == [hist.origin EXCEPT ![k] = cache.key[s]]
               made == [hist.made EXCEPT ![k] = K!NoMeta]
               filed == IF d \in Legacies THEN hist.filed \cup {k} ELSE hist.filed
    <3>1. hist' = [K!Counted EXCEPT !.keys = k, !.used = @ + 1, !.uses = uses, !.made = made,
                                    !.origin = origin, !.filed = filed]
      BY <1>0, <1>13a DEF K!DeriveAsym, K!Counted, KeyHistories
    <3>2. uses \in [K!Keys -> Nat] /\ origin \in [K!Keys -> Nat]
      <4>1. ASSUME NEW f \in [K!Keys -> Nat], NEW x, NEW v, x \in K!Keys => v \in Nat
            PROVE  [f EXCEPT ![x] = v] \in [K!Keys -> Nat]
        <5>1. CASE x \in K!Keys
          BY <4>1, <5>1
        <5>2. CASE x \notin K!Keys
          BY <5>2
        <5> QED BY <5>1, <5>2
      <4>2. hist.uses \in [K!Keys -> Nat] /\ hist.origin \in [K!Keys -> Nat] /\ cache.key[s] \in Nat
        BY <1>0 DEF KeyHistories, KeyFiles
      <4>3. cache.key[s] \in K!Keys => hist.uses[cache.key[s]] + 1 \in Nat
        BY <4>2
      <4> QED BY <4>1, <4>2, <4>3
    <3>3. filed \in SUBSET Nat /\ k \in Nat /\ K!Counted.used + 1 \in Nat
      BY <1>0, <1>2 DEF KeyHistories
    <3>4. made \in [K!Keys -> Metas]
      BY <1>0, KeyNumbers DEF KeyHistories
    <3> HIDE DEF uses, origin, made, filed, k
    <3> QED BY <1>2, <3>1, <3>2, <3>3, <3>4 DEF KeyHistories
  <2>5. op' \in KeyOps /\ KeyShaped(op') /\ Sourced(cache', op')
    <3> HIDE DEF q, k
    <3>1. k \in Nat /\ source \in K!Slots \cup {None}
      BY <1>2 DEF k
    <3> HIDE DEF source
    <3> QED BY <2>1, <2>2, <2>3, <3>1 DEF KeyOps, KeyShaped, Sourced, Stores, K!Commands
  <2> QED BY <1>0, <2>1, <2>4, <2>5 DEF KeyTypes
<1>14. ASSUME NEW s \in K!Slots, K!KeyWrap(s) PROVE KeyTypes'
  <2> DEFINE blob == K!Encoded(cache.key[s], cache.meta[s], cache.dkek)
  <2>1. blob \in Blobs
    BY <1>0 DEF K!Encoded, Blobs, KeyFiles, Metas
  <2>2. hist' = [hist EXCEPT !.blobs = @ \cup {blob}] /\ UNCHANGED <<cache, flash, ram, op>>
    BY <1>14 DEF K!KeyWrap
  <2> HIDE DEF blob
  <2>3. hist' \in KeyHistories
    BY <1>0, <2>1, <2>2 DEF KeyHistories
  <2> QED BY <1>0, <2>2, <2>3 DEF KeyTypes
<1>15. ASSUME NEW s \in K!Slots, NEW b \in hist.blobs, K!KeyUnwrap(s, b) PROVE KeyTypes'
  <2> DEFINE M == K!Put("meta", s, K!Meta(None, b.algos, 0))
             X == K!Put("cert", s, TRUE)
             tail == <<M, X>>
             q == K!StoreKeys(s, b.key) \o tail
  <2>1. b.key \in Nat /\ K!Meta(None, b.algos, 0) \in Metas
    BY <1>0 DEF KeyHistories, Blobs, K!Meta, Metas
  <2>2. M \in KeyWrites /\ X \in KeyWrites
    BY <2>1, KeyPutTypes
  <2>3. K!Command("unwrap", s, b.key, q) /\ hist' = K!Counted
    BY <1>15 DEF K!KeyUnwrap
  <2> HIDE DEF M, X
  <2>4. tail \in Seq(KeyWrites) /\ Len(tail) = 2
    BY <2>2
  <2> DEFINE a == K!StoreKeys(s, b.key)
  <2>5. a \in Seq(KeyWrites) /\ Len(a) \in {1, 2}
    BY <2>1, StoreKeysTypes
  <2> HIDE DEF tail, a, q
  <2>6. q = a \o tail
    BY DEF q, a
  <2>7. q \in Seq(KeyWrites) /\ Len(q) = Len(a) + 2
    BY <2>4, <2>5, <2>6, ConcatProperties
  <2>8. q # <<>>
    BY <2>5, <2>7
  <2> QED BY <1>2, <1>8, <2>1, <2>3, <2>7, <2>8 DEF K!Commands
<1>16. ASSUME NEW s \in K!Slots, K!DeleteKey(s) PROVE KeyTypes'
  <2> DEFINE k == IF s \in Containers THEN 0 ELSE cache.key[s]
  <2>1. k \in Nat
    BY <1>0 DEF KeyFiles
  <2>2. K!Command("delete", s, k, K!DeleteWrites(s)) /\ hist' = K!Counted
    BY <1>16 DEF K!DeleteKey
  <2> DEFINE q == K!DeleteWrites(s)
  <2>3. q \in Seq(KeyWrites) /\ Len(q) \in {1, 2} /\ K!Command("delete", s, k, q)
    BY <2>2, DeleteTypes
  <2> HIDE DEF k, q
  <2>4. q # <<>>
    BY <2>3
  <2> QED BY <1>2, <1>8, <2>1, <2>2, <2>3, <2>4 DEF K!Commands
<1>17. ASSUME NEW w \in KeyWrites, NEW name \in {"sidecar", "domain", "seed"}, NEW s \in K!Slots \cup {None},
              K!Command(name, s, 0, <<w>>), hist' \in KeyHistories
       PROVE  KeyTypes'
  <2> DEFINE q == <<w>>
  <2>1. q \in Seq(KeyWrites) /\ q # <<>> /\ K!Command(name, s, 0, q)
    BY <1>9, <1>17
  <2> HIDE DEF q
  <2> QED BY <1>8, <1>17, <2>1 DEF K!Commands, Stores, Erases
<1>18. ASSUME NEW s \in K!Slots, NEW f \in {"prkd", "cert"}, K!DeleteSidecar(s, f) \/ K!UpdateEf(s, f)
       PROVE  KeyTypes'
  <2>1. K!Put(f, s, FALSE) \in KeyWrites /\ K!Put(f, s, TRUE) \in KeyWrites
    BY KeyPutTypes
  <2> QED BY <1>2, <1>17, <1>18, <2>1 DEF K!DeleteSidecar, K!UpdateEf
<1>19. CASE K!MasterGen
  BY <1>2, <1>17, <1>19, KeyPutTypes DEF K!MasterGen
<1>20. CASE K!DomainDelete
  <2>1. K!Put("dkek", None, 0) \in KeyWrites
    BY KeyPutTypes
  <2> QED BY <1>2, <1>17, <1>20, <2>1 DEF K!DomainDelete
<1>21. CASE K!DomainImport
  <2>1. K!Put("dkek", None, hist.dkeks + 1) \in KeyWrites
    BY <1>2, KeyPutTypes
  <2>2. hist' \in KeyHistories
    BY <1>2, <1>21 DEF K!DomainImport, K!Counted, KeyHistories
  <2> QED BY <1>17, <1>21, <2>1, <2>2 DEF K!DomainImport
<1>22. CASE K!Initialize
  <2>1. K!NoFiles \in KeyFiles
    BY KeyNumbers DEF K!NoFiles, KeyFiles
  <2>2. ram' \in KeyRam /\ hist' \in KeyHistories
    BY <1>0, <1>2, <1>22 DEF K!Initialize, KeyRam, KeyHistories
  <2> QED BY <1>0, <1>22, <2>1, <2>2, KeyIdle DEF K!Initialize, KeyTypes
<1> QED BY <1>3, <1>4, <1>5, <1>6, <1>7, <1>11, <1>13, <1>14, <1>15, <1>16, <1>18, <1>19, <1>20, <1>21, <1>22,
           <1>13a DEF K!Next
-----------------------------------------------------------------------------
(* HsmKeys: counters and purposes *)

\* What counts of the history is the same.
Unchanged(h, h2) ==
    /\ h2.made = h.made /\ h2.uses = h.uses /\ h2.blobs = h.blobs /\ h2.exempt = h.exempt
    /\ h2.filed = h.filed /\ h2.mishaps = h.mishaps /\ h2.keys = h.keys

LEMMA SameHistory ==
    ASSUME NEW h, NEW h2, Unchanged(h, h2)
    PROVE  /\ \A k : Bounded(h2, k) <=> Bounded(h, k)
           /\ \A k, algos : Covers(h2, k, algos) <=> Covers(h, k, algos)
           /\ \A k, m, x : Fits(h2, k, m, x) <=> Fits(h, k, m, x)
<1>1. \A k : Bounded(h2, k) <=> Bounded(h, k)
  BY DEF Unchanged, Bounded
<1>2. \A k, algos : Covers(h2, k, algos) <=> Covers(h, k, algos)
  BY DEF Unchanged, Covers
<1> QED BY <1>1, <1>2 DEF Unchanged, Fits

\* More is exempt, exported or in files, and there were more mishaps; the key is the same.
Grown(h, h2, k) ==
    /\ h2.made[k] = h.made[k] /\ h2.uses[k] = h.uses[k]
    /\ h.blobs \subseteq h2.blobs /\ h.exempt \subseteq h2.exempt /\ h.filed \subseteq h2.filed

LEMMA GrownFits ==
    ASSUME NEW h \in KeyHistories, NEW h2 \in KeyHistories, NEW k \in K!Keys, Grown(h, h2, k)
    PROVE  /\ Bounded(h2, k) => Bounded(h, k)
           /\ \A algos : Covers(h, k, algos) => Covers(h2, k, algos)
           /\ \A m \in Metas, x \in {0, 1}, y \in {0, 1} :
                 h.mishaps + x <= h2.mishaps + y /\ Fits(h, k, m, x) => Fits(h2, k, m, y)
           /\ h.mishaps <= h2.mishaps /\ (Bounded(h, k) => h.uses[k] <= h.made[k].count + h.mishaps /\ h.made[k].count \in Nat)
                => (Bounded(h2, k) => h2.uses[k] <= h2.made[k].count + h2.mishaps /\ h2.made[k].count \in Nat)
<1>1. Bounded(h2, k) => Bounded(h, k)
  BY DEF Grown, Bounded
<1>2. \A algos : Covers(h, k, algos) => Covers(h2, k, algos)
  BY DEF Grown, Covers
<1>3. /\ h.made[k] \in Metas /\ h.uses[k] \in Nat /\ h.mishaps \in Nat /\ h2.mishaps \in Nat
      /\ Bounded(h2, k) => h.made[k].count \in Nat
  BY <1>1 DEF KeyHistories, Metas, Bounded
<1>4. ASSUME NEW m \in Metas, NEW x \in {0, 1}, NEW y \in {0, 1}, h.mishaps + x <= h2.mishaps + y, Fits(h, k, m, x)
      PROVE  Fits(h2, k, m, y)
  <2>1. Covers(h2, k, m.algos)
    BY <1>2, <1>4 DEF Fits
  <2>2. ASSUME Bounded(h2, k) PROVE m.count \in Nat /\ h2.uses[k] + m.count <= h2.made[k].count + h2.mishaps + y
    <3>1. m.count \in Nat /\ h.uses[k] + m.count <= h.made[k].count + h.mishaps + x
      BY <1>1, <1>4, <2>2 DEF Fits
    <3>2. h2.uses[k] = h.uses[k] /\ h2.made[k] = h.made[k]
      BY DEF Grown
    <3> QED BY <1>3, <1>4, <2>2, <3>1, <3>2
  <2> QED BY <2>1, <2>2 DEF Fits
<1>5. /\ h.mishaps <= h2.mishaps /\ (Bounded(h, k) => h.uses[k] <= h.made[k].count + h.mishaps /\ h.made[k].count \in Nat)
         => (Bounded(h2, k) => h2.uses[k] <= h2.made[k].count + h2.mishaps /\ h2.made[k].count \in Nat)
  BY <1>1, <1>3 DEF Grown
<1> QED BY <1>1, <1>2, <1>4, <1>5

\* A key without a template fits any metadata.
LEMMA Unlimited ==
    ASSUME NEW h, NEW k, h.made[k] = K!NoMeta
    PROVE  ~Bounded(h, k) /\ \A m, x : Fits(h, k, m, x)
BY DEF Bounded, Fits, Covers, K!Allows, K!NoMeta, K!Meta

\* A key that a power loss leaves, or a reference holds, is one that was drawn.
LEMMA DrawnKeys ==
    ASSUME KeyTypes, Drawn(cache, flash, op, hist)
    PROVE  /\ \A s \in K!Slots : /\ cache.key[s] \in Nat /\ flash.key[s] \in Nat
                                 /\ cache.meta[s] \in Metas /\ flash.meta[s] \in Metas
                                 /\ cache.key[s] # 0 => cache.key[s] \in K!Keys
                                 /\ flash.key[s] # 0 => flash.key[s] \in K!Keys
           /\ hist.keys \in Nat /\ op.key \in Nat
<1>1. hist.keys \in Nat /\ op.key \in Nat
  BY DEF KeyTypes, KeyHistories, KeyOps
<1>2. ASSUME NEW s \in K!Slots
      PROVE  /\ cache.key[s] \in Nat /\ flash.key[s] \in Nat /\ cache.meta[s] \in Metas /\ flash.meta[s] \in Metas
             /\ cache.key[s] <= hist.keys /\ flash.key[s] <= hist.keys /\ hist.keys <= MaxKeys
  BY DEF KeyTypes, KeyFiles, Drawn
<1> QED BY <1>1, <1>2, KeyNumbers

\* One write of a handler
LEMMA KeyWriteKeeps == ASSUME KeyInv, KeyTypes', K!Write PROVE KeyInv'
<1> DEFINE w == op.todo[1]
           q == Tail(op.todo)
           o2 == [op EXCEPT !.todo = q]
           use == K!Count(op.source)
<1>0. /\ cache \in KeyFiles /\ flash \in KeyFiles /\ op \in KeyOps /\ hist \in KeyHistories
      /\ KeyShaped(op) /\ op.pc = "write" /\ Sourced(cache, op)
  BY DEF KeyInv, KeyTypes, K!Write
<1>1. /\ w \in KeyWrites /\ Len(op.todo) \in Nat \ {0} /\ q \in Seq(KeyWrites) /\ Len(q) = Len(op.todo) - 1
      /\ \A i \in 1 .. Len(q) : q[i] = op.todo[i + 1]
      /\ \/ op' = o2 /\ q # <<>>
         \/ op' = K!Idle /\ op.source = None /\ q = <<>> /\ Len(op.todo) = 1
         \/ op' = use /\ op.source # None /\ q = <<>> /\ Len(op.todo) = 1
  <2>1. /\ w \in KeyWrites /\ Len(op.todo) \in Nat \ {0} /\ q \in Seq(KeyWrites) /\ Len(q) = Len(op.todo) - 1
        /\ \A i \in 1 .. Len(q) : q[i] = op.todo[i + 1]
        /\ Len(op.todo) > 1 => K!Rest = o2 /\ q # <<>>
        /\ Len(op.todo) <= 1 => K!Rest = (IF op.source # None THEN use ELSE K!Idle) /\ q = <<>>
    BY <1>0, KeyRest DEF KeyInv
  <2>2. op' = K!Rest
    BY DEF K!Write
  <2> HIDE DEF w, q, o2, use
  <2>3. CASE Len(op.todo) > 1
    BY <2>1, <2>2, <2>3
  <2>4. CASE Len(op.todo) <= 1
    <3>1. Len(op.todo) = 1
      <4>1. Len(op.todo) \in Nat \ {0}
        BY <2>1
      <4>2. \A n \in Nat \ {0} : n <= 1 => n = 1
        OBVIOUS
      <4> QED BY <2>4, <4>1, <4>2
    <3> QED BY <2>1, <2>2, <3>1
  <2> QED BY <2>1, <2>3, <2>4
<1>2. /\ cache' = K!Applied(cache, w)
      /\ w.at \in Containers => flash' = cache' /\ hist' = [hist EXCEPT !.part = K!Busy(cache', op')]
      /\ w.at \notin Containers => flash' = flash /\ hist' = hist
  BY <1>0, KeyRest DEF KeyInv, K!Write
<1> HIDE DEF w, q, use
<1>3. /\ cache' \in KeyFiles
      /\ w.f \in {"key", "container"} =>
            cache'.meta = cache.meta /\ w.at \in K!Slots /\ w.v \in Nat /\ cache'.key = [cache.key EXCEPT ![w.at] = w.v]
      /\ w.f = "meta" =>
            cache'.key = cache.key /\ w.at \in K!Slots /\ w.v \in Metas /\ cache'.meta = [cache.meta EXCEPT ![w.at] = w.v]
      /\ w.f = "no container" =>
            /\ w.at \in K!Slots /\ cache'.key = [cache.key EXCEPT ![w.at] = 0]
            /\ cache'.meta = [cache.meta EXCEPT ![w.at] = K!NoMeta]
      /\ w.f \notin KeyFile \cup {"meta"} => cache'.key = cache.key /\ cache'.meta = cache.meta
  BY <1>0, <1>1, <1>2, KeyApplied
<1>4. /\ o2.cmd = op.cmd /\ o2.slot = op.slot /\ o2.key = op.key /\ o2.pc = "write" /\ o2.todo = q
      /\ o2.source = op.source
      /\ Unchanged(hist, hist')
      /\ hist'.part = IF w.at \in Containers THEN K!Busy(cache', op') ELSE hist.part
  BY <1>0, <1>2 DEF KeyOps, Unchanged, KeyHistories
<1>5. \A F : Has(op.todo, F) <=> w.f \in F \/ Has(q, F)
  <2>1. ASSUME NEW F, Has(op.todo, F) PROVE w.f \in F \/ Has(q, F)
    <3>1. PICK i \in 1 .. Len(op.todo) : op.todo[i].f \in F
      BY <2>1 DEF Has
    <3>2. CASE i = 1
      BY <3>1, <3>2 DEF w
    <3>3. CASE i # 1
      <4>1. i - 1 \in 1 .. Len(q) /\ q[i - 1] = op.todo[i]
        BY <1>1, <3>3
      <4> QED BY <3>1, <4>1 DEF Has
    <3> QED BY <3>2, <3>3
  <2>2. ASSUME NEW F, w.f \in F \/ Has(q, F) PROVE Has(op.todo, F)
    <3>1. CASE w.f \in F
      BY <1>1, <3>1 DEF Has, w
    <3>2. CASE Has(q, F)
      <4>1. PICK i \in 1 .. Len(q) : q[i].f \in F
        BY <3>2 DEF Has
      <4>2. i + 1 \in 1 .. Len(op.todo) /\ op.todo[i + 1] = q[i]
        BY <1>1
      <4> QED BY <4>1, <4>2 DEF Has
    <3> QED BY <2>2, <3>1, <3>2
  <2> QED BY <2>1, <2>2
<1>6. \A F : q = <<>> => ~Has(q, F)
  BY DEF Has
<1> HIDE DEF o2
<1>7. Storing(cache', o2, hist)
  <2> SUFFICES ASSUME op.cmd \in Stores PROVE Storing(cache', o2, hist)
    BY <1>4 DEF Storing
  <2>1. /\ op.slot \in K!Slots /\ op.key \in 1 .. hist.keys /\ (op.cmd = "derive" => hist.made[op.key] = K!NoMeta)
        /\ Bounded(hist, op.key) => op.slot \in Containers /\ \A s \in K!Slots : cache.key[s] = op.key => s = op.slot
        /\ Has(op.todo, KeyFile) \/ cache.key[op.slot] = op.key
        /\ \/ Has(op.todo, {"meta"}) \/ hist.made[op.key] = K!NoMeta \/ op.key \in hist.exempt
           \/ Fits(hist, op.key, cache.meta[op.slot], 0)
    BY <1>0 DEF KeyInv, Storing, KeyShaped
  <2>2. ASSUME NEW i \in 1 .. Len(op.todo)
        PROVE  LET v == op.todo[i] IN
               /\ v.at = op.slot /\ v.f \in {"key", "container", "meta", "prkd", "cert"}
               /\ v.f = "key" => v.v = op.key /\ op.slot \notin Containers
               /\ v.f = "container" => v.v = op.key
               /\ v.f = "meta" => op.key \in hist.exempt \/ Fits(hist, op.key, v.v, 0)
               /\ v.f \in KeyFile => i = 1
    BY DEF KeyInv, Storing
  <2>3. /\ w.at = op.slot /\ w.f \in {"key", "container", "meta", "prkd", "cert"}
        /\ w.f \in {"key", "container"} => w.v = op.key
        /\ w.f = "meta" => op.key \in hist.exempt \/ Fits(hist, op.key, w.v, 0)
    BY <1>1, <2>2 DEF w
  <2>4. ASSUME NEW i \in 1 .. Len(q)
        PROVE  LET v == q[i] IN
               /\ v.at = op.slot /\ v.f \in {"key", "container", "meta", "prkd", "cert"}
               /\ v.f = "key" => v.v = op.key /\ op.slot \notin Containers
               /\ v.f = "container" => v.v = op.key
               /\ v.f = "meta" => op.key \in hist.exempt \/ Fits(hist, op.key, v.v, 0)
               /\ v.f \notin KeyFile
    <3>1. i + 1 \in 1 .. Len(op.todo) /\ i + 1 # 1 /\ q[i] = op.todo[i + 1]
      BY <1>1
    <3> QED BY <2>2, <3>1
  <2>5. ~Has(q, KeyFile)
    BY <2>4 DEF Has
  <2>6. cache'.key[op.slot] = op.key
    BY <1>0, <1>3, <1>5, <2>1, <2>3, <2>5 DEF KeyFile, KeyFiles
  <2>7. \A s \in K!Slots : s # op.slot => cache'.key[s] = cache.key[s]
    BY <1>0, <1>3, <2>3 DEF KeyFile, KeyFiles
  <2>8. \/ Has(q, {"meta"}) \/ hist.made[op.key] = K!NoMeta \/ op.key \in hist.exempt
        \/ Fits(hist, op.key, cache'.meta[op.slot], 0)
    <3>1. CASE w.f = "meta"
      BY <1>0, <1>3, <2>1, <2>3, <3>1 DEF KeyFiles
    <3>2. CASE w.f # "meta"
      <4>1. cache'.meta = cache.meta
        BY <1>3, <2>3, <3>2 DEF KeyFile
      <4> QED BY <1>5, <2>1, <3>2, <4>1
    <3> QED BY <3>1, <3>2
  <2> QED BY <1>4, <2>1, <2>4, <2>6, <2>7, <2>8 DEF Storing
<1>8. Erasing(cache', o2, hist)
  <2> SUFFICES ASSUME op.cmd \in Erases PROVE Erasing(cache', o2, hist)
    BY <1>4 DEF Erasing
  <2>1. /\ op.slot \in K!Slots
        /\ Has(op.todo, KeyFile) \/ cache.key[op.slot] = 0
        /\ op.cmd = "delete" /\ op.slot \notin Containers => cache.key[op.slot] \in {0, op.key}
    BY <1>0 DEF KeyInv, Erasing, KeyShaped
  <2>2. ASSUME NEW i \in 1 .. Len(op.todo)
        PROVE  LET v == op.todo[i] IN
               /\ v.at = op.slot /\ v.f \in {"key", "no container", "meta", "prkd"}
               /\ v.f = "key" => v.v = 0
               /\ v.f \in {"key", "meta"} => op.slot \notin Containers
    BY DEF KeyInv, Erasing
  <2>3. /\ w.at = op.slot /\ w.f \in {"key", "no container", "meta", "prkd"}
        /\ w.f = "key" => w.v = 0
    <3>1. 1 \in 1 .. Len(op.todo)
      BY <1>1
    <3> QED BY <2>2, <3>1 DEF w
  <2>4. ASSUME NEW i \in 1 .. Len(q)
        PROVE  LET v == q[i] IN
               /\ v.at = op.slot /\ v.f \in {"key", "no container", "meta", "prkd"}
               /\ v.f = "key" => v.v = 0
               /\ v.f \in {"key", "meta"} => op.slot \notin Containers
    <3>1. i + 1 \in 1 .. Len(op.todo) /\ q[i] = op.todo[i + 1]
      BY <1>1
    <3> QED BY <2>2, <3>1
  <2>5. (cache'.key[op.slot] = cache.key[op.slot] /\ w.f \notin KeyFile) \/ cache'.key[op.slot] = 0
    BY <1>0, <1>3, <2>1, <2>3 DEF KeyFile, KeyFiles
  <2>6. Has(q, KeyFile) \/ cache'.key[op.slot] = 0
    BY <1>5, <2>1, <2>5
  <2> QED BY <1>4, <2>1, <2>4, <2>5, <2>6 DEF Erasing
<1> DEFINE goes == op' = o2 /\ q # <<>>
           ends == op' = K!Idle /\ op.source = None /\ q = <<>> /\ Len(op.todo) = 1
           counts == op' = use /\ op.source # None /\ q = <<>> /\ Len(op.todo) = 1
<1>9. /\ goes \/ ends \/ counts
      /\ ends \/ counts => /\ q = <<>> /\ op'.cmd \in {None, "use"} /\ op'.key = 0 /\ op'.slot = None
                          /\ K!Busy(cache', op') = {} /\ op'.source = None
      /\ ends => op.source = None /\ op'.cmd = None /\ op'.todo = <<>>
      /\ counts => /\ op.source \in K!Slots /\ op.cmd = "derive" /\ op'.cmd = "use" /\ Len(op'.todo) = 1
                   /\ op'.todo[1].f = "meta" /\ op'.todo[1].at = op.source
                   /\ op'.todo[1].v = K!Spent(cache.meta[op.source])
                   /\ cache.meta[op.source].count \in Nat \ {0} /\ cache'.meta = cache.meta
      /\ goes => /\ op'.cmd = op.cmd /\ op'.slot = op.slot /\ op'.key = op.key /\ op'.todo = q /\ op'.pc = "write"
                 /\ op'.source = op.source /\ q # <<>>
  <2>1. ends => /\ op'.cmd = None /\ op'.key = 0 /\ op'.slot = None /\ op'.source = None /\ op'.todo = <<>>
                /\ K!Busy(cache', op') = {}
    BY KeyIdle DEF K!Busy
  <2>2. ASSUME counts
        PROVE  /\ op.source \in K!Slots /\ op.cmd = "derive" /\ cache.meta[op.source].count \in Nat \ {0}
               /\ cache'.meta = cache.meta
    <3>1. /\ op.source \in K!Slots /\ op.cmd = "derive" /\ cache.meta[op.source].count \in Nat \ {0}
          /\ ~Has(op.todo, {"meta", "no container"})
      BY <1>0, <2>2 DEF Sourced, KeyOps
    <3>2. w.f \notin {"meta", "no container"}
      BY <1>5, <3>1
    <3> QED BY <1>3, <3>1, <3>2 DEF KeyFile
  <2>3. counts => /\ op'.cmd = "use" /\ op'.key = 0 /\ op'.slot = None /\ op'.source = None /\ Len(op'.todo) = 1
                  /\ op'.todo[1].f = "meta" /\ op'.todo[1].at = op.source
                  /\ op'.todo[1].v = K!Spent(cache.meta[op.source]) /\ K!Busy(cache', op') = {}
    BY <1>0, <2>2, KeyCount DEF K!Busy, use
  <2>4. goes => /\ op'.cmd = op.cmd /\ op'.slot = op.slot /\ op'.key = op.key /\ op'.todo = q /\ op'.pc = "write"
                /\ op'.source = op.source
    BY <1>4
  <2> QED BY <1>1, <2>1, <2>2, <2>3, <2>4
<1> HIDE DEF goes, ends, counts
<1>10. /\ None \notin Stores \cup Erases \cup {"use"}
       /\ \A s : cache.key[s] # 0 /\ s \in K!Slots => cache.key[s] \in K!Keys
       /\ \A s \in K!Slots : cache.key[s] \in Nat /\ cache.meta[s] \in Metas
       /\ hist.keys \in Nat /\ op.key \in Nat
       /\ {None, "use"} \cap (Stores \cup Erases) = {}
  BY KeyNumbers, DrawnKeys DEF K!Commands, Stores, Erases, KeyInv
<1>11. Storing(cache', op', hist) /\ Erasing(cache', op', hist)
  <2>1. CASE ends \/ counts
    <3>1. op'.cmd \notin Stores /\ op'.cmd \notin Erases
      BY <1>9, <1>10, <2>1
    <3> QED BY <3>1 DEF Storing, Erasing
  <2>2. CASE goes
    BY <1>7, <1>8, <2>2 DEF goes
  <2> QED BY <1>9, <2>1, <2>2
<1>12. op.cmd \notin Stores \cup Erases =>
          /\ K!Busy(cache, op) = {} /\ op.key = 0
          /\ op.cmd # "use" => w.f \notin KeyFile \cup {"meta"}
  <2> SUFFICES ASSUME op.cmd \notin Stores \cup Erases
               PROVE  /\ K!Busy(cache, op) = {} /\ op.key = 0
                      /\ op.cmd # "use" => w.f \notin KeyFile \cup {"meta"}
    OBVIOUS
  <2>1. op.key = 0 /\ op.cmd # "rollback"
    BY DEF KeyInv, Using, Erases
  <2>2. K!Busy(cache, op) = {}
    BY <2>1 DEF K!Busy
  <2>3. ASSUME op.cmd # "use" PROVE w.f \notin KeyFile \cup {"meta"}
    <3>1. op.cmd \in {"sidecar", "domain", "seed", None}
      BY <1>0, <2>3 DEF KeyOps, K!Commands, Stores, Erases
    <3>2. ~Has(op.todo, KeyFile \cup {"meta"})
      BY <3>1 DEF KeyInv, Using
    <3> QED BY <1>5, <3>2
  <2> QED BY <2>1, <2>2, <2>3
<1>13. op.cmd = "use" => /\ Len(op.todo) = 1 /\ w.f = "meta" /\ cache.meta[w.at].count \in Nat \ {0}
                         /\ w.v = K!Spent(cache.meta[w.at]) /\ ends
  <2>1. op.cmd = "use" => /\ Len(op.todo) = 1 /\ w.f = "meta" /\ cache.meta[w.at].count \in Nat \ {0}
                          /\ w.v = K!Spent(cache.meta[w.at])
    BY DEF KeyInv, Using, w
  <2>2. Len(op.todo) = 1 => q = <<>>
    BY <1>1
  <2> QED BY <1>9, <2>1, <2>2
<1>13a. ASSUME NEW s \in K!Slots
       PROVE  /\ op.cmd # "use" => Pending(op', s) = Pending(op, s)
              /\ op.cmd = "use" => Pending(op', s) = 0 /\ Pending(op, s) = IF s = w.at THEN 1 ELSE 0
              /\ ends => Pending(op', s) = 0
  <2>1. op.cmd = "use" => op.source = None /\ ends
    BY <1>0, <1>13 DEF Sourced
  <2>2. ends => Pending(op', s) = 0
    BY <1>9, <1>10 DEF Pending, Waits
  <2>3. op.cmd = "use" => Pending(op, s) = IF s = w.at THEN 1 ELSE 0
    BY <2>1 DEF Pending, Waits, w
  <2>4. ASSUME op.cmd # "use" PROVE Pending(op', s) = Pending(op, s)
    <3>1. CASE goes
      BY <1>9, <2>4, <3>1 DEF Pending, Waits
    <3>2. CASE ends
      BY <1>9, <2>2, <2>4, <3>2 DEF Pending, Waits
    <3>3. CASE counts
      BY <1>9, <2>4, <3>3, KeyNumbers DEF Pending, Waits
    <3> QED BY <1>9, <3>1, <3>2, <3>3
  <2> QED BY <2>1, <2>2, <2>3, <2>4
<1>14. Kept(cache', op', hist)
  <2> SUFFICES ASSUME NEW s \in K!Slots, cache'.key[s] # 0
               PROVE  \/ cache'.key[s] \in hist.exempt \/ Fits(hist, cache'.key[s], cache'.meta[s], Pending(op', s))
                      \/ s = op'.slot /\ cache'.key[s] \in K!Busy(cache', op')
    BY DEF Kept
  <2>1. cache.key[s] # 0 => \/ cache.key[s] \in hist.exempt \/ Fits(hist, cache.key[s], cache.meta[s], Pending(op, s))
                            \/ s = op.slot /\ cache.key[s] \in K!Busy(cache, op)
    BY DEF KeyInv, Kept
  <2>2. op.cmd # "use" => Pending(op', s) = Pending(op, s)
    BY <1>13a
  <2>3. CASE op.cmd \in Stores
    <3>1. /\ w.at = op.slot /\ w.f # "no container"
          /\ w.f \in {"key", "container"} => w.v = op.key
      <4>1. 1 \in 1 .. Len(op.todo)
        BY <1>1
      <4> QED BY <2>3, <4>1 DEF KeyInv, Storing, w
    <3>2. op.cmd # "use" /\ op.cmd # "rollback"
      BY <2>3 DEF Stores
    <3>3. K!Busy(cache, op) \subseteq {op.key} /\ (goes => K!Busy(cache', op') = {op.key} \ {0})
      BY <1>9, <3>2 DEF K!Busy
    <3>4. CASE s # op.slot
      <4>1. cache'.key[s] = cache.key[s] /\ cache'.meta[s] = cache.meta[s]
        BY <1>0, <1>3, <3>1, <3>4 DEF KeyFile, KeyFiles
      <4> QED BY <2>1, <2>2, <3>2, <3>4, <4>1
    <3>5. CASE s = op.slot
      <4>1. /\ Has(q, KeyFile) \/ cache'.key[s] = op.key
            /\ Has(q, {"meta"}) \/ hist.made[op.key] = K!NoMeta \/ op.key \in hist.exempt
               \/ Fits(hist, op.key, cache'.meta[s], 0)
        BY <1>4, <1>7, <2>3, <3>5 DEF Storing
      <4>2. CASE ends
        <5>1. ~Has(q, KeyFile) /\ ~Has(q, {"meta"}) /\ Pending(op', s) = 0
          BY <1>6, <1>9, <1>13a, <4>2
        <5> QED BY <4>1, <5>1, Unlimited
      <4>2a. CASE counts
        <5>1. ~Has(q, KeyFile) /\ hist.made[op.key] = K!NoMeta
          BY <1>6, <1>9, <2>3, <4>2a DEF KeyInv, Storing
        <5> QED BY <4>1, <5>1, Unlimited
      <4>3. CASE goes /\ cache'.key[s] = op.key
        BY <1>9, <3>3, <3>5, <4>3
      <4>4. CASE goes /\ cache'.key[s] # op.key
        <5>1. ~(\A i \in 1 .. Len(q) : q[i].f \notin KeyFile)
          BY <4>1, <4>4 DEF Has
        <5>2. \A i \in 1 .. Len(q) : q[i].f \notin KeyFile
          <6>1. ASSUME NEW i \in 1 .. Len(q) PROVE q[i].f \notin KeyFile
            <7>1. i + 1 \in 1 .. Len(op.todo) /\ i + 1 # 1 /\ q[i] = op.todo[i + 1]
              BY <1>1
            <7> QED BY <2>3, <7>1 DEF KeyInv, Storing
          <6> QED BY <6>1
        <5> QED BY <5>1, <5>2
      <4> QED BY <1>9, <4>2, <4>2a, <4>3, <4>4
    <3> QED BY <3>4, <3>5
  <2>4. CASE op.cmd \in Erases
    <3>1. /\ w.at = op.slot /\ w.f \in {"key", "no container", "meta", "prkd"}
          /\ w.f = "key" => w.v = 0
          /\ w.f \in {"key", "meta"} => op.slot \notin Containers
      <4>1. 1 \in 1 .. Len(op.todo)
        BY <1>1
      <4> QED BY <2>4, <4>1 DEF KeyInv, Erasing, w
    <3>2. op.cmd # "use"
      BY <2>4 DEF Erases
    <3>3. CASE s # op.slot
      <4>1. cache'.key[s] = cache.key[s] /\ cache'.meta[s] = cache.meta[s]
        BY <1>0, <1>3, <3>1, <3>3 DEF KeyFile, KeyFiles
      <4> QED BY <2>1, <2>2, <3>2, <3>3, <4>1
    <3>4. CASE s = op.slot
      <4>1. cache'.key[s] = cache.key[s] /\ w.f \in {"meta", "prkd"}
        BY <1>0, <1>3, <3>1, <3>4 DEF KeyFile, KeyFiles
      <4>2. goes
        <5>1. Has(q, KeyFile)
          BY <1>4, <1>8, <2>4, <3>4 DEF Erasing
        <5> QED BY <1>6, <1>9, <5>1
      <4>3. K!Busy(cache', op') = K!Busy(cache, op)
        BY <1>0, <1>9, <3>4, <4>1, <4>2 DEF K!Busy
      <4>4. CASE w.f = "prkd"
        <5>1. cache'.meta = cache.meta
          BY <1>3, <4>4 DEF KeyFile
        <5> QED BY <1>9, <2>1, <2>2, <3>2, <3>4, <4>1, <4>2, <4>3, <5>1
      <4>5. CASE w.f = "meta"
        <5>1. cache'.key[s] \in K!Busy(cache', op')
          <6>1. CASE op.cmd = "rollback"
            BY <1>0, <1>9, <3>4, <4>2, <6>1 DEF K!Busy
          <6>2. CASE op.cmd = "delete"
            <7>1. cache.key[s] = op.key
              BY <2>4, <3>1, <3>4, <4>1, <4>5, <6>2 DEF KeyInv, Erasing
            <7> QED BY <1>0, <1>9, <4>1, <4>2, <6>2, <7>1 DEF K!Busy
          <6> QED BY <2>4, <6>1, <6>2 DEF Erases
        <5> QED BY <1>9, <3>4, <4>2, <5>1
      <4> QED BY <4>1, <4>4, <4>5
    <3> QED BY <3>3, <3>4
  <2>5. CASE op.cmd = "use"
    <3>1. cache'.key = cache.key /\ w.at \in K!Slots /\ cache'.meta = [cache.meta EXCEPT ![w.at] = K!Spent(cache.meta[w.at])]
      BY <1>3, <1>13, <2>5
    <3>2. K!Busy(cache, op) = {}
      BY <1>12, <2>5 DEF Stores, Erases
    <3>3. CASE s = w.at
      <4> DEFINE m == cache.meta[s]
                 k == cache.key[s]
      <4>1. /\ cache'.meta[s] = K!Spent(m) /\ m.count \in Nat \ {0} /\ m \in Metas
            /\ Pending(op, s) = 1 /\ Pending(op', s) = 0
        BY <1>0, <1>10, <1>13, <1>13a, <2>5, <3>1, <3>3 DEF KeyFiles
      <4>2. K!Spent(m).algos = m.algos /\ K!Spent(m).count = m.count - 1
        BY <4>1 DEF K!Spent, Metas
      <4>3. k \in hist.exempt \/ Fits(hist, k, m, 1)
        BY <2>1, <3>1, <3>2, <4>1
      <4>4. CASE Fits(hist, k, m, 1)
        <5>1. Covers(hist, k, K!Spent(m).algos)
          BY <4>2, <4>4 DEF Fits
        <5>2. ASSUME Bounded(hist, k)
              PROVE  /\ K!Spent(m).count \in Nat
                     /\ hist.uses[k] + K!Spent(m).count <= hist.made[k].count + hist.mishaps + 0
          <6>1. hist.uses[k] \in Nat /\ hist.made[k].count \in Nat /\ hist.mishaps \in Nat
            BY <1>0, <5>2 DEF Bounded, KeyHistories, Metas
          <6>2. hist.uses[k] + m.count <= hist.made[k].count + hist.mishaps + 1
            BY <4>4, <5>2 DEF Fits
          <6> QED BY <4>1, <4>2, <6>1, <6>2
        <5>3. Fits(hist, k, K!Spent(m), 0)
          BY <5>1, <5>2 DEF Fits
        <5> QED BY <3>1, <4>1, <5>3
      <4> QED BY <3>1, <4>3, <4>4
    <3>4. CASE s # w.at
      <4>1. cache'.meta[s] = cache.meta[s] /\ Pending(op, s) = 0 /\ Pending(op', s) = 0
        BY <1>0, <1>13a, <2>5, <3>1, <3>4 DEF KeyFiles
      <4> QED BY <2>1, <3>1, <3>2, <4>1
    <3> QED BY <3>3, <3>4
  <2>6. CASE op.cmd \notin Stores \cup Erases \cup {"use"}
    BY <1>3, <1>12, <2>1, <2>2, <2>6
  <2> QED BY <2>3, <2>4, <2>5, <2>6
<1>15. ASSUME NEW s \in K!Slots, s # w.at PROVE cache'.key[s] = cache.key[s] /\ cache'.meta[s] = cache.meta[s]
  BY <1>0, <1>3, <1>15 DEF KeyFile, KeyFiles
<1>16. Left(flash', op', hist')
  <2>1. CASE w.at \in Containers
    BY <1>2, <1>4, <1>14, <2>1, SameHistory DEF Left, Kept, Unchanged
  <2>2. CASE w.at \notin Containers
    <3> SUFFICES ASSUME NEW s \in K!Slots, flash.key[s] # 0
                 PROVE  \/ flash.key[s] \in hist.exempt \cup hist.part
                        \/ Fits(hist, flash.key[s], flash.meta[s], Pending(op', s))
      BY <1>2, <2>2 DEF Left
    <3>1. \/ flash.key[s] \in hist.exempt \cup hist.part
          \/ Fits(hist, flash.key[s], flash.meta[s], Pending(op, s))
      BY DEF KeyInv, Left
    <3>2. Pending(op', s) = Pending(op, s) \/ s = w.at
      BY <1>13a
    <3>3. s = w.at => ~Bounded(hist, flash.key[s])
      BY <2>2 DEF KeyInv, Placed
    <3> QED BY <3>1, <3>2, <3>3 DEF Fits
  <2> QED BY <2>1, <2>2
<1>17. Placed(cache', flash', hist')
  <2>1. \A s \in K!Slots : Bounded(hist, cache'.key[s]) =>
            s \in Containers /\ \A t \in K!Slots : cache'.key[t] = cache'.key[s] => t = s
    <3> SUFFICES ASSUME NEW s \in K!Slots, Bounded(hist, cache'.key[s])
                 PROVE  s \in Containers /\ \A t \in K!Slots : cache'.key[t] = cache'.key[s] => t = s
      OBVIOUS
    <3>0. Bounded(hist, cache.key[s]) => s \in Containers /\ \A t \in K!Slots : cache.key[t] = cache.key[s] => t = s
      BY DEF KeyInv, Placed
    <3>1. cache'.key[s] # 0
      BY KeyNumbers DEF Bounded
    <3>2. CASE w.f \in {"key", "container"}
      <4>1. w.f \in KeyFile \cup {"meta"} /\ w.f # "meta"
        BY <3>2 DEF KeyFile
      <4>2. op.cmd \in Stores \/ op.cmd \in Erases
        BY <1>12, <1>13, <4>1
      <4>3. CASE op.cmd \in Stores
        <5>1. w.at = op.slot /\ w.v = op.key
          <6>1. 1 \in 1 .. Len(op.todo)
            BY <1>1
          <6> QED BY <3>2, <4>3, <6>1 DEF KeyInv, Storing, w
        <5>2. Bounded(hist, op.key) => op.slot \in Containers /\ \A t \in K!Slots : cache.key[t] = op.key => t = op.slot
          BY <4>3 DEF KeyInv, Storing
        <5>3. cache'.key = [cache.key EXCEPT ![op.slot] = op.key]
          BY <1>3, <3>2, <5>1
        <5> QED BY <1>0, <3>0, <5>2, <5>3 DEF KeyFiles
      <4>4. CASE op.cmd \in Erases
        <5>1. w.v = 0
          <6>1. 1 \in 1 .. Len(op.todo)
            BY <1>1
          <6> QED BY <3>2, <4>4, <6>1 DEF KeyInv, Erasing, w
        <5>2. cache'.key = [cache.key EXCEPT ![w.at] = 0]
          BY <1>3, <3>2, <5>1
        <5> QED BY <1>0, <3>0, <3>1, <5>2 DEF KeyFiles
      <4> QED BY <4>2, <4>3, <4>4
    <3>3. CASE w.f = "no container"
      <4>1. cache'.key = [cache.key EXCEPT ![w.at] = 0]
        BY <1>3, <3>3
      <4> QED BY <1>0, <3>0, <3>1, <4>1 DEF KeyFiles
    <3>4. CASE w.f \notin {"key", "container", "no container"}
      <4>1. cache'.key = cache.key
        BY <1>3, <3>4 DEF KeyFile
      <4> QED BY <3>0, <4>1
    <3> QED BY <3>2, <3>3, <3>4
  <2>2. CASE w.at \in Containers
    BY <1>2, <1>4, <2>1, <2>2, KeyNumbers, SameHistory DEF Placed
  <2>3. CASE w.at \notin Containers
    <3>1. \A s \in Containers : flash.key[s] = cache'.key[s] /\ flash.meta[s] = cache'.meta[s]
      BY <1>15, <2>3, KeyNumbers DEF KeyInv, Placed
    <3>2. \A s \in K!Slots : Bounded(hist, flash.key[s]) => s \in Containers
      BY DEF KeyInv, Placed
    <3> QED BY <1>2, <2>1, <2>3, <3>1, <3>2 DEF Placed
  <2> QED BY <2>2, <2>3
<1>18. Drawn(cache', flash', op', hist')
  <2> USE DEF KeyInv, Drawn
  <2>1. \A s \in K!Slots : cache'.key[s] <= hist.keys
    <3> SUFFICES ASSUME NEW s \in K!Slots PROVE cache'.key[s] <= hist.keys
      OBVIOUS
    <3>1. CASE w.f = "key" \/ w.f = "container"
      <4>1. w.v <= hist.keys
        <5>1. 1 \in 1 .. Len(op.todo)
          BY <1>1
        <5>2. w.f \in KeyFile \cup {"meta"} /\ w.f # "meta"
          BY <3>1 DEF KeyFile
        <5>3. op.cmd \in Stores => w.v = op.key
          BY <3>1, <5>1 DEF Storing, w
        <5>4. op.cmd \in Erases => w.v = 0
          BY <3>1, <5>1 DEF Erasing, w
        <5> QED BY <1>10, <1>12, <1>13, <5>2, <5>3, <5>4
      <4> QED BY <1>0, <1>3, <3>1, <4>1 DEF KeyFiles
    <3>2. CASE w.f # "key" /\ w.f # "container"
      <4>1. cache'.key[s] = cache.key[s] \/ cache'.key[s] = 0
        BY <1>0, <1>3, <3>2 DEF KeyFile, KeyFiles
      <4> QED BY <1>10, <4>1
    <3> QED BY <3>1, <3>2
  <2>2. \A s \in K!Slots : flash'.key[s] <= hist.keys
    BY <1>2, <2>1
  <2>3. \A k \in hist'.part : k <= hist.keys
    <3>1. \A k \in hist.part : k <= hist.keys
      OBVIOUS
    <3>2. \A k \in K!Busy(cache', op') : k <= hist.keys
      <4>1. CASE ends \/ counts
        BY <1>9, <4>1
      <4>2. CASE goes
        <5>1. op.cmd = "rollback" => op.slot \in K!Slots
          BY <1>0 DEF KeyShaped, Erases
        <5> QED BY <1>9, <2>1, <4>2, <5>1 DEF K!Busy
      <4> QED BY <1>9, <4>1, <4>2
    <3> QED BY <1>4, <3>1, <3>2
  <2>4. op'.key <= hist.keys
    BY <1>9, <1>10
  <2> QED BY <1>4, <2>1, <2>2, <2>3, <2>4, SameHistory DEF Unchanged
<1>19. Using(cache', op')
  <2>1. CASE ends
    <3>1. op'.cmd = None /\ op'.key = 0 /\ ~Has(op'.todo, KeyFile \cup {"meta"})
      BY <1>9, <2>1 DEF Has
    <3> QED BY <1>10, <3>1 DEF Using
  <2>2. CASE counts
    BY <1>9, <1>10, <2>2 DEF Using
  <2>3. CASE goes
    <3>1. op.cmd # "use"
      <4>1. op.cmd = "use" => ends
        BY <1>13
      <4> QED BY <1>9, <2>3, <4>1
    <3>2. /\ op.cmd \in {"sidecar", "domain", "seed", None} => ~Has(op.todo, KeyFile \cup {"meta"})
          /\ op.cmd \notin Stores \cup Erases => op.key = 0
      BY DEF KeyInv, Using
    <3> QED BY <1>5, <1>9, <2>3, <3>1, <3>2 DEF Using
  <2> QED BY <1>9, <2>1, <2>2, <2>3
<1>20. Kept(cache', op', hist') /\ Storing(cache', op', hist') /\ Erasing(cache', op', hist')
  <2>1. Kept(cache', op', hist')
    BY <1>4, <1>14, SameHistory DEF Kept, Unchanged
  <2>2. Storing(cache', op', hist')
    BY <1>4, <1>11, SameHistory DEF Storing, Unchanged
  <2> QED BY <1>11, <2>1, <2>2 DEF Erasing
<1> QED BY <1>16, <1>17, <1>18, <1>19, <1>20 DEF KeyInv
\* What erasing a key writes, and that it ends with the key.
EraseList(s, q) ==
    /\ \A i \in 1 .. Len(q) :
          LET w == q[i] IN
          /\ w.at = s /\ w.f \in {"key", "no container", "meta", "prkd"}
          /\ w.f = "key" => w.v = 0
          /\ w.f \in {"key", "meta"} => s \notin Containers
    /\ Has(q, KeyFile)

LEMMA EraseShape == ASSUME NEW s \in K!Slots PROVE EraseList(s, K!DeleteWrites(s)) /\ EraseList(s, K!RollbackWrites(s))
<1> DEFINE N == K!Put("no container", s, None)
           F == K!Put("key", s, 0)
           M == K!Put("meta", s, K!NoMeta)
           P == K!Put("prkd", s, FALSE)
           a == K!DeleteWrites(s)
           b == <<P>>
<1>1. /\ N.f = "no container" /\ N.at = s /\ F.f = "key" /\ F.at = s /\ F.v = 0
      /\ M.f = "meta" /\ M.at = s /\ P.f = "prkd" /\ P.at = s
  BY DEF K!Put
<1>2. /\ a \in Seq(KeyWrites) /\ b \in Seq(KeyWrites) /\ Len(b) = 1 /\ b[1] = P
      /\ s \in Containers => Len(a) = 1 /\ a[1] = N
      /\ s \notin Containers => Len(a) = 2 /\ a[1] = M /\ a[2] = F
  <2>1. /\ a \in Seq(KeyWrites) /\ (s \in Containers => a = <<N>>) /\ (s \notin Containers => a = <<M, F>>)
    BY DeleteTypes
  <2>2. P \in KeyWrites
    BY KeyPutTypes
  <2> HIDE DEF a, P, N, M, F
  <2>3. s \in Containers => Len(a) = 1 /\ a[1] = N
    BY <2>1
  <2>4. s \notin Containers => Len(a) = 2 /\ a[1] = M /\ a[2] = F
    BY <2>1
  <2>5. b \in Seq(KeyWrites) /\ Len(b) = 1 /\ b[1] = P
    BY <2>2
  <2> QED BY <2>1, <2>3, <2>4, <2>5
<1> HIDE DEF N, F, M, P, a, b
<1>3. EraseList(s, a)
  <2>1. CASE s \in Containers
    <3>1. Len(a) = 1 /\ a[1] = N
      BY <1>2, <2>1
    <3>2. \A i \in 1 .. 1 : i = 1
      OBVIOUS
    <3>3. Has(a, KeyFile)
      <4>1. 1 \in 1 .. 1
        OBVIOUS
      <4>2. a[1].f = "no container"
        BY <1>1, <3>1
      <4>3. "no container" \in KeyFile
        BY DEF KeyFile
      <4> QED BY <3>1, <4>1, <4>2, <4>3 DEF Has
    <3> QED BY <1>1, <2>1, <3>1, <3>2, <3>3 DEF EraseList
  <2>2. CASE s \notin Containers
    <3>1. Len(a) = 2 /\ a[1] = M /\ a[2] = F
      BY <1>2, <2>2
    <3>2. \A i \in 1 .. 2 : i = 1 \/ i = 2
      OBVIOUS
    <3>3. Has(a, KeyFile)
      <4>1. 2 \in 1 .. 2
        OBVIOUS
      <4>2. a[2].f = "key"
        BY <1>1, <3>1
      <4>3. "key" \in KeyFile
        BY DEF KeyFile
      <4> QED BY <3>1, <4>1, <4>2, <4>3 DEF Has
    <3> QED BY <1>1, <2>2, <3>1, <3>2, <3>3 DEF EraseList
  <2> QED BY <2>1, <2>2
<1>4. EraseList(s, a \o b)
  <2>1. /\ Len(a \o b) = Len(a) + 1 /\ Len(a) \in {1, 2}
        /\ \A i \in 1 .. Len(a) + Len(b) : (a \o b)[i] = IF i <= Len(a) THEN a[i] ELSE b[i - Len(a)]
    BY <1>2, ConcatProperties
  <2> DEFINE c == a \o b
  <2>2. ASSUME NEW i \in 1 .. Len(c) PROVE (i \in 1 .. Len(a) /\ c[i] = a[i]) \/ c[i] = P
    <3>1. CASE i <= Len(a)
      BY <1>2, <2>1, <3>1
    <3>2. CASE ~(i <= Len(a))
      <4>1. i = Len(a) + 1
        BY <2>1, <3>2
      <4>2. i - Len(a) = 1 /\ i \in 1 .. Len(a) + Len(b)
        BY <1>2, <2>1, <4>1
      <4> QED BY <1>2, <2>1, <3>2, <4>2
    <3> QED BY <3>1, <3>2
  <2>3. Has(c, KeyFile)
    <3>1. PICK i \in 1 .. Len(a) : a[i].f \in KeyFile
      BY <1>3 DEF EraseList, Has
    <3>2. i \in 1 .. Len(c) /\ c[i] = a[i]
      BY <1>2, <2>1
    <3> QED BY <3>1, <3>2 DEF Has
  <2> HIDE DEF c
  <2>4. ASSUME NEW i \in 1 .. Len(c)
        PROVE  LET w == c[i] IN
               /\ w.at = s /\ w.f \in {"key", "no container", "meta", "prkd"}
               /\ w.f = "key" => w.v = 0
               /\ w.f \in {"key", "meta"} => s \notin Containers
    BY <1>1, <1>3, <2>2 DEF EraseList
  <2>5. EraseList(s, c)
    BY <2>3, <2>4 DEF EraseList
  <2> QED BY <2>5 DEF c
<1> QED BY <1>3, <1>4 DEF a, b, P, K!RollbackWrites

\* A failed write
LEMMA KeyFaultKeeps == ASSUME KeyInv, KeyTypes', K!Fault PROVE KeyInv'
<1> DEFINE E == IF op.cmd \in {"keypair", "unwrap", "delete", "rollback"} THEN K!Busy(cache, op) ELSE {}
<1>0. /\ cache \in KeyFiles /\ flash \in KeyFiles /\ op \in KeyOps /\ hist \in KeyHistories /\ hist' \in KeyHistories
      /\ KeyShaped(op) /\ op.pc = "write"
  BY DEF KeyInv, KeyTypes, K!Fault
<1>1. hist' = [hist EXCEPT !.mishaps = @ + 1, !.exempt = @ \cup E] /\ UNCHANGED <<cache, flash>>
  BY DEF K!Fault, K!Mishap
<1>2. /\ hist'.mishaps = hist.mishaps + 1 /\ hist.mishaps \in Nat /\ hist'.exempt = hist.exempt \cup E
      /\ hist'.part = hist.part /\ hist'.keys = hist.keys /\ hist'.made = hist.made /\ hist'.uses = hist.uses
      /\ hist'.blobs = hist.blobs /\ hist'.filed = hist.filed
      /\ \A k : Grown(hist, hist', k)
  BY <1>0, <1>1 DEF KeyHistories, Grown
<1>3. /\ op.cmd = "keygen" => /\ op'.cmd = "rollback" /\ op'.slot = op.slot /\ op'.key = op.key /\ op'.pc = "write"
                              /\ op'.todo = K!RollbackWrites(op.slot) /\ op.slot \in K!Slots
      /\ op.cmd # "keygen" => op' = K!Idle
      /\ op'.source = None
  BY <1>0, KeyIdle DEF K!Fault, KeyOps, KeyShaped, Stores, KeyInv, KeyTypes, Sourced
<1>4. /\ None \notin Stores \cup Erases \cup {"use"} /\ "rollback" \notin Stores \cup {"use"}
      /\ \A s \in K!Slots : /\ cache.key[s] # 0 => cache.key[s] \in K!Keys
                            /\ flash.key[s] # 0 => flash.key[s] \in K!Keys
                            /\ cache.meta[s] \in Metas /\ flash.meta[s] \in Metas
      /\ hist.keys \in Nat /\ op.key \in Nat
  BY KeyNumbers, DrawnKeys DEF K!Commands, Stores, Erases, KeyInv
<1> HIDE DEF E
<1>5. ASSUME NEW s \in K!Slots PROVE Pending(op', s) = 0 /\ Pending(op, s) \in {0, 1}
  BY <1>3, <1>4, KeyIdle DEF Pending, Waits
<1>6. ASSUME NEW k \in K!Keys, NEW m \in Metas, NEW s \in K!Slots, Fits(hist, k, m, Pending(op, s))
      PROVE  Fits(hist', k, m, Pending(op', s))
  <2>1. hist.mishaps + Pending(op, s) <= hist'.mishaps + Pending(op', s)
    BY <1>2, <1>5
  <2> QED BY <1>0, <1>2, <1>5, <1>6, <2>1, GrownFits
<1>7. Kept(cache', op', hist')
  <2> SUFFICES ASSUME NEW s \in K!Slots, cache.key[s] # 0
               PROVE  \/ cache.key[s] \in hist'.exempt \/ Fits(hist', cache.key[s], cache.meta[s], Pending(op', s))
                      \/ s = op'.slot /\ cache.key[s] \in K!Busy(cache, op')
    BY <1>1 DEF Kept
  <2>1. \/ cache.key[s] \in hist.exempt \/ Fits(hist, cache.key[s], cache.meta[s], Pending(op, s))
        \/ s = op.slot /\ cache.key[s] \in K!Busy(cache, op)
    BY DEF KeyInv, Kept
  <2>2. CASE s = op.slot /\ cache.key[s] \in K!Busy(cache, op)
    <3>1. CASE op.cmd = "keygen"
      BY <1>3, <2>2, <3>1 DEF K!Busy
    <3>2. CASE op.cmd \in {"keypair", "unwrap", "delete", "rollback"}
      BY <1>2, <2>2, <3>2 DEF E
    <3>3a. CASE op.cmd = "derive"
      <4>1. cache.key[s] = op.key /\ hist.made[op.key] = K!NoMeta
        BY <2>2, <3>3a DEF K!Busy, KeyInv, Storing, Stores
      <4> QED BY <1>2, <4>1, Unlimited
    <3>3. CASE op.cmd \notin {"keygen", "keypair", "unwrap", "delete", "rollback", "derive"}
      <4>1. op.key = 0
        BY <3>3 DEF KeyInv, Using, Stores, Erases
      <4> QED BY <2>2, <3>3, <4>1 DEF K!Busy
    <3> QED BY <3>1, <3>2, <3>3, <3>3a
  <2> QED BY <1>2, <1>4, <1>6, <2>1, <2>2
<1>8. Left(flash', op', hist')
  <2> SUFFICES ASSUME NEW s \in K!Slots, flash.key[s] # 0
               PROVE  \/ flash.key[s] \in hist'.exempt \cup hist'.part
                      \/ Fits(hist', flash.key[s], flash.meta[s], Pending(op', s))
    BY <1>1 DEF Left
  <2>1. \/ flash.key[s] \in hist.exempt \cup hist.part \/ Fits(hist, flash.key[s], flash.meta[s], Pending(op, s))
    BY DEF KeyInv, Left
  <2> QED BY <1>2, <1>4, <1>6, <2>1
<1>9. \A k : Bounded(hist', k) => Bounded(hist, k)
  BY <1>2 DEF Bounded
<1>10. Placed(cache', flash', hist')
  BY <1>1, <1>9 DEF KeyInv, Placed
<1>11. Drawn(cache', flash', op', hist')
  <2> USE DEF KeyInv, Drawn
  <2>1. \A k \in E : k <= hist.keys
    <3>1. op.cmd = "rollback" => op.slot \in K!Slots
      BY <1>0 DEF KeyShaped, Erases
    <3> QED BY <3>1 DEF E, K!Busy
  <2>2. op'.key <= hist.keys
    BY <1>3, <1>4, KeyIdle
  <2>3. ASSUME NEW b \in hist.blobs PROVE b.key \in hist'.exempt \/ Covers(hist', b.key, b.algos)
    <3>1. b.key \in hist.exempt \/ Covers(hist, b.key, b.algos)
      OBVIOUS
    <3> QED BY <1>2, <3>1 DEF Covers
  <2>4. ASSUME NEW k \in K!Keys, Bounded(hist', k)
        PROVE  hist'.uses[k] <= hist'.made[k].count + hist'.mishaps /\ hist'.made[k].count \in Nat
    <3>1. Bounded(hist, k) => hist.uses[k] <= hist.made[k].count + hist.mishaps /\ hist.made[k].count \in Nat
      OBVIOUS
    <3>2. Grown(hist, hist', k) /\ hist.mishaps <= hist'.mishaps
      BY <1>2
    <3> QED BY <1>0, <2>4, <3>1, <3>2, GrownFits
  <2> QED BY <1>1, <1>2, <2>1, <2>2, <2>3, <2>4
<1>12. Storing(cache', op', hist') /\ Using(cache', op')
  BY <1>3, <1>4, KeyIdle DEF Storing, Using, Has, Erases
<1>13. Erasing(cache', op', hist')
  <2>1. CASE op.cmd = "keygen"
    <3>1. EraseList(op.slot, op'.todo)
      BY <1>3, <2>1, EraseShape
    <3>2. op'.cmd = "rollback" /\ op'.slot = op.slot
      BY <1>3, <2>1
    <3> QED BY <3>1, <3>2 DEF EraseList, Erasing
  <2>2. CASE op.cmd # "keygen"
    BY <1>3, <1>4, <2>2, KeyIdle DEF Erasing
  <2> QED BY <2>1, <2>2
<1> QED BY <1>7, <1>8, <1>10, <1>11, <1>12, <1>13 DEF KeyInv

\* What waited is written out, or lost with the memory.
LEMMA KeyLossKeeps == ASSUME KeyInv, KeyTypes', K!Drain \/ K!PowerLoss PROVE KeyInv'
<1>0. /\ cache \in KeyFiles /\ flash \in KeyFiles /\ op \in KeyOps /\ hist \in KeyHistories /\ hist' \in KeyHistories
      /\ KeyShaped(op)
  BY DEF KeyInv, KeyTypes
<1>1. /\ None \notin Stores \cup Erases \cup {"use"}
      /\ \A s \in K!Slots : /\ cache.key[s] # 0 => cache.key[s] \in K!Keys
                            /\ flash.key[s] # 0 => flash.key[s] \in K!Keys
                            /\ cache.meta[s] \in Metas /\ flash.meta[s] \in Metas
      /\ hist.keys \in Nat /\ op.key \in Nat
  BY KeyNumbers, DrawnKeys DEF K!Commands, Stores, Erases, KeyInv
<1>2. CASE K!Drain
  <2>1. /\ flash' = cache /\ UNCHANGED <<cache, op>> /\ Unchanged(hist, hist')
        /\ hist'.part = K!Busy(cache, op)
    BY <1>0, <1>2 DEF K!Drain, Unchanged, KeyHistories
  <2>2. Kept(cache', op', hist') /\ Storing(cache', op', hist') /\ Erasing(cache', op', hist') /\ Using(cache', op')
    <3>1. Kept(cache', op', hist')
      BY <2>1, SameHistory DEF KeyInv, Kept, Unchanged
    <3>2. Storing(cache', op', hist')
      BY <2>1, SameHistory DEF KeyInv, Storing, Unchanged
    <3>3. Erasing(cache', op', hist') /\ Using(cache', op')
      BY <2>1 DEF KeyInv, Erasing, Using
    <3> QED BY <3>1, <3>2, <3>3
  <2>3. Left(flash', op', hist')
    BY <2>1, SameHistory DEF KeyInv, Kept, Left, Unchanged
  <2>4. Placed(cache', flash', hist')
    BY <2>1, SameHistory DEF KeyInv, Placed
  <2>5. Drawn(cache', flash', op', hist')
    <3>1. \A k \in K!Busy(cache, op) : k <= hist.keys
      <4>1. op.cmd = "rollback" => op.slot \in K!Slots
        BY <1>0 DEF KeyShaped, Erases
      <4> QED BY <4>1 DEF K!Busy, KeyInv, Drawn
    <3> QED BY <2>1, <3>1, SameHistory DEF KeyInv, Drawn, Unchanged
  <2> QED BY <2>2, <2>3, <2>4, <2>5 DEF KeyInv
<1>3. CASE K!PowerLoss
  <2>1. /\ cache' = flash /\ flash' = flash /\ op' = K!Idle
        /\ hist'.mishaps = hist.mishaps + 1 /\ hist.mishaps \in Nat /\ hist'.exempt = hist.exempt \cup hist.part
        /\ hist'.part = hist.part /\ hist'.keys = hist.keys /\ hist'.made = hist.made /\ hist'.uses = hist.uses
        /\ hist'.blobs = hist.blobs /\ hist'.filed = hist.filed
        /\ \A k : Grown(hist, hist', k)
    BY <1>0, <1>3 DEF K!PowerLoss, K!Mishap, KeyHistories, Grown
  <2>2. ASSUME NEW s \in K!Slots PROVE Pending(op', s) = 0 /\ Pending(op, s) \in {0, 1}
    BY <1>1, <2>1, KeyIdle DEF Pending, Waits
  <2>3. ASSUME NEW s \in K!Slots, flash.key[s] # 0
        PROVE  flash.key[s] \in hist'.exempt \/ Fits(hist', flash.key[s], flash.meta[s], Pending(op', s))
    <3>1. \/ flash.key[s] \in hist.exempt \cup hist.part \/ Fits(hist, flash.key[s], flash.meta[s], Pending(op, s))
      BY <2>3 DEF KeyInv, Left
    <3>2. hist.mishaps + Pending(op, s) <= hist'.mishaps + Pending(op', s)
      BY <2>1, <2>2
    <3>3. Grown(hist, hist', flash.key[s]) /\ flash.key[s] \in K!Keys /\ flash.meta[s] \in Metas
      BY <1>1, <2>1, <2>3
    <3> QED BY <1>0, <2>1, <2>2, <3>1, <3>2, <3>3, GrownFits
  <2>4. Kept(cache', op', hist') /\ Left(flash', op', hist')
    BY <2>1, <2>3 DEF Kept, Left
  <2>5. \A k : Bounded(hist', k) => Bounded(hist, k)
    BY <2>1 DEF Bounded
  <2>6. Placed(cache', flash', hist')
    <3>1. ASSUME NEW s \in K!Slots, Bounded(hist, flash.key[s]), NEW t \in K!Slots, flash.key[t] = flash.key[s]
          PROVE  s \in Containers /\ t = s
      <4>1. s \in Containers /\ t \in Containers
        BY <3>1 DEF KeyInv, Placed
      <4>2. cache.key[s] = flash.key[s] /\ cache.key[t] = flash.key[t]
        BY <4>1 DEF KeyInv, Placed
      <4> QED BY <3>1, <4>1, <4>2 DEF KeyInv, Placed
    <3>2. \A s \in K!Slots : Bounded(hist, flash.key[s]) => s \in Containers
      BY DEF KeyInv, Placed
    <3> QED BY <2>1, <2>5, <3>1, <3>2 DEF Placed
  <2>7. Drawn(cache', flash', op', hist')
    <3> USE DEF KeyInv, Drawn
    <3>1. op'.key <= hist.keys
      BY <1>1, <2>1, KeyIdle
    <3>2. ASSUME NEW b \in hist.blobs PROVE b.key \in hist'.exempt \/ Covers(hist', b.key, b.algos)
      <4>1. b.key \in hist.exempt \/ Covers(hist, b.key, b.algos)
        OBVIOUS
      <4> QED BY <2>1, <4>1 DEF Covers
    <3>3. ASSUME NEW k \in K!Keys, Bounded(hist', k)
          PROVE  hist'.uses[k] <= hist'.made[k].count + hist'.mishaps /\ hist'.made[k].count \in Nat
      <4>1. Bounded(hist, k) => hist.uses[k] <= hist.made[k].count + hist.mishaps /\ hist.made[k].count \in Nat
        OBVIOUS
      <4>2. Grown(hist, hist', k) /\ hist.mishaps <= hist'.mishaps
        BY <2>1
      <4> QED BY <1>0, <3>3, <4>1, <4>2, GrownFits
    <3> QED BY <2>1, <3>1, <3>2, <3>3
  <2>8. Storing(cache', op', hist') /\ Erasing(cache', op', hist') /\ Using(cache', op')
    BY <1>1, <2>1, KeyIdle DEF Storing, Erasing, Using, Has
  <2> QED BY <2>4, <2>6, <2>7, <2>8 DEF KeyInv
<1> QED BY <1>2, <1>3

\* What storing a key writes: the key first.
StoreList(s, k, q) ==
    /\ \A i \in 1 .. Len(q) :
          LET w == q[i] IN
          /\ w.at = s /\ w.f \in {"key", "container", "meta", "prkd", "cert"}
          /\ w.f = "key" => w.v = k /\ s \notin Containers
          /\ w.f = "container" => w.v = k
          /\ w.f \in KeyFile => i = 1
    /\ Has(q, KeyFile)

LEMMA StoreShape ==
    ASSUME NEW s \in K!Slots, NEW k \in Nat, NEW b \in Seq(KeyWrites), NEW c \in Seq(KeyWrites),
           \A j \in 1 .. Len(b) : b[j].at = s /\ b[j].f \in {"meta", "cert"},
           \A j \in 1 .. Len(c) : c[j].at = s /\ c[j].f = "cert"
    PROVE  LET q == K!StoreKeys(s, k) \o b \o c IN
           /\ StoreList(s, k, q)
           /\ \A i \in 1 .. Len(q) : q[i].f = "meta" => \E j \in 1 .. Len(b) : q[i] = b[j]
           /\ Has(b, {"meta"}) => Has(q, {"meta"})
<1> DEFINE a == K!StoreKeys(s, k)
           q == a \o b \o c
           K1 == K!Put(IF s \in Containers THEN "container" ELSE "key", s, k)
           P == K!Put("prkd", s, TRUE)
<1>1. a \in Seq(KeyWrites) /\ Len(a) \in {1, 2} /\ a[1] = K1 /\ (Len(a) = 2 => a[2] = P)
  BY StoreKeysTypes
<1>2. /\ K1.at = s /\ K1.v = k /\ K1.f = (IF s \in Containers THEN "container" ELSE "key")
      /\ P.at = s /\ P.f = "prkd"
  BY DEF K!Put
<1> HIDE DEF a, K1, P
<1>3. /\ q \in Seq(KeyWrites) /\ Len(q) = Len(a) + Len(b) + Len(c)
      /\ Len(b) \in Nat /\ Len(c) \in Nat
      /\ \A i \in 1 .. Len(a) : q[i] = a[i]
      /\ \A j \in 1 .. Len(b) : q[Len(a) + j] = b[j]
      /\ \A i \in 1 .. Len(q) :
            \/ i \in 1 .. Len(a) /\ q[i] = a[i]
            \/ i - Len(a) \in 1 .. Len(b) /\ q[i] = b[i - Len(a)]
            \/ i - Len(a) - Len(b) \in 1 .. Len(c) /\ q[i] = c[i - Len(a) - Len(b)]
  <2>1. a \in Seq(KeyWrites) /\ b \in Seq(KeyWrites) /\ c \in Seq(KeyWrites)
    BY <1>1
  <2>2. Len(b) \in Nat /\ Len(c) \in Nat
    BY <2>1, LenProperties
  <2>3. Joined(KeyWrites, a, b, c, q)
    BY <2>1, ThreeParts
  <2> HIDE DEF q
  <2> QED BY <2>2, <2>3 DEF Joined
<1> HIDE DEF q
<1>4. ASSUME NEW i \in 1 .. Len(q)
      PROVE  \/ (i = 1 /\ q[i] = K1)
             \/ q[i] = P
             \/ (\E j \in 1 .. Len(b) : q[i] = b[j])
             \/ (\E j \in 1 .. Len(c) : q[i] = c[j])
  <2>1. CASE i \in 1 .. Len(a) /\ q[i] = a[i]
    <3>1. i = 1 \/ (i = 2 /\ Len(a) = 2)
      <4>1. \A n \in {1, 2} : \A x \in 1 .. n : x = 1 \/ (x = 2 /\ n = 2)
        OBVIOUS
      <4> QED BY <1>1, <2>1, <4>1
    <3> QED BY <1>1, <2>1, <3>1
  <2>2. CASE i - Len(a) \in 1 .. Len(b) /\ q[i] = b[i - Len(a)]
    BY <2>2
  <2>3. CASE i - Len(a) - Len(b) \in 1 .. Len(c) /\ q[i] = c[i - Len(a) - Len(b)]
    BY <2>3
  <2> QED BY <1>3, <2>1, <2>2, <2>3
<1>5. \A i \in 1 .. Len(q) : q[i].f = "meta" => \E j \in 1 .. Len(b) : q[i] = b[j]
  BY <1>2, <1>4
<1>6. 1 \in 1 .. Len(q) /\ q[1] = K1
  <2>1. 1 \in 1 .. Len(a) /\ Len(a) >= 1
    BY <1>1
  <2> QED BY <1>1, <1>3, <2>1
<1>7. Has(q, KeyFile)
  BY <1>2, <1>6 DEF Has, KeyFile
<1>8. ASSUME NEW i \in 1 .. Len(q)
      PROVE  LET w == q[i] IN
             /\ w.at = s /\ w.f \in {"key", "container", "meta", "prkd", "cert"}
             /\ w.f = "key" => w.v = k /\ s \notin Containers
             /\ w.f = "container" => w.v = k
             /\ w.f \in KeyFile => i = 1
  <2>1. CASE i = 1 /\ q[i] = K1
    BY <1>2, <2>1
  <2>2. CASE q[i] = P
    BY <1>2, <2>2 DEF KeyFile
  <2>3. CASE (\E j \in 1 .. Len(b) : q[i] = b[j]) \/ (\E j \in 1 .. Len(c) : q[i] = c[j])
    <3>1. q[i].at = s /\ q[i].f \in {"meta", "cert"}
      BY <2>3
    <3> QED BY <3>1 DEF KeyFile
  <2> QED BY <1>4, <2>1, <2>2, <2>3
<1>9. Has(b, {"meta"}) => Has(q, {"meta"})
  <2> SUFFICES ASSUME NEW j \in 1 .. Len(b), b[j].f = "meta" PROVE Has(q, {"meta"})
    BY DEF Has
  <2>1. Len(a) + j \in 1 .. Len(q) /\ q[Len(a) + j] = b[j]
    BY <1>1, <1>3
  <2> QED BY <2>1 DEF Has
<1> QED BY <1>5, <1>7, <1>8, <1>9 DEF StoreList, q, a

\* A command that starts, or changes nothing that counts: the keys are as they were.
LEMMA KeyCommandKeeps ==
    ASSUME KeyInv, op = K!Idle, UNCHANGED <<cache, flash>>, Unchanged(hist, hist'), hist'.part = hist.part,
           op'.cmd # "use", op'.source = None, op'.key <= hist.keys
    PROVE  Kept(cache', op', hist') /\ Left(flash', op', hist') /\ Placed(cache', flash', hist')
           /\ Drawn(cache', flash', op', hist')
<1>1. \A s : Pending(op', s) = 0 /\ Pending(op, s) = 0
  BY KeyNumbers, KeyIdle DEF Pending, Waits, K!Commands
<1>2. K!Busy(cache, op) = {}
  BY KeyIdle DEF K!Busy
<1>3. Kept(cache', op', hist') /\ Left(flash', op', hist')
  BY <1>1, <1>2, SameHistory DEF KeyInv, Kept, Left, Unchanged
<1>4. Placed(cache', flash', hist')
  BY SameHistory DEF KeyInv, Placed
<1> QED BY <1>3, <1>4, SameHistory DEF KeyInv, Drawn, Unchanged

\* No handler is in progress, or one that leaves keys and metadata alone.
LEMMA KeyAside ==
    ASSUME NEW c, NEW h, NEW o, o.cmd \in {"sidecar", "domain", "seed", None}, o.key = 0,
           ~Has(o.todo, KeyFile \cup {"meta"})
    PROVE  Storing(c, o, h) /\ Erasing(c, o, h) /\ Using(c, o)
BY KeyNumbers DEF Storing, Erasing, Using, Stores, Erases, K!Commands

\* What is kept of the keys, without what a handler has still to write
Rules(c, f, o, h) == Kept(c, o, h) /\ Left(f, o, h) /\ Placed(c, f, h) /\ Drawn(c, f, o, h)

\* A key is drawn for a template, and nothing else that counts changes.
Draws(c, o, o2, h, h2, t) ==
    /\ K!Busy(c, o) = {} /\ (\A x : Pending(o2, x) = Pending(o, x) /\ Pending(o, x) \in {0, 1})
    /\ h.keys < MaxKeys /\ h2.keys = h.keys + 1 /\ o2.key = h2.keys
    /\ h2.made = [h.made EXCEPT ![h2.keys] = t] /\ h2.uses = h.uses /\ h2.blobs = h.blobs
    /\ h2.exempt = h.exempt /\ h2.part = h.part /\ h2.mishaps = h.mishaps
    /\ h2.filed \in {h.filed, h.filed \cup {h2.keys}}

\* A handler begins with a key that was drawn, of which nothing is stored yet.
LEMMA KeyDrawn ==
    ASSUME NEW c \in KeyFiles, NEW f \in KeyFiles, NEW h \in KeyHistories, NEW h2 \in KeyHistories,
           NEW o, NEW o2, NEW t \in Metas, Rules(c, f, o, h), Draws(c, o, o2, h, h2, t)
    PROVE  /\ Rules(c, f, o2, h2) /\ Fits(h2, h2.keys, t, 0) /\ h2.keys \in K!Keys /\ h2.made[h2.keys] = t
           /\ \A x \in K!Slots : c.key[x] # h2.keys
<1> DEFINE k == h2.keys
<1>0. /\ K!Busy(c, o) = {} /\ (\A x : Pending(o2, x) = Pending(o, x) /\ Pending(o, x) \in {0, 1})
      /\ h.keys < MaxKeys /\ k = h.keys + 1 /\ o2.key = k /\ h2.keys = k
      /\ h2.made = [h.made EXCEPT ![k] = t] /\ h2.uses = h.uses /\ h2.blobs = h.blobs
      /\ h2.exempt = h.exempt /\ h2.part = h.part /\ h2.mishaps = h.mishaps
      /\ h2.filed \in {h.filed, h.filed \cup {k}}
  BY DEF Draws
<1> HIDE DEF k
<1>1. k \in K!Keys /\ k \in Nat /\ h.keys \in Nat /\ h.keys < k
  <2>1. h.keys \in Nat /\ MaxKeys \in Nat /\ K!Keys = 1 .. MaxKeys
    BY <1>0, KeyNumbers DEF KeyHistories
  <2> QED BY <1>0, <2>1
<1>2. /\ \A x \in K!Slots : /\ c.key[x] \in Nat /\ f.key[x] \in Nat /\ c.meta[x] \in Metas /\ f.meta[x] \in Metas
                            /\ c.key[x] <= h.keys /\ f.key[x] <= h.keys
                            /\ c.key[x] # 0 => c.key[x] \in K!Keys
                            /\ f.key[x] # 0 => f.key[x] \in K!Keys
                            /\ c.key[x] # k /\ f.key[x] # k
      /\ h2.made[k] = t /\ h.uses[k] = 0 /\ h.mishaps \in Nat
  <2>1. \A x \in K!Slots : /\ c.key[x] \in Nat /\ f.key[x] \in Nat /\ c.meta[x] \in Metas /\ f.meta[x] \in Metas
                           /\ c.key[x] <= h.keys /\ f.key[x] <= h.keys /\ h.keys <= MaxKeys
    BY <1>0 DEF KeyFiles, Rules, Drawn
  <2>2. h.uses[k] = 0
    BY <1>0, <1>1 DEF Rules, Drawn
  <2>3. h2.made[k] = t /\ h.mishaps \in Nat
    BY <1>0, <1>1 DEF KeyHistories
  <2> QED BY <1>0, <1>1, <2>1, <2>2, <2>3, KeyNumbers
<1>3. \A x \in K!Keys : x # k => Grown(h, h2, x)
  BY <1>0 DEF Grown, KeyHistories
<1>4. ASSUME NEW x \in K!Keys, x # k, NEW n \in Metas, NEW y \in {0, 1}, Fits(h, x, n, y) PROVE Fits(h2, x, n, y)
  BY <1>0, <1>2, <1>3, <1>4, GrownFits
<1>5. Kept(c, o2, h2)
  <2> SUFFICES ASSUME NEW x \in K!Slots, c.key[x] # 0
               PROVE  c.key[x] \in h.exempt \/ Fits(h2, c.key[x], c.meta[x], Pending(o2, x))
    BY <1>0 DEF Kept
  <2>1. c.key[x] \in h.exempt \/ Fits(h, c.key[x], c.meta[x], Pending(o, x))
    BY <1>0 DEF Rules, Kept
  <2> QED BY <1>0, <1>2, <1>4, <2>1
<1>6. Left(f, o2, h2)
  <2> SUFFICES ASSUME NEW x \in K!Slots, f.key[x] # 0
               PROVE  f.key[x] \in h.exempt \cup h.part \/ Fits(h2, f.key[x], f.meta[x], Pending(o2, x))
    BY <1>0 DEF Left
  <2>1. f.key[x] \in h.exempt \cup h.part \/ Fits(h, f.key[x], f.meta[x], Pending(o, x))
    BY <1>0 DEF Rules, Left
  <2> QED BY <1>0, <1>2, <1>4, <2>1
<1>7. ASSUME NEW x, x # k, Bounded(h2, x) PROVE Bounded(h, x)
  BY <1>0, <1>3, <1>7, GrownFits DEF Bounded
<1>8. Placed(c, f, h2)
  BY <1>0, <1>2, <1>7 DEF Rules, Placed
<1>9. Fits(h2, k, t, 0)
  <2>1. Covers(h2, k, t.algos)
    BY <1>0, <1>2 DEF Covers, K!Allows
  <2>2. ASSUME Bounded(h2, k) PROVE t.count \in Nat /\ h2.uses[k] + t.count <= h2.made[k].count + h2.mishaps + 0
    <3>1. t.count \in Nat
      BY <1>0, <1>2, <2>2 DEF Bounded, Metas
    <3> QED BY <1>0, <1>2, <3>1
  <2> QED BY <1>0, <2>1, <2>2 DEF Fits
<1>10. Drawn(c, f, o2, h2)
  <2> USE DEF Rules, Drawn
  <2>1. k <= MaxKeys /\ \A x \in K!Slots : c.key[x] <= k /\ f.key[x] <= k
    BY <1>0, <1>1, <1>2, KeyNumbers
  <2>2. ASSUME NEW b \in h.blobs
        PROVE  0 < b.key /\ b.key <= k /\ (b.key \in h.exempt \/ Covers(h2, b.key, b.algos))
    <3>1. 0 < b.key /\ b.key <= h.keys /\ (b.key \in h.exempt \/ Covers(h, b.key, b.algos)) /\ b.key \in Nat
      BY <1>0 DEF KeyHistories, Blobs
    <3>2. b.key \in K!Keys /\ b.key # k /\ b.key <= k
      BY <1>0, <1>1, <3>1, KeyNumbers
    <3> QED BY <1>0, <1>3, <3>1, <3>2, GrownFits
  <2>3. \A x \in K!Keys : k < x => h.uses[x] = 0
    BY <1>0, <1>1, KeyNumbers
  <2>4. \A x \in h2.exempt \cup h2.part \cup h2.filed : x <= k
    <3>1. \A x \in h.exempt \cup h.part \cup h.filed : x <= h.keys /\ x \in Nat
      BY <1>0 DEF KeyHistories
    <3> QED BY <1>0, <1>1, <3>1
  <2>5. ASSUME NEW x \in K!Keys, Bounded(h2, x)
        PROVE  h2.uses[x] <= h2.made[x].count + h2.mishaps /\ h2.made[x].count \in Nat
    <3>1. CASE x = k
      <4>1. t.count \in Nat
        BY <1>0, <1>2, <2>5, <3>1 DEF Bounded, Metas
      <4> QED BY <1>0, <1>2, <3>1, <4>1
    <3>2. CASE x # k
      <4>1. Bounded(h, x) => h.uses[x] <= h.made[x].count + h.mishaps /\ h.made[x].count \in Nat
        BY <1>0
      <4>2. Grown(h, h2, x) /\ h.mishaps <= h2.mishaps
        BY <1>0, <1>2, <1>3, <3>2
      <4> QED BY <1>0, <2>5, <4>1, <4>2, GrownFits
    <3> QED BY <1>0, <3>1, <3>2
  <2> QED BY <1>0, <1>1, <2>1, <2>2, <2>3, <2>4, <2>5
<1> QED BY <1>0, <1>1, <1>2, <1>5, <1>6, <1>8, <1>9, <1>10 DEF Rules, k

\* GENERATE SYMMETRIC and ASYMMETRIC KEY
LEMMA KeyGenerateKeeps ==
    ASSUME KeyInv, KeyTypes', NEW s \in K!Slots, NEW t \in K!Templates, NEW name \in {"keygen", "keypair"},
           NEW cert \in Seq(KeyWrites), \A j \in 1 .. Len(cert) : cert[j].at = s /\ cert[j].f = "cert",
           K!Generate(name, s, t, cert)
    PROVE  KeyInv'
<1> DEFINE k == hist.keys + 1
           m == K!StoreMeta(s, t)
           q == K!StoreKeys(s, k) \o m \o cert
           M == K!Put("meta", s, t)
<1>0. /\ cache \in KeyFiles /\ flash \in KeyFiles /\ hist \in KeyHistories /\ hist' \in KeyHistories
      /\ hist.keys < MaxKeys /\ op = K!Idle /\ UNCHANGED <<cache, flash>>
  BY DEF KeyInv, KeyTypes, K!Generate, K!Command
<1>1. op'.cmd = name /\ op'.todo = q /\ op'.slot = s /\ op'.key = k /\ op'.pc = "write" /\ op'.source = None
  BY DEF K!Generate, K!Command
<1>2. k \in K!Keys /\ k \in Nat /\ hist.keys \in Nat /\ t \in Metas
  <2>1. hist.keys \in Nat /\ MaxKeys \in Nat /\ K!Keys = 1 .. MaxKeys /\ t \in Metas
    BY <1>0, KeyNumbers DEF KeyHistories
  <2> QED BY <1>0, <2>1
<1>3. /\ hist'.keys = k /\ hist'.made = [hist.made EXCEPT ![k] = t] /\ hist'.uses = hist.uses
      /\ hist'.blobs = hist.blobs /\ hist'.exempt = hist.exempt /\ hist'.part = hist.part /\ hist'.mishaps = hist.mishaps
      /\ hist'.filed = IF s \in Legacies THEN hist.filed \cup {k} ELSE hist.filed
  BY <1>0 DEF K!Generate, K!Counted, KeyHistories
<1>4. /\ \A x : Pending(op', x) = 0 /\ Pending(op, x) = 0
      /\ K!Busy(cache, op) = {} /\ name # "use"
  BY <1>1, <1>0, KeyNumbers, KeyIdle DEF Pending, Waits, K!Busy, K!Commands
<1>5. Rules(cache, flash, op, hist)
  BY DEF KeyInv, Rules
<1>7. m \in Seq(KeyWrites) /\ (\A j \in 1 .. Len(m) : m[j] = M) /\ (t # K!NoMeta => Has(m, {"meta"}))
      /\ M.at = s /\ M.f = "meta" /\ M.v = t
  <2>1. M \in KeyWrites
    BY <1>2, KeyPutTypes
  <2>2. M.at = s /\ M.f = "meta" /\ M.v = t
    BY DEF K!Put
  <2>3. m = IF t = K!NoMeta THEN <<>> ELSE <<M>>
    BY DEF K!StoreMeta
  <2> HIDE DEF M, m
  <2>4. CASE t = K!NoMeta
    BY <2>2, <2>3, <2>4
  <2>5. CASE t # K!NoMeta
    <3>1. m \in Seq(KeyWrites) /\ Len(m) = 1 /\ m[1] = M
      BY <2>1, <2>3, <2>5
    <3>2. 1 \in 1 .. 1 /\ \A j \in 1 .. 1 : j = 1
      OBVIOUS
    <3> QED BY <2>2, <3>1, <3>2 DEF Has
  <2> QED BY <2>4, <2>5
<1> HIDE DEF q, M, m
<1>8. /\ StoreList(s, k, q)
      /\ \A i \in 1 .. Len(q) : q[i].f = "meta" => q[i] = M
      /\ t # K!NoMeta => Has(q, {"meta"})
  <2>1. \A j \in 1 .. Len(m) : m[j].at = s /\ m[j].f \in {"meta", "cert"}
    BY <1>7
  <2>2. /\ StoreList(s, k, q)
        /\ \A i \in 1 .. Len(q) : q[i].f = "meta" => \E j \in 1 .. Len(m) : q[i] = m[j]
        /\ Has(m, {"meta"}) => Has(q, {"meta"})
    <3> HIDE DEF k
    <3> QED BY <1>2, <1>7, <2>1, StoreShape DEF q
  <2> QED BY <1>7, <2>2
<1>9. /\ Rules(cache', flash', op', hist') /\ Fits(hist', k, t, 0) /\ k \in K!Keys /\ hist'.made[k] = t
      /\ \A x \in K!Slots : cache.key[x] # k
  <2>1. Draws(cache, op, op', hist, hist', t)
    BY <1>0, <1>1, <1>3, <1>4 DEF Draws
  <2> DEFINE h2 == hist'
             o2 == op'
  <2>2. Draws(cache, op, o2, hist, h2, t) /\ h2 \in KeyHistories
    BY <1>0, <2>1
  <2> HIDE DEF h2, o2
  <2>3. /\ Rules(cache, flash, o2, h2) /\ Fits(h2, h2.keys, t, 0) /\ h2.keys \in K!Keys /\ h2.made[h2.keys] = t
        /\ \A x \in K!Slots : cache.key[x] # h2.keys
    BY <1>0, <1>2, <1>5, <2>2, KeyDrawn
  <2> QED BY <1>0, <1>3, <2>3 DEF h2, o2
<1> HIDE DEF k
<1>10. Storing(cache', op', hist')
  <2>1. k \in 1 .. hist'.keys
    BY <1>2, <1>3, KeyNumbers
  <2>2. Bounded(hist', k) => s \in Containers
    BY <1>3, KeyNumbers DEF Bounded, K!Slots
  <2>3. \A x \in K!Slots : cache.key[x] # k
    BY <1>9
  <2>4. Has(q, {"meta"}) \/ hist'.made[k] = K!NoMeta
    BY <1>8, <1>9
  <2>5. ASSUME NEW i \in 1 .. Len(q)
        PROVE  LET w == q[i] IN
               /\ w.at = s /\ w.f \in {"key", "container", "meta", "prkd", "cert"}
               /\ w.f = "key" => w.v = k /\ s \notin Containers
               /\ w.f = "container" => w.v = k
               /\ w.f = "meta" => k \in hist'.exempt \/ Fits(hist', k, w.v, 0)
               /\ w.f \in KeyFile => i = 1
    BY <1>7, <1>8, <1>9 DEF StoreList
  <2>6. Has(q, KeyFile)
    BY <1>8 DEF StoreList
  <2>7. op'.cmd # "derive"
    BY <1>1
  <2> QED BY <1>0, <1>1, <2>1, <2>2, <2>3, <2>4, <2>5, <2>6, <2>7 DEF Storing
<1>11. Erasing(cache', op', hist') /\ Using(cache', op')
  BY <1>1, KeyNumbers DEF Erasing, Using, Stores, Erases, K!Commands
<1> QED BY <1>9, <1>10, <1>11 DEF KeyInv, Rules

LEMMA KeyGenerationKeeps ==
    ASSUME KeyInv, KeyTypes', NEW s \in K!Slots, NEW t \in K!Templates, K!KeyGen(s, t) \/ K!KeypairGen(s, t)
    PROVE  KeyInv'
<1> DEFINE P == K!Put("cert", s, TRUE)
           c == <<P>>
<1>1. P \in KeyWrites /\ P.at = s /\ P.f = "cert"
  BY KeyPutTypes DEF K!Put
<1>2. K!Generate("keygen", s, t, <<>>) \/ K!Generate("keypair", s, t, c)
  BY DEF K!KeyGen, K!KeypairGen
<1> HIDE DEF P
<1>3. c \in Seq(KeyWrites) /\ Len(c) = 1 /\ c[1] = P
  BY <1>1
<1> HIDE DEF c
<1>4. \A j \in 1 .. Len(c) : c[j].at = s /\ c[j].f = "cert"
  <2>1. \A j \in 1 .. 1 : j = 1
    OBVIOUS
  <2> QED BY <1>1, <1>3, <2>1
<1> DEFINE e == <<>>
<1>5. e \in Seq(KeyWrites) /\ \A j \in 1 .. Len(e) : e[j].at = s /\ e[j].f = "cert"
  OBVIOUS
<1>6. K!Generate("keygen", s, t, e) \/ K!Generate("keypair", s, t, c)
  BY <1>2
<1> HIDE DEF e
<1> QED BY <1>3, <1>4, <1>5, <1>6, KeyGenerateKeeps

\* UNWRAP KEY: no counter, and the algorithms that the blob carried
LEMMA KeyUnwrapKeeps ==
    ASSUME KeyInv, KeyTypes', NEW s \in K!Slots, NEW b \in hist.blobs, K!KeyUnwrap(s, b)
    PROVE  KeyInv'
<1> DEFINE m == K!Meta(None, b.algos, 0)
           M == K!Put("meta", s, m)
           X == K!Put("cert", s, TRUE)
           tail == <<M, X>>
           q == K!StoreKeys(s, b.key) \o tail
<1>0. /\ hist \in KeyHistories /\ b \in Blobs /\ b.key \in Nat /\ hist.keys \in Nat
      /\ 0 < b.key /\ b.key <= hist.keys /\ (b.key \in hist.exempt \/ Covers(hist, b.key, b.algos))
  BY DEF KeyInv, KeyTypes, Drawn, KeyHistories, Blobs
<1>1. /\ op = K!Idle /\ UNCHANGED <<cache, flash>>
      /\ op'.cmd = "unwrap" /\ op'.todo = q /\ op'.slot = s /\ op'.key = b.key /\ op'.source = None
  BY DEF K!KeyUnwrap, K!Command
<1>2. Unchanged(hist, hist') /\ hist'.part = hist.part
  BY <1>0 DEF K!KeyUnwrap, K!Counted, KeyHistories, Unchanged
<1>3. Kept(cache', op', hist') /\ Left(flash', op', hist') /\ Placed(cache', flash', hist')
      /\ Drawn(cache', flash', op', hist')
  BY <1>0, <1>1, <1>2, KeyCommandKeeps
<1>4. M \in KeyWrites /\ M.at = s /\ M.f = "meta" /\ M.v = m /\ X \in KeyWrites /\ X.at = s /\ X.f = "cert"
  <2>1. m \in Metas
    BY <1>0 DEF Blobs, K!Meta, Metas
  <2>2. M \in KeyWrites /\ X \in KeyWrites
    BY <2>1, KeyPutTypes
  <2> QED BY <2>2 DEF K!Put
<1>5. Fits(hist, b.key, m, 0) \/ b.key \in hist.exempt
  <2>1. ~Bounded(hist, b.key)
    BY DEF Bounded
  <2>2. m.algos = b.algos
    BY DEF K!Meta
  <2> QED BY <1>0, <2>1, <2>2 DEF Fits
<1> HIDE DEF M, X, m
<1>6. tail \in Seq(KeyWrites) /\ Len(tail) = 2 /\ tail[1] = M /\ tail[2] = X
  BY <1>4
<1> HIDE DEF tail
<1>7. /\ \A j \in 1 .. Len(tail) : tail[j].at = s /\ tail[j].f \in {"meta", "cert"}
      /\ \A j \in 1 .. Len(tail) : tail[j].f = "meta" => tail[j] = M
      /\ Has(tail, {"meta"})
  <2>1. (\A j \in 1 .. 2 : j = 1 \/ j = 2) /\ 1 \in 1 .. 2
    OBVIOUS
  <2>2. tail[1].f = "meta"
    BY <1>4, <1>6
  <2> QED BY <1>4, <1>6, <2>1, <2>2 DEF Has
<1> DEFINE e == <<>>
<1>8. e \in Seq(KeyWrites) /\ (\A j \in 1 .. Len(e) : e[j].at = s /\ e[j].f = "cert") /\ q = q \o e
  <2>1. q \in Seq(KeyWrites)
    <3> DEFINE a == K!StoreKeys(s, b.key)
    <3>1. a \in Seq(KeyWrites)
      BY <1>0, StoreKeysTypes
    <3> HIDE DEF a
    <3>2. a \o tail \in Seq(KeyWrites)
      BY <1>6, <3>1, ConcatProperties
    <3> QED BY <3>2 DEF a
  <2> HIDE DEF q
  <2> QED BY <2>1, ConcatEmptySeq
<1>9. StoreList(s, b.key, q) /\ Has(q, {"meta"}) /\ \A i \in 1 .. Len(q) : q[i].f = "meta" => q[i] = M
  <2> DEFINE r == K!StoreKeys(s, b.key) \o tail \o e
  <2>1. r = q
    BY <1>8
  <2>2. /\ StoreList(s, b.key, r)
        /\ \A i \in 1 .. Len(r) : r[i].f = "meta" => \E j \in 1 .. Len(tail) : r[i] = tail[j]
        /\ Has(tail, {"meta"}) => Has(r, {"meta"})
    <3>1. e \in Seq(KeyWrites) /\ \A j \in 1 .. Len(e) : e[j].at = s /\ e[j].f = "cert"
      BY <1>8
    <3> HIDE DEF e
    <3> QED BY <1>0, <1>6, <1>7, <3>1, StoreShape
  <2> HIDE DEF r, q
  <2> QED BY <1>7, <2>1, <2>2
<1> HIDE DEF q
<1>10. Storing(cache', op', hist')
  <2>1. ~Bounded(hist', b.key)
    BY <1>2 DEF Bounded, Unchanged
  <2>2. b.key \in hist'.exempt \/ Fits(hist', b.key, m, 0)
    BY <1>2, <1>5, SameHistory DEF Unchanged
  <2>3. b.key \in 1 .. hist'.keys
    BY <1>0, <1>2 DEF Unchanged
  <2>4. ASSUME NEW i \in 1 .. Len(q)
        PROVE  LET w == q[i] IN
               /\ w.at = s /\ w.f \in {"key", "container", "meta", "prkd", "cert"}
               /\ w.f = "key" => w.v = b.key /\ s \notin Containers
               /\ w.f = "container" => w.v = b.key
               /\ w.f = "meta" => b.key \in hist'.exempt \/ Fits(hist', b.key, w.v, 0)
               /\ w.f \in KeyFile => i = 1
    BY <1>4, <1>9, <2>2 DEF StoreList
  <2>5. Has(q, KeyFile)
    BY <1>9 DEF StoreList
  <2> QED BY <1>1, <1>9, <2>1, <2>3, <2>4, <2>5 DEF Storing
<1>11. Erasing(cache', op', hist') /\ Using(cache', op')
  BY <1>1, KeyNumbers DEF Erasing, Using, Stores, Erases, K!Commands
<1> QED BY <1>3, <1>10, <1>11 DEF KeyInv

\* DELETE KEY
LEMMA KeyDeleteKeeps == ASSUME KeyInv, KeyTypes', NEW s \in K!Slots, K!DeleteKey(s) PROVE KeyInv'
<1> DEFINE k == IF s \in Containers THEN 0 ELSE cache.key[s]
           q == K!DeleteWrites(s)
<1>0. hist \in KeyHistories /\ k <= hist.keys
  <2>1. cache.key[s] \in Nat /\ hist.keys \in Nat /\ cache.key[s] <= hist.keys
    BY DrawnKeys DEF KeyInv, Drawn
  <2> QED BY <2>1 DEF KeyInv, KeyTypes
<1>1. /\ op = K!Idle /\ UNCHANGED <<cache, flash>>
      /\ op'.cmd = "delete" /\ op'.todo = q /\ op'.slot = s /\ op'.key = k /\ op'.source = None
  BY DEF K!DeleteKey, K!Command
<1>2. Unchanged(hist, hist') /\ hist'.part = hist.part
  BY <1>0 DEF K!DeleteKey, K!Counted, KeyHistories, Unchanged
<1>3. EraseList(s, q)
  BY EraseShape
<1> HIDE DEF q
<1>4. Kept(cache', op', hist') /\ Left(flash', op', hist') /\ Placed(cache', flash', hist')
      /\ Drawn(cache', flash', op', hist')
  <2> HIDE DEF k
  <2> QED BY <1>0, <1>1, <1>2, KeyCommandKeeps
<1>5. Erasing(cache', op', hist')
  <2>1. s \notin Containers => cache'.key[s] \in {0, op'.key}
    BY <1>1
  <2> QED BY <1>1, <1>3, <2>1 DEF Erasing, EraseList
<1>6. Storing(cache', op', hist') /\ Using(cache', op')
  BY <1>1, KeyNumbers DEF Storing, Using, Stores, Erases, K!Commands
<1> QED BY <1>4, <1>5, <1>6 DEF KeyInv

\* Commands that write one file, neither a key nor its metadata
LEMMA KeySidecarKeeps ==
    ASSUME KeyInv, KeyTypes', NEW name \in {"sidecar", "domain", "seed"}, NEW s, NEW w,
           w.f \notin KeyFile \cup {"meta"}, K!Command(name, s, 0, <<w>>),
           Unchanged(hist, hist'), hist'.part = hist.part
    PROVE  KeyInv'
<1>1. /\ op = K!Idle /\ UNCHANGED <<cache, flash>>
      /\ op'.cmd = name /\ op'.todo = <<w>> /\ op'.key = 0 /\ op'.source = None
  BY DEF K!Command
<1>2. 0 <= hist.keys
  BY DrawnKeys DEF KeyInv
<1>3. Kept(cache', op', hist') /\ Left(flash', op', hist') /\ Placed(cache', flash', hist')
      /\ Drawn(cache', flash', op', hist')
  BY <1>1, <1>2, KeyCommandKeeps
<1>4. ~Has(op'.todo, KeyFile \cup {"meta"})
  <2>1. Len(op'.todo) = 1 /\ op'.todo[1] = w
    BY <1>1
  <2>2. \A j \in 1 .. 1 : j = 1
    OBVIOUS
  <2> QED BY <2>1, <2>2 DEF Has
<1>5. Storing(cache', op', hist') /\ Erasing(cache', op', hist') /\ Using(cache', op')
  BY <1>1, <1>4, KeyAside
<1> QED BY <1>3, <1>5 DEF KeyInv

LEMMA KeyFilesKeep ==
    ASSUME KeyInv, KeyTypes',
           \/ \E s \in K!Slots : \E f \in {"prkd", "cert"} : K!DeleteSidecar(s, f) \/ K!UpdateEf(s, f)
           \/ K!MasterGen \/ K!DomainDelete \/ K!DomainImport
    PROVE  KeyInv'
<1>0. hist \in KeyHistories
  BY DEF KeyInv, KeyTypes
<1>1. ASSUME hist' = K!Counted \/ hist' = [K!Counted EXCEPT !.dkeks = @ + 1]
      PROVE  Unchanged(hist, hist') /\ hist'.part = hist.part
  BY <1>0, <1>1 DEF K!Counted, KeyHistories, Unchanged
<1>2. \A f \in {"prkd", "cert", "seed", "dkek"} : \A at, v : K!Put(f, at, v).f \notin KeyFile \cup {"meta"}
  BY DEF K!Put, KeyFile
<1>3. ASSUME NEW s \in K!Slots, NEW f \in {"prkd", "cert"}, K!DeleteSidecar(s, f) \/ K!UpdateEf(s, f) PROVE KeyInv'
  BY <1>1, <1>2, <1>3, KeySidecarKeeps DEF K!DeleteSidecar, K!UpdateEf
<1>4. CASE K!MasterGen
  BY <1>1, <1>2, <1>4, KeySidecarKeeps DEF K!MasterGen
<1>5. CASE K!DomainDelete
  BY <1>1, <1>2, <1>5, KeySidecarKeeps DEF K!DomainDelete
<1>6. CASE K!DomainImport
  BY <1>1, <1>2, <1>6, KeySidecarKeeps DEF K!DomainImport
<1> QED BY <1>3, <1>4, <1>5, <1>6

\* Steps that change nothing that counts
LEMMA KeyQuietKeeps ==
    ASSUME KeyInv, KeyTypes', op = K!Idle, UNCHANGED <<cache, flash, op>>,
           Unchanged(hist, hist'), hist'.part = hist.part
    PROVE  KeyInv'
<1>1. op' = K!Idle /\ op'.cmd = None /\ op'.key = 0 /\ op'.source = None /\ op'.todo = <<>> /\ ~Has(op'.todo, KeyFile \cup {"meta"})
  BY KeyIdle DEF Has
<1>2. 0 <= hist.keys /\ None # "use"
  BY DrawnKeys, KeyNumbers DEF KeyInv, K!Commands
<1>3. Kept(cache', op', hist') /\ Left(flash', op', hist') /\ Placed(cache', flash', hist')
      /\ Drawn(cache', flash', op', hist')
  BY <1>1, <1>2, KeyCommandKeeps
<1>4. Storing(cache', op', hist') /\ Erasing(cache', op', hist') /\ Using(cache', op')
  <2>1. op'.cmd \notin Stores \cup Erases \cup {"use"}
    BY <1>1, KeyNumbers DEF Stores, Erases, K!Commands
  <2> QED BY <1>1, <2>1 DEF Storing, Erasing, Using
<1> QED BY <1>3, <1>4 DEF KeyInv

\* A use of a reference is counted, and its counter is still to be written when it has one.
UseCounts(s, o2, h2) ==
    /\ h2.uses = [hist.uses EXCEPT ![cache.key[s]] = @ + 1] /\ h2.made = hist.made /\ h2.blobs = hist.blobs
    /\ h2.exempt = hist.exempt /\ h2.filed = hist.filed /\ h2.mishaps = hist.mishaps
    /\ h2.keys = hist.keys /\ h2.part = hist.part
    /\ o2.key = 0 /\ \A x : Pending(o2, x) = IF x = s /\ cache.meta[s].count # None THEN 1 ELSE 0

LEMMA KeyCounted ==
    ASSUME KeyInv, NEW s \in K!Slots, NEW o2, NEW h2, UseCounts(s, o2, h2), op = K!Idle,
           cache.key[s] # 0, cache.meta[s].count # 0
    PROVE  Rules(cache, flash, o2, h2)
<1> DEFINE k == cache.key[s]
           m == cache.meta[s]
<1>0. /\ cache \in KeyFiles /\ flash \in KeyFiles /\ hist \in KeyHistories
      /\ k \in K!Keys /\ m \in Metas /\ k \in Nat /\ hist.keys \in Nat /\ k <= hist.keys /\ k # 0
      /\ m.count = None \/ m.count \in Nat \ {0}
  BY DrawnKeys DEF KeyInv, KeyTypes, KeyFiles, Metas, Drawn
<1>3. /\ h2.uses = [hist.uses EXCEPT ![k] = @ + 1] /\ h2.made = hist.made /\ h2.blobs = hist.blobs
      /\ h2.exempt = hist.exempt /\ h2.filed = hist.filed /\ h2.mishaps = hist.mishaps
      /\ h2.keys = hist.keys /\ h2.part = hist.part /\ hist.mishaps \in Nat /\ o2.key = 0
  BY <1>0 DEF UseCounts, KeyHistories
<1>5. /\ \A x : Pending(op, x) = 0 /\ Pending(o2, x) \in {0, 1}
      /\ Pending(o2, s) = IF m.count = None THEN 0 ELSE 1
      /\ \A x : x # s => Pending(o2, x) = 0
      /\ K!Busy(cache, op) = {}
  BY KeyIdle, KeyNumbers DEF UseCounts, Pending, Waits, K!Busy, K!Commands
<1>6. /\ \A x : Bounded(h2, x) <=> Bounded(hist, x)
      /\ \A x, algos : Covers(h2, x, algos) <=> Covers(hist, x, algos)
      /\ hist.uses[k] \in Nat /\ h2.uses[k] = hist.uses[k] + 1
      /\ \A x : x # k => h2.uses[x] = hist.uses[x]
  <2>1. \A x : Bounded(h2, x) <=> Bounded(hist, x)
    BY <1>3 DEF Bounded
  <2>2. \A x, algos : Covers(h2, x, algos) <=> Covers(hist, x, algos)
    BY <1>3 DEF Covers
  <2>3. hist.uses \in [K!Keys -> Nat]
    BY <1>0 DEF KeyHistories
  <2>4. hist.uses[k] \in Nat /\ h2.uses[k] = hist.uses[k] + 1
    BY <1>0, <1>3, <2>3
  <2>5. \A x : x # k => h2.uses[x] = hist.uses[x]
    <3>1. ASSUME NEW f \in [K!Keys -> Nat], NEW z, NEW v, NEW x, x # z PROVE [f EXCEPT ![z] = v][x] = f[x]
      <4>1. CASE x \in K!Keys
        BY <3>1, <4>1
      <4>2. CASE x \notin K!Keys
        BY <3>1, <4>2
      <4> QED BY <4>1, <4>2
    <3> QED BY <1>3, <2>3, <3>1
  <2> QED BY <2>1, <2>2, <2>4, <2>5
<1>7. Bounded(hist, k) => /\ m.count \in Nat \ {0} /\ hist.made[k].count \in Nat
                          /\ hist.uses[k] + m.count <= hist.made[k].count + hist.mishaps
  <2> SUFFICES ASSUME Bounded(hist, k)
               PROVE  /\ m.count \in Nat \ {0} /\ hist.made[k].count \in Nat
                      /\ hist.uses[k] + m.count <= hist.made[k].count + hist.mishaps
    OBVIOUS
  <2>1. k \notin hist.exempt /\ hist.made[k].count \in Nat
    BY <1>0 DEF Bounded, KeyHistories, Metas
  <2>2. Fits(hist, k, m, 0)
    BY <1>0, <1>5, <2>1 DEF KeyInv, Kept
  <2>3. m.count \in Nat /\ hist.uses[k] + m.count <= hist.made[k].count + hist.mishaps + 0
    BY <2>2 DEF Fits
  <2>4. m.count # None
    BY <2>3, KeyNumbers
  <2> QED BY <1>0, <1>3, <1>6, <2>1, <2>3, <2>4
<1> HIDE DEF k
<1>8. ASSUME NEW x, x # k, NEW n, Fits(hist, x, n, 0) PROVE Fits(h2, x, n, 0)
  BY <1>3, <1>6, <1>8 DEF Fits
<1>9. ASSUME NEW n, ~Bounded(hist, k), Fits(hist, k, n, 0), NEW x PROVE Fits(h2, k, n, x)
  BY <1>6, <1>9 DEF Fits
<1>10. Fits(hist, k, m, 0) => Fits(h2, k, m, Pending(o2, s))
  <2> SUFFICES ASSUME Fits(hist, k, m, 0), Bounded(hist, k) PROVE Fits(h2, k, m, Pending(o2, s))
    BY <1>9
  <2>1. Covers(h2, k, m.algos)
    BY <1>6 DEF Fits
  <2>2. /\ m.count \in Nat \ {0} /\ hist.made[k].count \in Nat
        /\ hist.uses[k] + m.count <= hist.made[k].count + hist.mishaps
    BY <1>7
  <2>3. Pending(o2, s) = 1
    BY <1>5, <2>2, KeyNumbers
  <2>4. m.count \in Nat /\ h2.uses[k] + m.count <= h2.made[k].count + h2.mishaps + 1
    BY <1>3, <1>6, <2>2
  <2> QED BY <2>1, <2>3, <2>4 DEF Fits
<1>11. ASSUME NEW x \in K!Slots, x # s, cache.key[x] = k PROVE ~Bounded(hist, k)
  BY <1>11 DEF KeyInv, Placed, k
<1>12. Kept(cache, o2, h2)
  <2> SUFFICES ASSUME NEW x \in K!Slots, cache.key[x] # 0
               PROVE  cache.key[x] \in hist.exempt \/ Fits(h2, cache.key[x], cache.meta[x], Pending(o2, x))
    BY <1>3 DEF Kept
  <2>1. cache.key[x] \in hist.exempt \/ Fits(hist, cache.key[x], cache.meta[x], 0)
    BY <1>5 DEF KeyInv, Kept
  <2>2. CASE x = s
    BY <1>10, <2>1, <2>2 DEF k
  <2>3. CASE x # s
    <3>1. Pending(o2, x) = 0
      BY <1>5, <2>3
    <3> QED BY <1>8, <1>9, <1>11, <2>1, <2>3, <3>1
  <2> QED BY <2>2, <2>3
<1>13. Left(flash, o2, h2)
  <2> SUFFICES ASSUME NEW x \in K!Slots, flash.key[x] # 0, flash.key[x] \notin hist.exempt \cup hist.part
               PROVE  Fits(h2, flash.key[x], flash.meta[x], Pending(o2, x))
    BY <1>3 DEF Left
  <2>1. Fits(hist, flash.key[x], flash.meta[x], 0)
    BY <1>5 DEF KeyInv, Left
  <2>2. CASE flash.key[x] # k /\ x # s
    <3>1. Pending(o2, x) = 0
      BY <1>5, <2>2
    <3> QED BY <1>8, <2>1, <2>2, <3>1
  <2>3. CASE flash.key[x] # k /\ x = s
    <3>1. s \notin Containers
      BY <2>3 DEF KeyInv, Placed, k
    <3>2. ~Bounded(h2, flash.key[x])
      BY <1>6, <2>3, <3>1 DEF KeyInv, Placed
    <3>3. Covers(h2, flash.key[x], flash.meta[x].algos)
      BY <1>6, <2>1 DEF Fits
    <3> QED BY <3>2, <3>3 DEF Fits
  <2>4. CASE flash.key[x] = k /\ ~Bounded(hist, k)
    BY <1>9, <2>1, <2>4
  <2>5. CASE flash.key[x] = k /\ Bounded(hist, k)
    <3>1. x \in Containers
      BY <2>5 DEF KeyInv, Placed
    <3>2. cache.key[x] = k /\ flash.meta[x] = cache.meta[x]
      BY <2>5, <3>1 DEF KeyInv, Placed
    <3>3. x = s
      BY <1>11, <2>5, <3>2
    <3> QED BY <1>10, <2>1, <2>5, <3>2, <3>3
  <2> QED BY <2>2, <2>3, <2>4, <2>5
<1>14. Placed(cache, flash, h2)
  BY <1>6 DEF KeyInv, Placed
<1>15. Drawn(cache, flash, o2, h2)
  <2> USE DEF KeyInv, Drawn
  <2>1. o2.key = 0
    BY <1>3
  <2>2. ASSUME NEW x \in K!Keys, Bounded(h2, x)
        PROVE  h2.uses[x] <= h2.made[x].count + h2.mishaps /\ h2.made[x].count \in Nat
    <3>1. CASE x = k
      BY <1>3, <1>6, <1>7, <2>2, <3>1
    <3>2. CASE x # k
      BY <1>3, <1>6, <2>2, <3>2
    <3> QED BY <3>1, <3>2
  <2>3. \A x \in K!Keys : hist.keys < x => h2.uses[x] = 0
    <3>1. \A x \in K!Keys : hist.keys < x => x # k
      BY <1>0, KeyNumbers DEF k
    <3> QED BY <1>6, <3>1
  <2> QED BY <1>0, <1>3, <1>6, <2>1, <2>2, <2>3
<1> QED BY <1>12, <1>13, <1>14, <1>15 DEF Rules

\* SIGN, DECIPHER, CIPHER: the result is out, the counter is still to be written.
LEMMA KeyUseKeeps ==
    ASSUME KeyInv, KeyTypes', NEW s \in K!Slots, K!Used(s), op = K!Idle,
           cache.key[s] # 0, cache.meta[s].count # 0, UNCHANGED <<cache, flash>>
    PROVE  KeyInv'
<1>0. /\ cache \in KeyFiles /\ hist \in KeyHistories
      /\ cache.meta[s].count = None \/ cache.meta[s].count \in Nat \ {0}
  BY DrawnKeys DEF KeyInv, KeyTypes, KeyFiles, Metas
<1>1. /\ cache.meta[s].count = None => op' = K!Idle
      /\ cache.meta[s].count # None =>
            /\ op'.cmd = "use" /\ op'.key = 0 /\ op'.source = None /\ Len(op'.todo) = 1
            /\ op'.todo[1].f = "meta" /\ op'.todo[1].at = s /\ op'.todo[1].v = K!Spent(cache.meta[s])
  BY <1>0, KeyCount DEF K!Used
<1>2. {None, "use"} \cap (Stores \cup Erases) = {} /\ None # "use"
  BY KeyNumbers DEF Stores, Erases, K!Commands
<1>3. UseCounts(s, op', hist')
  <2>1. \A x : Pending(op', x) = IF x = s /\ cache.meta[s].count # None THEN 1 ELSE 0
    BY <1>1, <1>2, KeyIdle DEF Pending, Waits
  <2>2. op'.key = 0
    BY <1>1, KeyIdle
  <2> QED BY <1>0, <2>1, <2>2 DEF UseCounts, K!Used, KeyHistories
<1>4. Rules(cache', flash', op', hist')
  <2> DEFINE o2 == op'
             h2 == hist'
  <2>1. UseCounts(s, o2, h2)
    BY <1>3
  <2> HIDE DEF o2, h2
  <2>2. Rules(cache, flash, o2, h2)
    BY <2>1, KeyCounted
  <2> QED BY <2>2 DEF o2, h2
<1>5. Storing(cache', op', hist') /\ Erasing(cache', op', hist') /\ Using(cache', op')
  <2>1. CASE cache.meta[s].count = None
    <3>1. op'.cmd = None /\ op'.key = 0 /\ ~Has(op'.todo, KeyFile \cup {"meta"})
      BY <1>1, <2>1, KeyIdle DEF Has
    <3> QED BY <1>2, <3>1 DEF Storing, Erasing, Using
  <2>2. CASE cache.meta[s].count # None
    BY <1>0, <1>1, <1>2, <2>2 DEF Storing, Erasing, Using
  <2> QED BY <2>1, <2>2
<1> QED BY <1>4, <1>5 DEF KeyInv, Rules

\* DERIVE: a use of one reference, and a key without a template under another
LEMMA KeyDeriveKeeps ==
    ASSUME KeyInv, KeyTypes', NEW s \in K!Slots, NEW d \in K!Slots, K!DeriveAsym(s, d)
    PROVE  KeyInv'
<1> DEFINE k == hist.keys + 1
           q == K!StoreKeys(d, k)
           source == IF cache.meta[s].count = None THEN None ELSE s
           h == [hist EXCEPT !.uses = [hist.uses EXCEPT ![cache.key[s]] = @ + 1]]
           o == [op EXCEPT !.source = source]
<1>0. /\ cache \in KeyFiles /\ flash \in KeyFiles /\ hist \in KeyHistories /\ hist' \in KeyHistories
      /\ op = K!Idle /\ UNCHANGED <<cache, flash>> /\ cache.key[s] # 0 /\ cache.meta[s].count # 0
      /\ hist.keys < MaxKeys /\ hist.keys \in Nat /\ K!NoMeta \in Metas
  BY KeyNumbers DEF KeyInv, KeyTypes, KeyHistories, K!DeriveAsym, K!Usable
<1>1. /\ op'.cmd = "derive" /\ op'.todo = q /\ op'.slot = d /\ op'.key = k /\ op'.source = source
      /\ o.cmd = None /\ o.key = 0 /\ o.source = source /\ o.pc = "idle"
  BY <1>0, KeyIdle DEF K!DeriveAsym, K!Idle
<1>2. \A x : /\ Pending(o, x) = IF x = s /\ cache.meta[s].count # None THEN 1 ELSE 0
             /\ Pending(op', x) = Pending(o, x) /\ Pending(o, x) \in {0, 1}
  BY <1>1, KeyNumbers DEF Pending, Waits, K!Commands, K!Slots
<1>3. UseCounts(s, o, h)
  BY <1>0, <1>1, <1>2 DEF UseCounts, KeyHistories
<1>4. h \in KeyHistories
  <2>1. cache.key[s] \in K!Keys /\ hist.uses[cache.key[s]] + 1 \in Nat
    BY <1>0, DrawnKeys DEF KeyInv, KeyHistories
  <2> QED BY <1>0, <2>1 DEF KeyHistories
<1>5. /\ hist'.keys = k /\ hist'.made = [hist.made EXCEPT ![k] = K!NoMeta] /\ hist'.uses = h.uses
      /\ hist'.blobs = h.blobs /\ hist'.exempt = h.exempt /\ hist'.part = h.part /\ hist'.mishaps = h.mishaps
      /\ hist'.filed = IF d \in Legacies THEN h.filed \cup {k} ELSE h.filed
      /\ h.keys = hist.keys /\ h.made = hist.made
  BY <1>0 DEF K!DeriveAsym, K!Counted, KeyHistories
<1>6. Draws(cache, o, op', h, hist', K!NoMeta)
  BY <1>0, <1>1, <1>2, <1>5 DEF Draws, K!Busy
<1> HIDE DEF h, o
<1>7. /\ Rules(cache', flash', op', hist') /\ k \in K!Keys /\ hist'.made[k] = K!NoMeta
      /\ \A x \in K!Slots : cache.key[x] # k
  <2> DEFINE h2 == hist'
             o2 == op'
  <2>1. Draws(cache, o, o2, h, h2, K!NoMeta) /\ h2 \in KeyHistories
    BY <1>0, <1>6
  <2> HIDE DEF h2, o2
  <2>2. Rules(cache, flash, o, h)
    BY <1>0, <1>3, KeyCounted
  <2>3. /\ Rules(cache, flash, o2, h2) /\ h2.keys \in K!Keys /\ h2.made[h2.keys] = K!NoMeta
        /\ \A x \in K!Slots : cache.key[x] # h2.keys
    BY <1>0, <1>4, <2>1, <2>2, KeyDrawn
  <2> QED BY <1>0, <1>5, <2>3 DEF h2, o2
<1>8. Storing(cache', op', hist')
  <2>1. StoreList(d, k, q) /\ \A i \in 1 .. Len(q) : q[i].f # "meta"
    <3> DEFINE e == <<>>
               r == q \o e \o e
    <3>1. e \in Seq(KeyWrites) /\ \A j \in 1 .. Len(e) : FALSE
      OBVIOUS
    <3>2. q \in Seq(KeyWrites)
      <4>1. k \in Nat
        BY <1>0 DEF k
      <4> HIDE DEF k
      <4> QED BY <4>1, StoreKeysTypes
    <3>3. r = q
      <4> HIDE DEF q
      <4> QED BY <3>2, ConcatEmptySeq
    <3>4. StoreList(d, k, r) /\ \A i \in 1 .. Len(r) : r[i].f = "meta" => \E j \in 1 .. Len(e) : r[i] = e[j]
      <4> HIDE DEF e, k
      <4>1. k \in Nat
        BY <1>0 DEF k
      <4> QED BY <3>1, <4>1, StoreShape
    <3> HIDE DEF q, r, e
    <3> QED BY <3>1, <3>3, <3>4
  <2> HIDE DEF q
  <2>2. ASSUME NEW i \in 1 .. Len(q)
        PROVE  LET w == q[i] IN
               /\ w.at = d /\ w.f \in {"key", "container", "meta", "prkd", "cert"}
               /\ w.f = "key" => w.v = k /\ d \notin Containers
               /\ w.f = "container" => w.v = k
               /\ w.f # "meta"
               /\ w.f \in KeyFile => i = 1
    BY <2>1 DEF StoreList
  <2>3. Has(q, KeyFile)
    BY <2>1 DEF StoreList
  <2>4. k \in 1 .. hist'.keys /\ ~Bounded(hist', k)
    <3>1. k \in 1 .. hist'.keys
      BY <1>0, <1>5
    <3> HIDE DEF k
    <3> QED BY <1>7, <3>1, Unlimited
  <2> QED BY <1>1, <1>7, <2>2, <2>3, <2>4 DEF Storing
<1>9. Erasing(cache', op', hist') /\ Using(cache', op')
  BY <1>1, KeyNumbers DEF Erasing, Using, Stores, Erases, K!Commands
<1> QED BY <1>7, <1>8, <1>9 DEF KeyInv, Rules

\* WRAP KEY: the blob carries the algorithms of a key that nobody is at.
LEMMA KeyWrapKeeps == ASSUME KeyInv, KeyTypes', NEW s \in K!Slots, K!KeyWrap(s) PROVE KeyInv'
<1> DEFINE k == cache.key[s]
           m == cache.meta[s]
           blob == K!Encoded(k, m, cache.dkek)
<1>0. /\ cache \in KeyFiles /\ flash \in KeyFiles /\ hist \in KeyHistories /\ hist' \in KeyHistories
      /\ op = K!Idle /\ UNCHANGED <<cache, flash, op>> /\ k # 0 /\ k \in Nat /\ k <= hist.keys
      /\ \A x \in K!Slots : /\ cache.meta[x] \in Metas /\ flash.meta[x] \in Metas
                            /\ cache.key[x] # 0 => cache.key[x] \in K!Keys
                            /\ flash.key[x] # 0 => flash.key[x] \in K!Keys
  BY DrawnKeys DEF KeyInv, KeyTypes, Drawn, K!KeyWrap
<1>1. blob.key = k /\ blob.algos = m.algos
  BY DEF K!Encoded
<1>2. hist' = [hist EXCEPT !.blobs = @ \cup {blob}]
  BY DEF K!KeyWrap
<1> HIDE DEF blob
<1>3. /\ hist'.blobs = hist.blobs \cup {blob} /\ hist'.uses = hist.uses /\ hist'.made = hist.made
      /\ hist'.exempt = hist.exempt /\ hist'.filed = hist.filed /\ hist'.mishaps = hist.mishaps
      /\ hist'.keys = hist.keys /\ hist'.part = hist.part /\ hist.mishaps \in Nat
      /\ \A x : Grown(hist, hist', x)
  BY <1>0, <1>2 DEF KeyHistories, Grown
<1>4. /\ \A x : Pending(op', x) = 0 /\ Pending(op, x) = 0
      /\ K!Busy(cache, op) = {} /\ K!Idle.cmd # "use"
  BY <1>0, KeyNumbers, KeyIdle DEF Pending, Waits, K!Busy, K!Commands
<1>5. ASSUME NEW x \in K!Keys, NEW n \in Metas, Fits(hist, x, n, 0) PROVE Fits(hist', x, n, 0)
  BY <1>0, <1>3, <1>5, GrownFits
<1>6. ASSUME NEW x, Bounded(hist', x) PROVE Bounded(hist, x)
  BY <1>3, <1>6 DEF Bounded
<1>7. Kept(cache', op', hist') /\ Left(flash', op', hist')
  <2>1. ASSUME NEW x \in K!Slots, cache.key[x] # 0
        PROVE  cache.key[x] \in hist.exempt \/ Fits(hist', cache.key[x], cache.meta[x], 0)
    <3>1. cache.key[x] \in hist.exempt \/ Fits(hist, cache.key[x], cache.meta[x], 0)
      BY <1>4, <2>1 DEF KeyInv, Kept
    <3> QED BY <1>0, <1>5, <2>1, <3>1
  <2>2. ASSUME NEW x \in K!Slots, flash.key[x] # 0
        PROVE  flash.key[x] \in hist.exempt \cup hist.part \/ Fits(hist', flash.key[x], flash.meta[x], 0)
    <3>1. flash.key[x] \in hist.exempt \cup hist.part \/ Fits(hist, flash.key[x], flash.meta[x], 0)
      BY <1>4, <2>2 DEF KeyInv, Left
    <3> QED BY <1>0, <1>5, <2>2, <3>1
  <2> QED BY <1>0, <1>3, <1>4, <2>1, <2>2 DEF Kept, Left
<1>8. Placed(cache', flash', hist')
  BY <1>0, <1>6 DEF KeyInv, Placed
<1>9. Drawn(cache', flash', op', hist')
  <2> USE DEF KeyInv, Drawn
  <2>1. ASSUME NEW b \in hist'.blobs
        PROVE  0 < b.key /\ b.key <= hist.keys /\ (b.key \in hist.exempt \/ Covers(hist', b.key, b.algos))
    <3>1. CASE b = blob
      <4>1. k \in hist.exempt \/ Fits(hist, k, m, 0)
        BY <1>0, <1>4 DEF Kept
      <4>2. k \in hist.exempt \/ Covers(hist', k, m.algos)
        BY <1>3, <4>1 DEF Fits, Covers
      <4> QED BY <1>0, <1>1, <3>1, <4>2
    <3>2. CASE b \in hist.blobs
      BY <1>3, <3>2 DEF Covers
    <3> QED BY <1>3, <2>1, <3>1, <3>2
  <2>2. ASSUME NEW x \in K!Keys, Bounded(hist', x)
        PROVE  hist'.uses[x] <= hist'.made[x].count + hist'.mishaps /\ hist'.made[x].count \in Nat
    BY <1>3, <1>6, <2>2
  <2> QED BY <1>0, <1>3, <2>1, <2>2
<1>10. Storing(cache', op', hist') /\ Erasing(cache', op', hist') /\ Using(cache', op')
  <2>1. op'.cmd = None /\ op'.key = 0 /\ op'.todo = <<>>
    BY <1>0, KeyIdle
  <2>2. None \notin Stores \cup Erases \cup {"use"} /\ ~Has(op'.todo, KeyFile \cup {"meta"})
    BY <2>1, KeyNumbers DEF Stores, Erases, K!Commands, Has
  <2> QED BY <2>1, <2>2 DEF Storing, Erasing, Using
<1> QED BY <1>7, <1>8, <1>9, <1>10 DEF KeyInv

\* INITIALIZE erases all files; the keys in blobs can come back.
LEMMA KeyInitializeKeeps == ASSUME KeyInv, KeyTypes', K!Initialize PROVE KeyInv'
<1>0. hist \in KeyHistories /\ hist.keys \in Nat /\ op = K!Idle /\ op' = K!Idle
  BY DEF KeyInv, KeyTypes, KeyHistories, K!Initialize
<1>1. Unchanged(hist, hist') /\ hist'.part = {}
  BY <1>0 DEF K!Initialize, K!Counted, KeyHistories, Unchanged
<1>2. /\ \A s \in K!Slots : cache'.key[s] = 0 /\ cache'.meta[s] = K!NoMeta
      /\ cache' = flash'
  BY DEF K!Initialize, K!NoFiles
<1>3. ~Bounded(hist', 0)
  BY KeyNumbers DEF Bounded
<1>4. Kept(cache', op', hist') /\ Left(flash', op', hist')
  BY <1>2 DEF Kept, Left
<1>5. Placed(cache', flash', hist')
  BY <1>2, <1>3, KeyNumbers DEF Placed
<1>6. Drawn(cache', flash', op', hist')
  BY <1>0, <1>1, <1>2, KeyIdle, SameHistory DEF KeyInv, Drawn, Unchanged
<1>7. Storing(cache', op', hist') /\ Erasing(cache', op', hist') /\ Using(cache', op')
  <2>1. op'.cmd = None /\ op'.key = 0 /\ op'.todo = <<>>
    BY <1>0, KeyIdle
  <2>2. None \notin Stores \cup Erases \cup {"use"} /\ ~Has(op'.todo, KeyFile \cup {"meta"})
    BY <2>1, KeyNumbers DEF Stores, Erases, K!Commands, Has
  <2> QED BY <2>1, <2>2 DEF Storing, Erasing, Using
<1> QED BY <1>4, <1>5, <1>6, <1>7 DEF KeyInv

LEMMA KeyInit == K!Init => KeyInv
<1> SUFFICES ASSUME K!Init PROVE KeyInv
  OBVIOUS
<1>1. KeyTypes
  BY KeyTypesInit
<1>2. /\ \A s \in K!Slots : cache.key[s] = 0 /\ cache.meta[s] = K!NoMeta
      /\ cache = flash /\ op = K!Idle
  BY DEF K!Init, K!NoFiles
<1>3. /\ hist.keys = 0 /\ hist.filed = {} /\ hist.blobs = {} /\ hist.exempt = {} /\ hist.part = {} /\ hist.mishaps = 0
      /\ \A k \in K!Keys : hist.made[k] = K!NoMeta /\ hist.uses[k] = 0
  BY DEF K!Init
<1>4. \A k : ~Bounded(hist, k)
  BY <1>3 DEF Bounded, K!NoMeta, K!Meta
<1>5. Kept(cache, op, hist) /\ Left(flash, op, hist) /\ Placed(cache, flash, hist)
  BY <1>2, <1>4, KeyNumbers DEF Kept, Left, Placed
<1>6. Drawn(cache, flash, op, hist)
  BY <1>2, <1>3, <1>4, KeyNumbers, KeyIdle DEF Drawn
<1>7. Storing(cache, op, hist) /\ Erasing(cache, op, hist) /\ Using(cache, op)
  <2>1. op.cmd = None /\ op.key = 0 /\ op.todo = <<>>
    BY <1>2, KeyIdle
  <2>2. None \notin Stores \cup Erases \cup {"use"} /\ ~Has(op.todo, KeyFile \cup {"meta"})
    BY <2>1, KeyNumbers DEF Stores, Erases, K!Commands, Has
  <2> QED BY <2>1, <2>2 DEF Storing, Erasing, Using
<1> QED BY <1>1, <1>5, <1>6, <1>7 DEF KeyInv

LEMMA KeyNext == KeyInv /\ K!Next => KeyInv'
<1> SUFFICES ASSUME KeyInv, K!Next PROVE KeyInv'
  OBVIOUS
<1>0. KeyTypes'
  BY KeyTypesNext DEF KeyInv
<1>1. hist \in KeyHistories
  BY DEF KeyInv, KeyTypes
<1>2. CASE K!Write
  BY <1>0, <1>2, KeyWriteKeeps
<1>3. CASE K!Fault
  BY <1>0, <1>3, KeyFaultKeeps
<1>4. CASE K!Drain \/ K!PowerLoss
  BY <1>0, <1>4, KeyLossKeeps
<1>5. CASE K!Login \/ K!Select \/ K!HdCipher \/ \E type \in {"ec", "sym"} : K!HdDerive(type)
  <2>1. op = K!Idle /\ UNCHANGED <<cache, flash, op, hist>>
    BY <1>5 DEF K!Login, K!Select, K!HdCipher, K!HdDerive
  <2>2. Unchanged(hist, hist') /\ hist'.part = hist.part
    BY <2>1 DEF Unchanged
  <2> QED BY <1>0, <2>1, <2>2, KeyQuietKeeps
<1>6. ASSUME NEW s \in K!Slots, K!Sign(s) \/ K!Decipher(s) \/ K!HdSign(s) PROVE KeyInv'
  <2>1. /\ K!Used(s) /\ op = K!Idle /\ cache.key[s] # 0 /\ cache.meta[s].count # 0
        /\ UNCHANGED <<cache, flash>>
    BY <1>6 DEF K!Sign, K!Decipher, K!Asymmetric, K!HdSign, K!Usable
  <2> QED BY <1>0, <2>1, KeyUseKeeps
<1>6a. ASSUME NEW s \in K!Slots, NEW d \in K!Slots, K!DeriveAsym(s, d) PROVE KeyInv'
  BY <1>0, <1>6a, KeyDeriveKeeps
<1>7. ASSUME NEW s \in K!Slots, K!Cipher(s) PROVE KeyInv'
  <2>1. CASE ram.hd = None /\ K!Usable(s, "cipher") /\ K!Used(s)
    <3>1. /\ K!Used(s) /\ op = K!Idle /\ cache.key[s] # 0 /\ cache.meta[s].count # 0
          /\ UNCHANGED <<cache, flash>>
      BY <1>7, <2>1 DEF K!Cipher, K!Usable
    <3> QED BY <1>0, <3>1, KeyUseKeeps
  <2>2. CASE hist' = [hist EXCEPT !.stray = TRUE] /\ UNCHANGED op
    <3>1. op = K!Idle /\ UNCHANGED <<cache, flash, op>>
      BY <1>7, <2>2 DEF K!Cipher
    <3>2. Unchanged(hist, hist') /\ hist'.part = hist.part
      BY <1>1, <2>2 DEF KeyHistories, Unchanged
    <3> QED BY <1>0, <3>1, <3>2, KeyQuietKeeps
  <2> QED BY <1>7, <2>1, <2>2 DEF K!Cipher
<1>8. ASSUME NEW s \in K!Slots, NEW t \in K!Templates, K!KeyGen(s, t) \/ K!KeypairGen(s, t) PROVE KeyInv'
  BY <1>0, <1>8, KeyGenerationKeeps
<1>9. ASSUME NEW s \in K!Slots, NEW b \in hist.blobs, K!KeyUnwrap(s, b) PROVE KeyInv'
  BY <1>0, <1>9, KeyUnwrapKeeps
<1>10. ASSUME NEW s \in K!Slots, K!KeyWrap(s) \/ K!DeleteKey(s) PROVE KeyInv'
  BY <1>0, <1>10, KeyWrapKeeps, KeyDeleteKeeps
<1>11. CASE \/ \E s \in K!Slots : \E f \in {"prkd", "cert"} : K!DeleteSidecar(s, f) \/ K!UpdateEf(s, f)
            \/ K!MasterGen \/ K!DomainDelete \/ K!DomainImport
  BY <1>0, <1>11, KeyFilesKeep
<1>12. CASE K!Initialize
  BY <1>0, <1>12, KeyInitializeKeeps
<1> QED BY <1>2, <1>3, <1>4, <1>5, <1>6, <1>6a, <1>7, <1>8, <1>9, <1>10, <1>11, <1>12 DEF K!Next

\* In a behaviour of HsmKeys every reference holds a key whose metadata fits what the key was made
\* for, but for the reference a command is at and the keys a mishap made exempt (hsm_store_keys,
\* find_and_store_meta_key, decrement_key_counter). What DERIVE stored was made for everything and
\* fits any metadata.
KeysInv == part = "keys" => KeyInv

THEOREM KeysInvariant == Spec => []KeysInv
<1>1. Init => KeysInv
  <2> SUFFICES ASSUME Init, part = "keys" PROVE KeyInv
    BY DEF KeysInv
  <2>1. K!Init
    BY DEF Init
  <2> QED BY <2>1, KeyInit
<1>2. KeysInv /\ [Next]_vars => KeysInv'
  <2> SUFFICES ASSUME KeysInv, [Next]_vars, part' = "keys" PROVE KeyInv'
    BY DEF KeysInv
  <2>1. CASE Next
    <3>1. part = "keys" /\ K!Next
      BY <2>1 DEF Next
    <3> QED BY <3>1, KeyNext DEF KeysInv
  <2>2. CASE UNCHANGED vars
    <3>1. part = "keys" /\ UNCHANGED <<cache, flash, ram, op, hist>>
      BY <2>2 DEF vars
    <3>2. KeyTypes'
      BY <3>1 DEF KeysInv, KeyInv, KeyTypes
    <3> QED BY <3>1, <3>2 DEF KeysInv, KeyInv
  <2> QED BY <2>1, <2>2
<1> QED BY <1>1, <1>2, PTL DEF Spec

\* For any number of references, keys, uses, failed writes and power losses: a key generated in a
\* container with a counter is used at most as often as the counter says, plus once for every
\* mishap, and no key serves an algorithm that it was not generated for (decrement_key_counter and
\* the purposes in the metadata). A key that DERIVE stored is a key of its own, made without a
\* template: of its source the theorem says nothing but that the derivation is counted as a use.
THEOREM KeyRules == Spec => []KeyRulesKept
<1>1. KeysInv => KeyRulesKept
  <2> SUFFICES ASSUME KeysInv, part = "keys" PROVE K!CountedUses /\ K!PurposeKept
    BY DEF KeyRulesKept
  <2>0. KeyInv
    BY DEF KeysInv
  <2>1. K!CountedUses
    BY <2>0 DEF KeyInv, Drawn, Bounded, K!CountedUses, K!Exported
  <2>2. K!PurposeKept
    <3> SUFFICES ASSUME op = K!Idle, NEW s \in K!Slots, cache.key[s] # 0, cache.key[s] \notin hist.exempt,
                        NEW a \in K!Algos, K!Allows(cache.meta[s], a)
                 PROVE  K!Allows(hist.made[cache.key[s]], a)
      BY DEF K!PurposeKept
    <3>1. K!Busy(cache, op) = {}
      BY KeyIdle DEF K!Busy
    <3>2. Fits(hist, cache.key[s], cache.meta[s], Pending(op, s))
      BY <2>0, <3>1 DEF KeyInv, Kept
    <3> QED BY <3>2 DEF Fits, Covers, K!Allows
  <2> QED BY <2>1, <2>2
<1> QED BY <1>1, KeysInvariant, PTL

-----------------------------------------------------------------------------
(* Lists of writes *)

\* Short lists joined
LEMMA OneMore ==
    ASSUME NEW E, NEW s \in Seq(E), NEW t \in Seq(E), NEW z \in E,
           Len(t) = Len(s) + 1, t[Len(s) + 1] = z, \A i \in 1 .. Len(s) : t[i] = s[i]
    PROVE  s \o <<z>> = t
<1>1. Append(s, z) = s \o <<z>> /\ Append(s, z) \in Seq(E) /\ Len(Append(s, z)) = Len(s) + 1 /\ Len(s) \in Nat
  BY AppendIsConcat, AppendProperties, LenProperties
<1>2. (\A i \in 1 .. Len(s) : Append(s, z)[i] = s[i]) /\ Append(s, z)[Len(s) + 1] = z
  BY AppendProperties
<1>3. ASSUME NEW i \in 1 .. Len(s) + 1 PROVE Append(s, z)[i] = t[i]
  <2>1. i \in 1 .. Len(s) \/ i = Len(s) + 1
    BY <1>1
  <2> QED BY <1>2, <2>1
<1>4. Append(s, z) = t
  BY <1>1, <1>3, SeqEqual
<1> QED BY <1>1, <1>4

LEMMA Tuples ==
    ASSUME NEW x, NEW y, NEW z
    PROVE  <<x>> \o <<y>> \o <<z>> = <<x, y, z>> /\ <<x>> \o <<>> \o <<z>> = <<x, z>>
<1> DEFINE E == {x, y, z}
           a == <<x>>
           ab == <<x, y>>
           ac == <<x, z>>
           abc == <<x, y, z>>
<1>1. a \in Seq(E) /\ ab \in Seq(E) /\ ac \in Seq(E) /\ abc \in Seq(E) /\ x \in E /\ y \in E /\ z \in E
  OBVIOUS
<1>2. Len(a) = 1 /\ Len(ab) = 2 /\ ab[2] = y /\ Len(ac) = 2 /\ ac[2] = z /\ Len(abc) = 3 /\ abc[3] = z
  OBVIOUS
<1>3. (\A i \in 1 .. 1 : ab[i] = a[i] /\ ac[i] = a[i]) /\ (\A i \in 1 .. 2 : abc[i] = ab[i])
  OBVIOUS
<1> HIDE DEF a, ab, ac, abc, E
<1>4. a \o <<y>> = ab
  <2>1. Len(ab) = Len(a) + 1 /\ ab[Len(a) + 1] = y /\ \A i \in 1 .. Len(a) : ab[i] = a[i]
    BY <1>2, <1>3
  <2> QED BY <1>1, <2>1, OneMore
<1>5. a \o <<z>> = ac
  <2>1. Len(ac) = Len(a) + 1 /\ ac[Len(a) + 1] = z /\ \A i \in 1 .. Len(a) : ac[i] = a[i]
    BY <1>2, <1>3
  <2> QED BY <1>1, <2>1, OneMore
<1>6. ab \o <<z>> = abc
  <2>1. Len(abc) = Len(ab) + 1 /\ abc[Len(ab) + 1] = z /\ \A i \in 1 .. Len(ab) : abc[i] = ab[i]
    BY <1>2, <1>3
  <2> QED BY <1>1, <2>1, OneMore
<1>7. a \o <<>> = a
  BY <1>1, ConcatEmptySeq
<1>8. (a \o <<y>>) \o <<z>> = abc /\ (a \o <<>>) \o <<z>> = ac
  BY <1>4, <1>5, <1>6, <1>7
<1> QED BY <1>8 DEF a, ac, abc

-----------------------------------------------------------------------------
(* HsmSession: some reference opens the master key *)

\* What the writes q leave at r of file f, of the files c: the last of them counts.
Touches(w, f, r) == w.f = f /\ w.at \in {r, None}
Spares(q, f, r) == \A i \in 1 .. Len(q) : ~Touches(q[i], f, r)
Sets(q, f, r, x) ==
    \E i \in 1 .. Len(q) : q[i].f = f /\ q[i].at = r /\ q[i].v = x /\ \A j \in i + 1 .. Len(q) : ~Touches(q[j], f, r)
Value(c, f, r) == IF r = None THEN c[f] ELSE c[f][r]
Ends(c, q, f, r, x) == Sets(q, f, r, x) \/ (Spares(q, f, r) /\ Value(c, f, r) = x)

Place(f, r) == (f \in {"pin", "mkek"} /\ r \in S!Refs) \/ (f \in {"need", "have", "dkek"} /\ r = None)
Verifiers == [v : Pins, old : BOOLEAN]

\* The copy w of the MKEK key is opened by what the verifier v accepts.
Opens(w, v, key) == w.key = key /\ ~w.masked /\ w.pin = v.v /\ (w.kdf = "old" <=> v.old)

\* Once q is written, reference r opens key.
EndsOpen(c, q, r, key) ==
    \E v \in Verifiers, w \in Copies : Ends(c, q, "pin", r, v) /\ Ends(c, q, "mkek", r, w) /\ Opens(w, v, key)

\* Reference r opens the key now and after any part of q.
StaysOpen(c, q, r) ==
    /\ Opens(c.mkek[r], c.pin[r], c.key)
    /\ Spares(q, "pin", r)
    /\ \A i \in 1 .. Len(q) : Touches(q[i], "mkek", r) => q[i].at = r /\ Opens(q[i].v, c.pin[r], c.key)

Survives(c, q, r, key) == EndsOpen(c, q, r, key) \/ (key = c.key /\ StaysOpen(c, q, r))

\* No copy is of another key.
Keyed(c, q) ==
    /\ \A r \in S!Refs : c.mkek[r].key = c.key
    /\ \A i \in 1 .. Len(q) : q[i].f = "mkek" => q[i].at \in S!Refs /\ q[i].v.key = c.key

\* A session has what the verifier will accept.
Accepted(s) == [v |-> s.pin, old |-> s.kdf = "old"]
SessionsFit == \A r \in S!Refs : ram.ses[r] # None => Ends(cache, op.todo, "pin", r, Accepted(ram.ses[r]))

Initializing ==
    /\ op.cmd = "initialize" <=> "initialized" \in {op.pc, op.then}
    /\ op.cmd = "initialize" => op.pc \in {"write", "initialized"}

Target == IF op.cmd = "initialize" THEN op.key ELSE cache.key
BothSurvive == \A r \in S!Refs : Survives(cache, op.todo, r, Target)
OneStays(c, q) == Keyed(c, q) /\ \E r \in S!Refs : StaysOpen(c, q, r)

\* Before the first mishap both references will open the key and one does all the time.
Unharmed ==
    /\ BothSurvive /\ SessionsFit
    /\ op.cmd # "initialize" => OneStays(cache, op.todo)
    /\ "initialize" \in hist.part \/ OneStays(flash, <<>>)

\* After it one will, and no other mishap follows.
Harmed ==
    IF op.cmd = "initialize" THEN BothSurvive
    ELSE Keyed(cache, op.todo) /\ \E r \in S!Refs : Survives(cache, op.todo, r, cache.key)

OpensInv ==
    /\ Initializing
    /\ hist.mishaps = 0 => Unharmed
    /\ hist.mishaps # 0 /\ "initialize" \notin hist.torn => Harmed

\* What a write leaves at a place
LEMMA AppliedAt ==
    ASSUME NEW c \in Files, NEW w \in Writes, NEW f, NEW r, Place(f, r)
    PROVE  /\ w.at = r /\ w.f = f => Value(S!Applied(c, w), f, r) = w.v
           /\ ~Touches(w, f, r) => Value(S!Applied(c, w), f, r) = Value(c, f, r)
<1> USE SessionNumbers DEF Touches, Value, Place, S!Applied, S!Refs
<1>1. CASE w \in [f : {"pin"}, at : S!Refs, v : [v : Pins, old : BOOLEAN], must : BOOLEAN]
  BY <1>1 DEF Files
<1>2. CASE w \in [f : {"mkek"}, at : S!Refs, v : Copies, must : BOOLEAN]
  BY <1>2 DEF Files
<1>3. CASE w \in [f : {"mkek"}, at : {None}, v : [S!Refs -> Copies], must : BOOLEAN]
  BY <1>3 DEF Files
<1>4. CASE w \in [f : {"tries"}, at : S!Refs, v : Nat, must : BOOLEAN]
  BY <1>4 DEF Files
<1>5. CASE w \in [f : {"tries"}, at : {None}, v : [S!Refs -> Nat], must : BOOLEAN]
  BY <1>5 DEF Files
<1>6. CASE w \in [f : {"puks"}, at : Puks, v : Nat, must : BOOLEAN]
  BY <1>6 DEF Files
<1>7. CASE w \in [f : {"need", "have"}, at : {None}, v : Nat, must : BOOLEAN]
  BY <1>7 DEF Files
<1>8. CASE w \in [f : {"dkek"}, at : {None}, v : Domains, must : BOOLEAN]
  BY <1>8 DEF Files
<1>9. CASE w \in [f : {"locked"}, at : {None}, v : BOOLEAN, must : BOOLEAN]
  BY <1>9 DEF Files
<1> QED BY <1>1, <1>2, <1>3, <1>4, <1>5, <1>6, <1>7, <1>8, <1>9 DEF Writes

\* The list without its first write
LEMMA RestSpares ==
    ASSUME NEW q \in Seq(Writes), q # <<>>, NEW f, NEW r, Spares(q, f, r)
    PROVE  Spares(Tail(q), f, r) /\ ~Touches(Head(q), f, r)
<1>1. /\ Len(q) \in Nat \ {0} /\ Len(Tail(q)) = Len(q) - 1 /\ Head(q) = q[1]
      /\ \A i \in 1 .. Len(q) - 1 : Tail(q)[i] = q[i + 1]
  BY RestOf
<1>2. ASSUME NEW i \in 1 .. Len(Tail(q)) PROVE ~Touches(Tail(q)[i], f, r)
  <2>1. i + 1 \in 1 .. Len(q) /\ Tail(q)[i] = q[i + 1]
    BY <1>1
  <2> QED BY <2>1 DEF Spares
<1>3. 1 \in 1 .. Len(q)
  BY <1>1
<1> QED BY <1>1, <1>2, <1>3 DEF Spares

\* A write brings what the list ends with nearer.
LEMMA EndsWritten ==
    ASSUME NEW c \in Files, NEW q \in Seq(Writes), q # <<>>, NEW f, NEW r, Place(f, r), NEW x, Ends(c, q, f, r, x)
    PROVE  Ends(S!Applied(c, Head(q)), Tail(q), f, r, x)
<1>1. /\ Len(q) \in Nat \ {0} /\ Len(Tail(q)) = Len(q) - 1 /\ Head(q) = q[1] /\ Head(q) \in Writes
      /\ \A i \in 1 .. Len(q) - 1 : Tail(q)[i] = q[i + 1]
  BY RestOf
<1>2. CASE Spares(q, f, r) /\ Value(c, f, r) = x
  BY <1>1, <1>2, RestSpares, AppliedAt DEF Ends
<1>3. CASE Sets(q, f, r, x)
  <2>1. PICK i \in 1 .. Len(q) : q[i].f = f /\ q[i].at = r /\ q[i].v = x /\ \A j \in i + 1 .. Len(q) : ~Touches(q[j], f, r)
    BY <1>3 DEF Sets
  <2>2. ASSUME NEW j \in 1 .. Len(Tail(q)), j \in i .. Len(Tail(q)) PROVE ~Touches(Tail(q)[j], f, r)
    <3>1. j + 1 \in i + 1 .. Len(q) /\ Tail(q)[j] = q[j + 1]
      BY <1>1, <2>2
    <3> QED BY <2>1, <3>1
  <2>3. CASE i = 1
    <3>1. Value(S!Applied(c, Head(q)), f, r) = x
      BY <1>1, <2>1, <2>3, AppliedAt
    <3>2. Spares(Tail(q), f, r)
      BY <1>1, <2>2, <2>3 DEF Spares
    <3> QED BY <3>1, <3>2 DEF Ends
  <2>4. CASE i # 1
    <3>1. i - 1 \in 1 .. Len(Tail(q)) /\ Tail(q)[i - 1] = q[i]
      BY <1>1, <2>4
    <3>2. \A j \in (i - 1) + 1 .. Len(Tail(q)) : ~Touches(Tail(q)[j], f, r)
      BY <1>1, <2>2, <2>4
    <3>3. Sets(Tail(q), f, r, x)
      BY <2>1, <3>1, <3>2 DEF Sets
    <3> QED BY <3>3 DEF Ends
  <2> QED BY <2>3, <2>4
<1> QED BY <1>2, <1>3 DEF Ends

\* Nothing left to write: the files are what they end as.
LEMMA EndsNow == \A c, f, r, x : Ends(c, <<>>, f, r, x) <=> Value(c, f, r) = x
<1> QED BY DEF Ends, Sets, Spares

\* A write leaves what opens open.
LEMMA SurvivesWritten ==
    ASSUME NEW c \in Files, NEW q \in Seq(Writes), q # <<>>, NEW r \in S!Refs, NEW key
    PROVE  /\ EndsOpen(c, q, r, key) => EndsOpen(S!Applied(c, Head(q)), Tail(q), r, key)
           /\ StaysOpen(c, q, r) => StaysOpen(S!Applied(c, Head(q)), Tail(q), r)
           /\ Survives(c, q, r, key) => Survives(S!Applied(c, Head(q)), Tail(q), r, key)
           /\ StaysOpen(c, q, r) => StaysOpen(c, Tail(q), r) /\ StaysOpen(c, <<>>, r)
<1> DEFINE d == S!Applied(c, Head(q))
<1>0. Place("pin", r) /\ Place("mkek", r) /\ r # None
  BY SessionNumbers DEF Place
<1>1. /\ Len(q) \in Nat \ {0} /\ Len(Tail(q)) = Len(q) - 1 /\ Head(q) = q[1] /\ Head(q) \in Writes
      /\ \A i \in 1 .. Len(q) - 1 : Tail(q)[i] = q[i + 1]
  BY RestOf
<1>2. EndsOpen(c, q, r, key) => EndsOpen(d, Tail(q), r, key)
  BY <1>0, EndsWritten DEF EndsOpen
<1>3. ASSUME StaysOpen(c, q, r)
      PROVE  /\ Spares(Tail(q), "pin", r) /\ d.pin[r] = c.pin[r] /\ d.key = c.key
             /\ \A i \in 1 .. Len(Tail(q)) : Touches(Tail(q)[i], "mkek", r)
                    => Tail(q)[i].at = r /\ Opens(Tail(q)[i].v, c.pin[r], c.key)
             /\ Opens(d.mkek[r], c.pin[r], c.key)
  <2>1. Spares(Tail(q), "pin", r) /\ ~Touches(Head(q), "pin", r)
    BY <1>3, RestSpares DEF StaysOpen
  <2>2. Value(d, "pin", r) = Value(c, "pin", r) /\ d.key = c.key
    BY <1>0, <1>1, <2>1, AppliedAt, AppliedWrite
  <2>3. ASSUME NEW i \in 1 .. Len(Tail(q)), Touches(Tail(q)[i], "mkek", r)
        PROVE  Tail(q)[i].at = r /\ Opens(Tail(q)[i].v, c.pin[r], c.key)
    <3>1. i + 1 \in 1 .. Len(q) /\ Tail(q)[i] = q[i + 1]
      BY <1>1
    <3> QED BY <1>3, <2>3, <3>1 DEF StaysOpen
  <2>4. Opens(d.mkek[r], c.pin[r], c.key)
    <3>1. CASE Touches(Head(q), "mkek", r)
      <4>1. 1 \in 1 .. Len(q)
        BY <1>1
      <4>2. Head(q).at = r /\ Opens(Head(q).v, c.pin[r], c.key)
        BY <1>1, <1>3, <3>1, <4>1 DEF StaysOpen
      <4>3. Value(d, "mkek", r) = Head(q).v
        BY <1>0, <1>1, <3>1, <4>2, AppliedAt DEF Touches
      <4> QED BY <1>0, <4>2, <4>3 DEF Value
    <3>2. CASE ~Touches(Head(q), "mkek", r)
      <4>1. Value(d, "mkek", r) = Value(c, "mkek", r)
        BY <1>0, <1>1, <3>2, AppliedAt
      <4> QED BY <1>0, <1>3, <4>1 DEF Value, StaysOpen
    <3> QED BY <3>1, <3>2
  <2> QED BY <1>0, <2>1, <2>2, <2>3, <2>4 DEF Value
<1>4. d.key = c.key
  BY <1>1, AppliedWrite
<1> HIDE DEF d
<1>5. StaysOpen(c, q, r) => StaysOpen(d, Tail(q), r) /\ StaysOpen(c, Tail(q), r) /\ StaysOpen(c, <<>>, r)
  BY <1>3 DEF StaysOpen, Spares
<1>6. Survives(c, q, r, key) => Survives(d, Tail(q), r, key)
  BY <1>2, <1>4, <1>5 DEF Survives
<1> QED BY <1>2, <1>5, <1>6 DEF d

\* A write keeps the copies of one key.
LEMMA KeyedWritten ==
    ASSUME NEW c \in Files, NEW q \in Seq(Writes), q # <<>>, Keyed(c, q)
    PROVE  Keyed(S!Applied(c, Head(q)), Tail(q)) /\ Keyed(c, Tail(q)) /\ Keyed(c, <<>>)
<1> DEFINE d == S!Applied(c, Head(q))
<1>1. /\ Len(q) \in Nat \ {0} /\ Len(Tail(q)) = Len(q) - 1 /\ Head(q) = q[1] /\ Head(q) \in Writes
      /\ \A i \in 1 .. Len(q) - 1 : Tail(q)[i] = q[i + 1]
  BY RestOf
<1>2. d.key = c.key
  BY <1>1, AppliedWrite
<1>3. ASSUME NEW i \in 1 .. Len(Tail(q)), Tail(q)[i].f = "mkek" PROVE Tail(q)[i].at \in S!Refs /\ Tail(q)[i].v.key = c.key
  <2>1. i + 1 \in 1 .. Len(q) /\ Tail(q)[i] = q[i + 1]
    BY <1>1
  <2> QED BY <1>3, <2>1 DEF Keyed
<1>4. ASSUME NEW r \in S!Refs PROVE d.mkek[r].key = c.key
  <2>1. 1 \in 1 .. Len(q) /\ Place("mkek", r) /\ r # None
    BY <1>1, SessionNumbers DEF Place
  <2>2. CASE Touches(Head(q), "mkek", r)
    <3>1. Head(q).at = r /\ Head(q).v.key = c.key /\ Head(q).f = "mkek"
      BY <1>1, <2>1, <2>2, SessionNumbers DEF Touches, Keyed
    <3>2. Value(d, "mkek", r) = Head(q).v
      BY <1>1, <2>1, <3>1, AppliedAt
    <3> QED BY <2>1, <3>1, <3>2 DEF Value
  <2>3. CASE ~Touches(Head(q), "mkek", r)
    <3>1. Value(d, "mkek", r) = Value(c, "mkek", r)
      BY <1>1, <2>1, <2>3, AppliedAt
    <3> QED BY <2>1, <3>1 DEF Value, Keyed
  <2> QED BY <2>2, <2>3
<1> HIDE DEF d
<1>5. Keyed(d, Tail(q)) /\ Keyed(c, Tail(q)) /\ Keyed(c, <<>>)
  BY <1>2, <1>3, <1>4 DEF Keyed
<1> QED BY <1>5 DEF d

\* Lists of writes put together
Taken(q) == {q[i] : i \in 1 .. Len(q)}
LEMMA SparesTaken == \A q, f, r : Spares(q, f, r) <=> \A w \in Taken(q) : ~Touches(w, f, r)
BY DEF Spares, Taken

LEMMA JoinedLists ==
    ASSUME NEW a \in Seq(Writes), NEW b \in Seq(Writes)
    PROVE  /\ a \o b \in Seq(Writes) /\ Taken(a \o b) = Taken(a) \cup Taken(b)
           /\ \A f, r, x : Sets(b, f, r, x) \/ (Sets(a, f, r, x) /\ Spares(b, f, r)) => Sets(a \o b, f, r, x)
           /\ \A f, r : Spares(a, f, r) /\ Spares(b, f, r) => Spares(a \o b, f, r)
<1> DEFINE q == a \o b
<1>1. /\ q \in Seq(Writes) /\ Len(q) = Len(a) + Len(b) /\ Len(a) \in Nat /\ Len(b) \in Nat
      /\ \A i \in 1 .. Len(q) : q[i] = IF i <= Len(a) THEN a[i] ELSE b[i - Len(a)]
  BY ConcatProperties, LenProperties
<1> HIDE DEF q
<1>2. /\ \A i \in 1 .. Len(a) : i \in 1 .. Len(q) /\ q[i] = a[i]
      /\ \A i \in 1 .. Len(b) : i + Len(a) \in 1 .. Len(q) /\ q[i + Len(a)] = b[i]
      /\ \A i \in 1 .. Len(q) : i \notin 1 .. Len(a) => i - Len(a) \in 1 .. Len(b) /\ q[i] = b[i - Len(a)]
  BY <1>1
<1>3. Taken(q) = Taken(a) \cup Taken(b)
  <2>1. ASSUME NEW w \in Taken(q) PROVE w \in Taken(a) \/ w \in Taken(b)
    BY <1>2 DEF Taken
  <2>2. ASSUME NEW w \in Taken(a) PROVE w \in Taken(q)
    BY <1>2 DEF Taken
  <2>3. ASSUME NEW w \in Taken(b) PROVE w \in Taken(q)
    BY <1>2 DEF Taken
  <2> QED BY <2>1, <2>2, <2>3
<1>4. ASSUME NEW f, NEW r, NEW x, Sets(b, f, r, x) PROVE Sets(q, f, r, x)
  <2>1. PICK i \in 1 .. Len(b) : b[i].f = f /\ b[i].at = r /\ b[i].v = x /\ \A j \in i + 1 .. Len(b) : ~Touches(b[j], f, r)
    BY <1>4 DEF Sets
  <2>2. i + Len(a) \in 1 .. Len(q) /\ q[i + Len(a)] = b[i]
    BY <1>2
  <2>3. ASSUME NEW j \in (i + Len(a)) + 1 .. Len(q) PROVE ~Touches(q[j], f, r)
    <3>1. j \in 1 .. Len(q) /\ j \notin 1 .. Len(a) /\ j - Len(a) \in i + 1 .. Len(b)
      BY <1>1, <2>3
    <3>2. q[j] = b[j - Len(a)]
      BY <1>2, <3>1
    <3> QED BY <2>1, <3>1, <3>2
  <2> QED BY <2>1, <2>2, <2>3 DEF Sets
<1>5. ASSUME NEW f, NEW r, NEW x, Sets(a, f, r, x), Spares(b, f, r) PROVE Sets(q, f, r, x)
  <2>1. PICK i \in 1 .. Len(a) : a[i].f = f /\ a[i].at = r /\ a[i].v = x /\ \A j \in i + 1 .. Len(a) : ~Touches(a[j], f, r)
    BY <1>5 DEF Sets
  <2>2. i \in 1 .. Len(q) /\ q[i] = a[i]
    BY <1>2
  <2>3. ASSUME NEW j \in i + 1 .. Len(q) PROVE ~Touches(q[j], f, r)
    <3>1. CASE j \in 1 .. Len(a)
      <4>1. j \in i + 1 .. Len(a)
        BY <1>1, <2>3, <3>1
      <4> QED BY <1>2, <2>1, <3>1, <4>1
    <3>2. CASE j \notin 1 .. Len(a)
      <4>1. j \in 1 .. Len(q)
        BY <1>1, <2>3
      <4>2. j - Len(a) \in 1 .. Len(b) /\ q[j] = b[j - Len(a)]
        BY <1>2, <3>2, <4>1
      <4> QED BY <1>5, <4>2 DEF Spares
    <3> QED BY <3>1, <3>2
  <2> QED BY <2>1, <2>2, <2>3 DEF Sets
<1>6. \A f, r : Spares(a, f, r) /\ Spares(b, f, r) => Spares(q, f, r)
  BY <1>3, SparesTaken
<1> QED BY <1>1, <1>3, <1>4, <1>5, <1>6 DEF q

\* A list of one write
LEMMA OneTaken ==
    ASSUME NEW w \in Writes
    PROVE  /\ <<w>> \in Seq(Writes) /\ Taken(<<w>>) = {w}
           /\ \A f, r, x : w.f = f /\ w.at = r /\ w.v = x => Sets(<<w>>, f, r, x)
           /\ \A f, r : ~Touches(w, f, r) => Spares(<<w>>, f, r)
<1>1. <<w>> \in Seq(Writes) /\ Len(<<w>>) = 1 /\ <<w>>[1] = w
  OBVIOUS
<1> DEFINE q == <<w>>
<1>2. q \in Seq(Writes) /\ Len(q) = 1 /\ q[1] = w /\ 1 .. Len(q) = {1}
  BY <1>1
<1> HIDE DEF q
<1>3. Taken(q) = {w}
  BY <1>2 DEF Taken
<1>4. \A f, r, x : w.f = f /\ w.at = r /\ w.v = x => Sets(q, f, r, x)
  <2>1. 1 + 1 .. Len(q) = {}
    BY <1>2
  <2> QED BY <1>2, <2>1 DEF Sets
<1>5. \A f, r : ~Touches(w, f, r) => Spares(q, f, r)
  BY <1>2 DEF Spares
<1> QED BY <1>2, <1>3, <1>4, <1>5 DEF q

LEMMA NoneTaken == Taken(<<>>) = {} /\ (\A f, r : Spares(<<>>, f, r)) /\ <<>> \in Seq(Writes)
BY DEF Taken, Spares

\* The copies a store writes: for every session that of its PIN
LEMMA StoreTaken ==
    ASSUME NEW ses \in [S!Refs -> MaySession], NEW key \in Nat
    PROVE  /\ \A w \in Taken(S!StoreMkek(ses, key)) : \E r \in S!Refs :
                 ses[r] # None /\ w.f = "mkek" /\ w.at = r /\ w.v = S!Wrapped(ses[r].pin, ses[r].kdf, key)
           /\ \A r \in S!Refs : ses[r] # None =>
                 Sets(S!StoreMkek(ses, key), "mkek", r, S!Wrapped(ses[r].pin, ses[r].kdf, key))
<1> DEFINE P(r) == S!Put("mkek", r, S!Wrapped(ses[r].pin, ses[r].kdf, key), FALSE)
           A == IF ses["user"] = None THEN <<>> ELSE <<P("user")>>
           B == IF ses["so"] = None THEN <<>> ELSE <<P("so")>>
<1>1. "user" \in S!Refs /\ "so" \in S!Refs /\ S!Refs = {"user", "so"}
  BY DEF S!Refs
<1>2. ASSUME NEW r \in S!Refs, ses[r] # None
      PROVE  P(r) \in Writes /\ P(r).f = "mkek" /\ P(r).at = r /\ P(r).v = S!Wrapped(ses[r].pin, ses[r].kdf, key)
  <2>1. P(r) \in Writes
    BY <1>2, StoreTypes, PutTypes
  <2> QED BY <2>1 DEF S!Put
<1>3. S!StoreMkek(ses, key) = A \o B
  BY DEF S!StoreMkek
<1> HIDE DEF P
<1>4. /\ A \in Seq(Writes) /\ (\A w \in Taken(A) : ses["user"] # None /\ w = P("user"))
      /\ ses["user"] # None => Sets(A, "mkek", "user", P("user").v)
  <2>1. CASE ses["user"] = None
    BY <2>1, NoneTaken
  <2>2. CASE ses["user"] # None
    BY <1>1, <1>2, <2>2, OneTaken
  <2> QED BY <2>1, <2>2
<1>5. /\ B \in Seq(Writes) /\ (\A w \in Taken(B) : ses["so"] # None /\ w = P("so"))
      /\ (ses["so"] # None => Sets(B, "mkek", "so", P("so").v)) /\ Spares(B, "mkek", "user")
  <2>1. CASE ses["so"] = None
    BY <2>1, NoneTaken
  <2>2. CASE ses["so"] # None
    <3>1. ~Touches(P("so"), "mkek", "user")
      BY <1>1, <1>2, <2>2, SessionNumbers DEF Touches
    <3> QED BY <1>1, <1>2, <2>2, <3>1, OneTaken
  <2> QED BY <2>1, <2>2
<1> HIDE DEF A, B
<1>6. ASSUME NEW w \in Taken(A \o B)
      PROVE  \E r \in S!Refs : ses[r] # None /\ w.f = "mkek" /\ w.at = r /\ w.v = S!Wrapped(ses[r].pin, ses[r].kdf, key)
  <2>1. w \in Taken(A) \/ w \in Taken(B)
    BY <1>4, <1>5, JoinedLists
  <2> QED BY <1>1, <1>2, <1>4, <1>5, <2>1
<1>7. /\ ses["user"] # None => Sets(A \o B, "mkek", "user", P("user").v)
      /\ ses["so"] # None => Sets(A \o B, "mkek", "so", P("so").v)
  BY <1>4, <1>5, JoinedLists
<1> QED BY <1>1, <1>2, <1>3, <1>6, <1>7

Accepts(c, ses, s) == ses[s] # None => c.pin[s] = Accepted(ses[s])

\* A PIN gets a new value: copies for the sessions, then the verifier. The reference it is of will
\* open the key, and the other one does all the time if it does now and its session fits.
LEMMA Rewritten ==
    ASSUME NEW c \in Files, NEW r \in S!Refs, NEW v \in Pins, NEW ses \in [S!Refs -> MaySession],
           ses[r] # None, ses[r].pin = v, ses[r].kdf = "new", NEW must \in BOOLEAN, NEW a \in Seq(Writes),
           \A w \in Taken(a) : w.f = "tries" \/ (w.f = "mkek" /\ w.at \in S!Refs /\ w.v.key = c.key),
           NEW q, q = a \o S!StoreMkek(ses, c.key) \o <<S!Put("pin", r, [v |-> v, old |-> FALSE], must)>>
    PROVE  /\ q \in Seq(Writes) /\ EndsOpen(c, q, r, c.key) /\ Ends(c, q, "pin", r, [v |-> v, old |-> FALSE])
           /\ Keyed(c, <<>>) => Keyed(c, q)
           /\ \A s \in S!Refs \ {r} :
                 /\ Spares(q, "pin", s)
                 /\ StaysOpen(c, <<>>, s) /\ Accepts(c, ses, s)
                    /\ (\A w \in Taken(a) : w.f = "mkek" /\ w.at = s => Opens(w.v, c.pin[s], c.key))
                    => StaysOpen(c, q, s)
<1> DEFINE b == S!StoreMkek(ses, c.key)
           p == S!Put("pin", r, [v |-> v, old |-> FALSE], must)
           W(s) == S!Wrapped(ses[s].pin, ses[s].kdf, c.key)
<1>1. c.key \in Nat /\ b \in Seq(Writes) /\ \A s \in S!Refs : ses[s] # None => W(s) \in Copies
  BY StoreTypes DEF Files
<1>2. /\ \A w \in Taken(b) : \E s \in S!Refs : ses[s] # None /\ w.f = "mkek" /\ w.at = s /\ w.v = W(s)
      /\ Sets(b, "mkek", r, W(r))
  BY <1>1, StoreTaken
<1>3. p \in Writes /\ p.f = "pin" /\ p.at = r /\ p.v = [v |-> v, old |-> FALSE]
  <2>1. [v |-> v, old |-> FALSE] \in [v : Pins, old : BOOLEAN]
    OBVIOUS
  <2> QED BY <2>1, PutTypes DEF S!Put
<1>4. \A s \in S!Refs : W(s).key = c.key /\ ~W(s).masked /\ W(s).pin = ses[s].pin /\ W(s).kdf = ses[s].kdf
  BY DEF S!Wrapped
<1>5. q = a \o b \o <<p>>
  OBVIOUS
<1> HIDE DEF b, p, W
<1>6. /\ q \in Seq(Writes) /\ Taken(q) = Taken(a) \cup Taken(b) \cup {p}
      /\ Sets(q, "pin", r, p.v) /\ Sets(q, "mkek", r, W(r))
  <2> DEFINE m == a \o b
             n == <<p>>
  <2>1. m \in Seq(Writes) /\ Taken(m) = Taken(a) \cup Taken(b) /\ Sets(m, "mkek", r, W(r))
    BY <1>1, <1>2, JoinedLists
  <2>2. n \in Seq(Writes) /\ Sets(n, "pin", r, p.v) /\ Spares(n, "mkek", r) /\ Taken(n) = {p}
    BY <1>3, OneTaken DEF Touches
  <2>3. q = m \o n
    BY <1>5
  <2> HIDE DEF m, n
  <2>4. m \o n \in Seq(Writes) /\ Taken(m \o n) = Taken(m) \cup Taken(n)
    BY <2>1, <2>2, JoinedLists
  <2>5. Sets(m \o n, "pin", r, p.v)
    BY <2>1, <2>2, JoinedLists
  <2>6. Sets(m \o n, "mkek", r, W(r))
    BY <2>1, <2>2, JoinedLists
  <2> QED BY <2>1, <2>2, <2>3, <2>4, <2>5, <2>6
<1>7. ASSUME NEW w \in Taken(q), w.f = "mkek" PROVE w.at \in S!Refs /\ w.v.key = c.key
  <2>1. w \in Taken(a) \/ w \in Taken(b)
    BY <1>3, <1>6, <1>7
  <2>2. w.f # "tries"
    BY <1>7
  <2>3. CASE w \in Taken(a)
    BY <2>2, <2>3
  <2>4. CASE w \in Taken(b)
    <3>1. PICK s \in S!Refs : w.at = s /\ w.v = W(s)
      BY <1>2, <2>4
    <3> QED BY <1>4, <3>1
  <2> QED BY <2>1, <2>3, <2>4
<1>8. \A i \in 1 .. Len(q) : q[i] \in Taken(q)
  BY DEF Taken
<1>9. EndsOpen(c, q, r, c.key)
  <2>1. p.v \in Verifiers /\ W(r) \in Copies /\ Opens(W(r), p.v, c.key)
    BY <1>1, <1>3, <1>4 DEF Verifiers, Opens
  <2> QED BY <1>6, <2>1 DEF EndsOpen, Ends
<1>10. Keyed(c, <<>>) => Keyed(c, q)
  BY <1>7, <1>8 DEF Keyed
<1>11. ASSUME NEW s \in S!Refs \ {r} PROVE Spares(q, "pin", s)
  <2>1. \A w \in Taken(q) : ~Touches(w, "pin", s)
    BY <1>2, <1>3, <1>6, SessionNumbers DEF Touches
  <2> QED BY <2>1, SparesTaken
<1>12. ASSUME NEW s \in S!Refs \ {r}, StaysOpen(c, <<>>, s), Accepts(c, ses, s),
              \A w \in Taken(a) : w.f = "mkek" /\ w.at = s => Opens(w.v, c.pin[s], c.key)
       PROVE  StaysOpen(c, q, s)
  <2>1. ASSUME NEW w \in Taken(q), Touches(w, "mkek", s) PROVE w.at = s /\ Opens(w.v, c.pin[s], c.key)
    <3>1. w.at = s /\ w.f = "mkek"
      BY <1>7, <2>1, SessionNumbers DEF Touches
    <3>2. CASE w \in Taken(a)
      BY <1>12, <3>1, <3>2
    <3>3. CASE w \in Taken(b)
      <4>1. ses[s] # None /\ w.v = W(s) /\ c.pin[s] = Accepted(ses[s])
        BY <1>2, <1>12, <3>1, <3>3 DEF Accepts
      <4>2. c.pin[s].v = ses[s].pin /\ c.pin[s].old = (ses[s].kdf = "old")
        BY <4>1 DEF Accepted
      <4>3. s \in S!Refs /\ W(s).key = c.key /\ ~W(s).masked /\ W(s).pin = ses[s].pin /\ W(s).kdf = ses[s].kdf
        BY <1>4
      <4> QED BY <3>1, <4>1, <4>2, <4>3 DEF Opens
    <3> QED BY <1>3, <1>6, <3>1, <3>2, <3>3
  <2> QED BY <1>8, <1>11, <1>12, <2>1 DEF StaysOpen
<1> QED BY <1>3, <1>6, <1>9, <1>10, <1>11, <1>12 DEF Ends

\* Between two lists: what is open now
Open(c, r) == Opens(c.mkek[r], c.pin[r], c.key)
Living == hist.mishaps = 0 \/ "initialize" \notin hist.torn
LEMMA Resting ==
    ASSUME SessionTypes, OpensInv, op.todo = <<>>, op.cmd # "initialize"
    PROVE  /\ hist.mishaps = 0 =>
                 /\ \A r \in S!Refs : Open(cache, r) /\ Accepts(cache, ram.ses, r)
                 /\ "initialize" \in hist.part \/ OneStays(flash, <<>>)
           /\ Living => Keyed(cache, <<>>) /\ \E r \in S!Refs : Open(cache, r)
<1>1. \A r \in S!Refs, f \in {"pin", "mkek"} : r # None /\ Value(cache, f, r) = cache[f][r]
  BY SessionNumbers DEF Value
<1>2. ASSUME NEW r \in S!Refs, NEW x PROVE Ends(cache, <<>>, "pin", r, x) <=> cache.pin[r] = x
  BY <1>1, EndsNow
<1>3. ASSUME NEW r \in S!Refs, NEW x PROVE Ends(cache, <<>>, "mkek", r, x) <=> cache.mkek[r] = x
  BY <1>1, EndsNow
<1>4. ASSUME NEW r \in S!Refs, Survives(cache, <<>>, r, cache.key) PROVE Open(cache, r)
  BY <1>2, <1>3, <1>4 DEF Survives, EndsOpen, StaysOpen, Open
<1>5. ASSUME hist.mishaps = 0
      PROVE  /\ \A r \in S!Refs : Open(cache, r) /\ Accepts(cache, ram.ses, r)
             /\ "initialize" \in hist.part \/ OneStays(flash, <<>>)
  <2>1. Unharmed /\ Target = cache.key
    BY <1>5 DEF OpensInv, Target
  <2>2. ASSUME NEW r \in S!Refs PROVE Open(cache, r) /\ Accepts(cache, ram.ses, r)
    BY <1>2, <1>4, <2>1 DEF Unharmed, BothSurvive, SessionsFit, Accepts
  <2> QED BY <2>1, <2>2 DEF Unharmed
<1>6. ASSUME Living PROVE Keyed(cache, <<>>) /\ \E r \in S!Refs : Open(cache, r)
  <2>1. CASE hist.mishaps = 0
    <3>1. OneStays(cache, <<>>)
      BY <2>1 DEF OpensInv, Unharmed
    <3> QED BY <1>5, <2>1, <3>1 DEF OneStays, StaysOpen, Open
  <2>2. CASE hist.mishaps # 0
    BY <1>4, <1>6, <2>2 DEF Living, OpensInv, Harmed
  <2> QED BY <2>1, <2>2
<1> QED BY <1>5, <1>6

\* The handler goes on with something else, sparing verifiers and copies.
LEMMA OpensAside ==
    ASSUME SessionTypes, SessionTypes', OpensInv, op.todo = <<>>, op.cmd # "initialize",
           UNCHANGED flash, cache'.pin = cache.pin, cache'.mkek = cache.mkek, cache'.key = cache.key,
           hist'.mishaps = hist.mishaps, hist'.part = hist.part, hist.torn \subseteq hist'.torn,
           \A r \in S!Refs : ram'.ses[r] \in {None, ram.ses[r]} \/ Accepts(cache, ram'.ses, r),
           op'.cmd # "initialize", op'.pc # "initialized", op'.then # "initialized",
           \A w \in Taken(op'.todo) : w.f \notin {"pin", "mkek"}
    PROVE  OpensInv'
<1>1. \A i \in 1 .. Len(op'.todo) : op'.todo[i] \in Taken(op'.todo)
  BY DEF Taken
<1>2. ASSUME NEW r \in S!Refs PROVE Spares(op'.todo, "pin", r) /\ Spares(op'.todo, "mkek", r)
  BY <1>1 DEF Spares, Touches
<1>3. ASSUME NEW r \in S!Refs, Open(cache, r) PROVE StaysOpen(cache', op'.todo, r)
  BY <1>2, <1>3 DEF StaysOpen, Spares, Open
<1>4. Keyed(cache, <<>>) => Keyed(cache', op'.todo)
  BY <1>1 DEF Keyed
<1>5. Target' = cache.key
  BY DEF Target
<1>6. Initializing'
  BY DEF Initializing
<1>7. ASSUME hist'.mishaps = 0 PROVE Unharmed'
  <2>1. hist.mishaps = 0 /\ Living
    BY <1>7 DEF Living
  <2>2. \A r \in S!Refs : Open(cache, r) /\ Accepts(cache, ram.ses, r)
    BY <2>1, Resting
  <2>3. BothSurvive'
    BY <1>3, <1>5, <2>2 DEF BothSurvive, Survives
  <2>4. SessionsFit'
    <3>1. ASSUME NEW r \in S!Refs, ram'.ses[r] # None PROVE Ends(cache', op'.todo, "pin", r, Accepted(ram'.ses[r]))
      <4>1. cache'.pin[r] = Accepted(ram'.ses[r])
        BY <2>2, <3>1 DEF Accepts
      <4>2. Value(cache', "pin", r) = cache'.pin[r]
        BY SessionNumbers DEF Value
      <4> QED BY <1>2, <4>1, <4>2 DEF Ends
    <3> QED BY <3>1 DEF SessionsFit
  <2>5. OneStays(cache', op'.todo)
    <3>1. Keyed(cache, <<>>) /\ "user" \in S!Refs
      BY <2>1, Resting DEF S!Refs
    <3> QED BY <1>3, <1>4, <2>2, <3>1 DEF OneStays
  <2>6. "initialize" \in hist'.part \/ OneStays(flash', <<>>)
    BY <2>1, Resting
  <2> QED BY <2>3, <2>4, <2>5, <2>6 DEF Unharmed
<1>8. ASSUME hist'.mishaps # 0, "initialize" \notin hist'.torn PROVE Harmed'
  <2>1. Living
    BY <1>8 DEF Living
  <2>2. Keyed(cache, <<>>) /\ \E r \in S!Refs : Open(cache, r)
    BY <2>1, Resting
  <2> QED BY <1>3, <1>4, <2>2 DEF Harmed, Survives
<1> QED BY <1>6, <1>7, <1>8 DEF OpensInv

\* A PIN gets a new value: what a precedes is the copies of key for the sessions and the verifier.
Rewrites(r, v, key, a, must) ==
    /\ r \in S!Refs /\ v \in Pins /\ must \in BOOLEAN /\ a \in Seq(Writes)
    /\ ram'.ses[r] # None /\ ram'.ses[r].pin = v /\ ram'.ses[r].kdf = "new"
    /\ \A s \in S!Refs \ {r} : ram'.ses[s] = ram.ses[s]
    /\ op'.cmd # "initialize" /\ op'.pc # "initialized" /\ op'.then # "initialized"
    /\ Living => key = cache.key
    /\ \A w \in Taken(a) : w.f = "tries" \/ (w.f = "mkek" /\ w.at \in S!Refs /\ w.v.key = key)
    /\ hist.mishaps = 0 =>
          \A s \in S!Refs \ {r} : \A w \in Taken(a) : w.f = "mkek" /\ w.at = s => Opens(w.v, cache.pin[s], key)
    /\ op'.todo = a \o S!StoreMkek(ram'.ses, key) \o <<S!Put("pin", r, [v |-> v, old |-> FALSE], must)>>

LEMMA OpensRewrite ==
    ASSUME SessionTypes, SessionTypes', OpensInv, op.todo = <<>>, op.cmd # "initialize", UNCHANGED <<cache, flash, hist>>,
           NEW r, NEW v, NEW key, NEW a, NEW must, Rewrites(r, v, key, a, must)
    PROVE  OpensInv'
<1> USE DEF Rewrites
<1>0. ram'.ses \in [S!Refs -> MaySession] /\ cache \in Files
  BY DEF SessionTypes, Ram
<1> DEFINE q == op'.todo
           ses == ram'.ses
<1>1. Living =>
        /\ EndsOpen(cache, q, r, cache.key) /\ Ends(cache, q, "pin", r, [v |-> v, old |-> FALSE])
        /\ Keyed(cache, <<>>) => Keyed(cache, q)
        /\ \A s \in S!Refs \ {r} :
              /\ Spares(q, "pin", s)
              /\ StaysOpen(cache, <<>>, s) /\ Accepts(cache, ses, s)
                 /\ (\A w \in Taken(a) : w.f = "mkek" /\ w.at = s => Opens(w.v, cache.pin[s], cache.key))
                 => StaysOpen(cache, q, s)
  <2> SUFFICES ASSUME Living
               PROVE  /\ EndsOpen(cache, q, r, cache.key) /\ Ends(cache, q, "pin", r, [v |-> v, old |-> FALSE])
                      /\ Keyed(cache, <<>>) => Keyed(cache, q)
                      /\ \A s \in S!Refs \ {r} :
                            /\ Spares(q, "pin", s)
                            /\ StaysOpen(cache, <<>>, s) /\ Accepts(cache, ses, s)
                               /\ (\A w \in Taken(a) : w.f = "mkek" /\ w.at = s => Opens(w.v, cache.pin[s], cache.key))
                               => StaysOpen(cache, q, s)
    OBVIOUS
  <2>1. /\ \A w \in Taken(a) : w.f = "tries" \/ (w.f = "mkek" /\ w.at \in S!Refs /\ w.v.key = cache.key)
        /\ q = a \o S!StoreMkek(ses, cache.key) \o <<S!Put("pin", r, [v |-> v, old |-> FALSE], must)>>
        /\ ses \in [S!Refs -> MaySession] /\ ses[r] # None /\ ses[r].pin = v /\ ses[r].kdf = "new"
    BY <1>0
  <2> HIDE DEF q, ses
  <2> QED BY <1>0, <2>1, Rewritten
<1> HIDE DEF q, ses
<1>2. Initializing' /\ Target' = cache.key
  BY DEF Initializing, Target
<1>3. ASSUME hist'.mishaps = 0 PROVE Unharmed'
  <2>1. hist.mishaps = 0 /\ Living
    BY <1>3 DEF Living
  <2>2. \A s \in S!Refs : Open(cache, s) /\ Accepts(cache, ram.ses, s)
    BY <2>1, Resting
  <2>3. ASSUME NEW s \in S!Refs \ {r} PROVE StaysOpen(cache, q, s)
    <3>1. StaysOpen(cache, <<>>, s)
      BY <2>2 DEF StaysOpen, Open, Spares
    <3>2. Accepts(cache, ses, s)
      BY <2>2 DEF Accepts, ses
    <3> QED BY <1>1, <2>1, <3>1, <3>2
  <2>4. BothSurvive'
    BY <1>1, <1>2, <2>1, <2>3 DEF BothSurvive, Survives, q
  <2>5. SessionsFit'
    <3>1. ASSUME NEW s \in S!Refs, ses[s] # None PROVE Ends(cache, q, "pin", s, Accepted(ses[s]))
      <4>1. CASE s = r
        <5>1. Accepted(ses[r]) = [v |-> v, old |-> FALSE]
          BY DEF Accepted, ses
        <5> QED BY <1>1, <2>1, <4>1, <5>1
      <4>2. CASE s # r
        <5>1. Value(cache, "pin", s) = cache.pin[s] /\ cache.pin[s] = Accepted(ses[s])
          BY <2>2, <3>1, <4>2, SessionNumbers DEF Value, Accepts, ses
        <5> QED BY <1>1, <2>1, <4>2, <5>1 DEF Ends
      <4> QED BY <4>1, <4>2
    <3> QED BY <3>1 DEF SessionsFit, q, ses
  <2>6. OneStays(cache, q)
    <3>0. "user" \in S!Refs \ {r} \/ "so" \in S!Refs \ {r}
      BY DEF S!Refs
    <3>1. PICK s \in S!Refs \ {r} : TRUE
      BY <3>0
    <3> QED BY <1>1, <2>1, <2>3, <3>1, Resting DEF OneStays
  <2>7. "initialize" \in hist'.part \/ OneStays(flash', <<>>)
    BY <2>1, Resting
  <2> QED BY <2>4, <2>5, <2>6, <2>7 DEF Unharmed, q
<1>4. ASSUME hist'.mishaps # 0, "initialize" \notin hist'.torn PROVE Harmed'
  <2>1. Living
    BY <1>4 DEF Living
  <2> QED BY <1>1, <2>1, Resting DEF Harmed, Survives, q
<1> QED BY <1>2, <1>3, <1>4 DEF OpensInv

\* What goes on after a write
LEMMA RestKeeps ==
    ASSUME SessionTypes, Initializing, op.pc = "write"
    PROVE  /\ op.todo \in Seq(Writes) /\ op.todo # <<>> /\ S!Rest.todo = Tail(op.todo)
           /\ S!Rest.cmd = "initialize" <=> op.cmd = "initialize"
           /\ S!Rest.cmd = "initialize" <=> "initialized" \in {S!Rest.pc, S!Rest.then}
           /\ S!Rest.cmd = "initialize" => S!Rest.pc \in {"write", "initialized"} /\ S!Rest.key = op.key
<1>1. op \in Ops /\ op.todo \in Seq(Writes) /\ op.todo # <<>>
  BY DEF SessionTypes, Shaped, Ops
<1>2. Tail(op.todo) \in Seq(Writes) /\ (Len(op.todo) > 1 <=> Tail(op.todo) # <<>>)
  BY <1>1, RestOf
<1>3. CASE Len(op.todo) > 1
  <2>1. S!Rest = [op EXCEPT !.todo = Tail(op.todo)]
    BY <1>3 DEF S!Rest
  <2> QED BY <1>1, <2>1 DEF Ops, Initializing
<1>4. CASE ~(Len(op.todo) > 1) /\ op.then = "idle"
  <2>1. S!Rest = S!Idle
    BY <1>4 DEF S!Rest
  <2> QED BY <1>1, <1>2, <1>4, <2>1, SessionNumbers DEF S!Idle, Initializing
<1>5. CASE ~(Len(op.todo) > 1) /\ op.then # "idle"
  <2>1. S!Rest = [op EXCEPT !.todo = <<>>, !.pc = op.then]
    BY <1>5 DEF S!Rest
  <2> QED BY <1>1, <1>2, <1>5, <2>1 DEF Ops, Initializing
<1> QED BY <1>3, <1>4, <1>5

LEMMA OpensWrite == ASSUME SessionTypes, SessionTypes', OpensInv, S!Write PROVE OpensInv'
<1> DEFINE q == op.todo
<1>0. cache \in Files /\ Initializing /\ op.pc = "write" /\ cache' = S!Applied(cache, Head(q)) /\ UNCHANGED <<flash, ram, hist>>
  BY DEF SessionTypes, OpensInv, S!Write
<1>1. /\ q \in Seq(Writes) /\ q # <<>> /\ op'.todo = Tail(q) /\ (op'.cmd = "initialize" <=> op.cmd = "initialize")
      /\ op'.cmd = "initialize" => op'.key = op.key
  BY <1>0, RestKeeps DEF S!Write
<1>2. Initializing'
  BY <1>0, RestKeeps DEF Initializing, S!Write
<1>3. cache'.key = cache.key /\ Target' = Target
  <2>1. Head(q) \in Writes
    BY <1>1, RestOf
  <2> QED BY <1>0, <1>1, <2>1, AppliedWrite DEF Target
<1> HIDE DEF q
<1>4. q = op.todo
  BY DEF q
<1>5. ASSUME NEW r \in S!Refs, NEW key, Survives(cache, q, r, key) PROVE Survives(cache', op'.todo, r, key)
  BY <1>0, <1>1, <1>5, SurvivesWritten
<1>6. ASSUME NEW r \in S!Refs, StaysOpen(cache, q, r) PROVE StaysOpen(cache', op'.todo, r)
  BY <1>0, <1>1, <1>6, SurvivesWritten
<1>7. Keyed(cache, q) => Keyed(cache', op'.todo)
  BY <1>0, <1>1, KeyedWritten
<1>8. BothSurvive => BothSurvive'
  BY <1>3, <1>4, <1>5 DEF BothSurvive
<1>9. SessionsFit => SessionsFit'
  <2>1. ASSUME NEW r \in S!Refs, NEW x, Ends(cache, q, "pin", r, x) PROVE Ends(cache', op'.todo, "pin", r, x)
    <3>1. Place("pin", r)
      BY DEF Place
    <3> QED BY <1>0, <1>1, <2>1, <3>1, EndsWritten
  <2> QED BY <1>0, <1>4, <2>1 DEF SessionsFit
<1>10. OneStays(cache, q) => OneStays(cache', op'.todo)
  BY <1>6, <1>7 DEF OneStays
<1>11. hist'.mishaps = 0 => Unharmed'
  BY <1>0, <1>1, <1>4, <1>8, <1>9, <1>10 DEF OpensInv, Unharmed
<1>12. hist'.mishaps # 0 /\ "initialize" \notin hist'.torn => Harmed'
  BY <1>0, <1>1, <1>3, <1>4, <1>5, <1>7, <1>8 DEF OpensInv, Harmed
<1> QED BY <1>2, <1>11, <1>12 DEF OpensInv

\* The one mishap: a write fails, or the power is lost.
LEMMA OpensFault == ASSUME SessionTypes, SessionTypes', OpensInv, MaxMishaps \in {0, 1}, S!Fault PROVE OpensInv'
<1>0. cache \in Files /\ hist \in Histories /\ Initializing /\ op.pc = "write" /\ UNCHANGED <<cache, flash, ram>>
  BY DEF SessionTypes, OpensInv, S!Fault
<1>1. hist.mishaps = 0 /\ hist'.mishaps = 1 /\ (op.cmd = "initialize" => "initialize" \in hist'.torn)
  BY <1>0 DEF S!Fault, Histories, S!Torn
<1>2. /\ S!TakenBack.f = "dkek"
      /\ \/ op' = S!Idle \/ op' = S!Rest
         \/ op'.cmd = "import" /\ op'.pc = "write" /\ op'.then = "idle" /\ op'.todo = <<S!TakenBack>>
  BY FaultEnds
<1>3. Initializing'
  <2>1. CASE op' = S!Idle
    BY <2>1, SessionNumbers DEF S!Idle, Initializing
  <2>2. CASE op' = S!Rest
    BY <1>0, <2>2, RestKeeps DEF Initializing
  <2>3. CASE op'.cmd = "import" /\ op'.pc = "write" /\ op'.then = "idle"
    BY <2>3 DEF Initializing
  <2> QED BY <1>2, <2>1, <2>2, <2>3
<1>4. ASSUME op.cmd # "initialize" PROVE Harmed'
  <2>1. Keyed(cache, op.todo) /\ \E r \in S!Refs : StaysOpen(cache, op.todo, r)
    BY <1>1, <1>4 DEF OpensInv, Unharmed, OneStays
  <2>2. op.todo \in Seq(Writes) /\ op.todo # <<>>
    BY <1>0, RestKeeps
  <2>3. op'.todo = <<>> \/ op'.todo = Tail(op.todo) \/ op'.todo = <<S!TakenBack>>
    BY <1>0, <1>2, RestKeeps DEF S!Idle
  <2>4. op'.cmd # "initialize"
    BY <1>0, <1>2, <1>4, RestKeeps, SessionNumbers DEF S!Idle
  <2>5. Keyed(cache, op'.todo)
    <3>1. CASE op'.todo = <<S!TakenBack>>
      BY <1>2, <2>1, <3>1 DEF Keyed
    <3> QED BY <1>0, <2>1, <2>2, <2>3, <3>1, KeyedWritten
  <2>6. PICK r \in S!Refs : StaysOpen(cache, op.todo, r)
    BY <2>1
  <2>7. StaysOpen(cache, op'.todo, r)
    <3>1. CASE op'.todo = <<S!TakenBack>>
      BY <1>2, <2>6, <3>1 DEF StaysOpen, Spares, Touches
    <3> QED BY <1>0, <2>2, <2>3, <2>6, <3>1, SurvivesWritten
  <2> QED BY <1>0, <2>4, <2>5, <2>7 DEF Harmed, Survives
<1> QED BY <1>1, <1>3, <1>4 DEF OpensInv

LEMMA OpensLoss == ASSUME SessionTypes, SessionTypes', OpensInv, MaxMishaps \in {0, 1}, S!PowerLoss PROVE OpensInv'
<1>0. hist \in Histories /\ op' = S!Idle /\ cache' = flash
  BY DEF SessionTypes, S!PowerLoss
<1>1. hist.mishaps = 0 /\ hist'.mishaps = 1 /\ hist.part \subseteq hist'.torn
  BY <1>0 DEF S!PowerLoss, Histories
<1>2. Initializing' /\ op'.cmd # "initialize" /\ op'.todo = <<>>
  BY <1>0, SessionNumbers DEF S!Idle, Initializing
<1>3. ASSUME "initialize" \notin hist'.torn PROVE Harmed'
  <2>1. OneStays(flash, <<>>)
    BY <1>1, <1>3 DEF OpensInv, Unharmed
  <2> QED BY <1>0, <1>2, <2>1 DEF OneStays, Harmed, Survives
<1> QED BY <1>1, <1>2, <1>3 DEF OpensInv

LEMMA OpensDrain == ASSUME SessionTypes, SessionTypes', OpensInv, MaxMishaps \in {0, 1}, S!Drain PROVE OpensInv'
<1>0. /\ hist \in Histories /\ UNCHANGED <<cache, ram, op>> /\ flash' = cache /\ cache \in Files /\ Initializing
      /\ op \in Ops /\ Shaped(op)
  BY DEF SessionTypes, S!Drain, OpensInv
<1>1. hist.mishaps = 0 /\ hist'.mishaps = 0 /\ hist'.part = S!Torn
  BY <1>0 DEF S!Drain, Histories
<1>2. Unharmed
  BY <1>1 DEF OpensInv
<1>3. Initializing' /\ BothSurvive' /\ SessionsFit' /\ (op'.cmd # "initialize" => OneStays(cache', op'.todo))
  BY <1>0, <1>2 DEF Initializing, BothSurvive, SessionsFit, Unharmed, Target
<1>4. CASE op.cmd = "initialize"
  <2>1. "initialize" \in hist'.part
    BY <1>0, <1>1, <1>4 DEF S!Torn, Initializing
  <2> QED BY <1>1, <1>3, <2>1 DEF OpensInv, Unharmed
<1>5. CASE op.cmd # "initialize"
  <2>1. Keyed(cache, op.todo) /\ \E r \in S!Refs : StaysOpen(cache, op.todo, r)
    BY <1>2, <1>5 DEF Unharmed, OneStays
  <2>2. OneStays(cache, <<>>)
    BY <2>1 DEF OneStays, Keyed, StaysOpen, Spares
  <2> QED BY <1>0, <1>1, <1>3, <2>2 DEF OpensInv, Unharmed
<1> QED BY <1>4, <1>5

\* A list that leaves a domain without a share
Plain(q) == \A w \in Taken(q) : (w.f = "need" => w.v = Dkeks) /\ (w.f = "have" => w.v = 0)
LEMMA PlainLists == \A a \in Seq(Writes), b \in Seq(Writes) : Plain(a) /\ Plain(b) => Plain(a \o b)
BY JoinedLists DEF Plain

\* INITIALIZE
LEMMA InitializeTaken ==
    ASSUME NEW v \in Pins, NEW w \in Pins, NEW key \in Nat, NEW q, q = S!InitializeWrites(v, w, key)
    PROVE  /\ q \in Seq(Writes)
           /\ Sets(q, "pin", "user", [v |-> v, old |-> FALSE]) /\ Sets(q, "pin", "so", [v |-> w, old |-> FALSE])
           /\ Sets(q, "mkek", "user", S!Wrapped(v, "new", key)) /\ Sets(q, "mkek", "so", S!Wrapped(w, "new", key))
           /\ Sets(q, "need", None, Dkeks) /\ Sets(q, "have", None, 0) /\ Sets(q, "dkek", None, S!NoDkek)
           /\ Plain(q)
<1> DEFINE ses == [user |-> [pin |-> v, kdf |-> "new"], so |-> [pin |-> w, kdf |-> "new"]]
           P1 == S!Put("mkek", None, [r \in S!Refs |-> S!NoCopy], FALSE)
           P2 == S!Put("dkek", None, S!NoDkek, FALSE)
           P3 == S!Put("locked", None, FALSE, FALSE)
           P4 == S!Put("tries", None, [r \in S!Refs |-> MaxTries], FALSE)
           P5 == S!Put("pin", "user", [v |-> v, old |-> FALSE], FALSE)
           P6 == S!Put("pin", "so", [v |-> w, old |-> FALSE], FALSE)
           P7 == S!Put("need", None, Dkeks, TRUE)
           P8 == S!Put("have", None, 0, TRUE)
           M == S!StoreMkek(ses, key)
<1>0. "user" \in S!Refs /\ "so" \in S!Refs /\ None \notin S!Refs
  BY SessionNumbers DEF S!Refs
<1>1. /\ S!NoCopy \in Copies /\ S!NoDkek \in Domains /\ Dkeks \in Nat /\ 0 \in Nat /\ MaxTries \in Nat
      /\ [v |-> v, old |-> FALSE] \in [v : Pins, old : BOOLEAN]
      /\ [v |-> w, old |-> FALSE] \in [v : Pins, old : BOOLEAN]
  BY SessionNumbers DEF S!NoCopy, S!Wrapped, Copies, S!NoDkek, Domains
<1>2. P1 \in Writes /\ P2 \in Writes /\ P3 \in Writes /\ P4 \in Writes
  BY <1>1, PutTypes
<1>3. P5 \in Writes /\ P6 \in Writes /\ P7 \in Writes /\ P8 \in Writes
  BY <1>0, <1>1, PutTypes
<1>4. /\ P2.f = "dkek" /\ P3.f = "locked" /\ P4.f = "tries" /\ P5.f = "pin" /\ P6.f = "pin" /\ P7.f = "need" /\ P8.f = "have"
      /\ P2.at = None /\ P5.at = "user" /\ P6.at = "so" /\ P7.at = None /\ P8.at = None
      /\ P2.v = S!NoDkek /\ P5.v = [v |-> v, old |-> FALSE] /\ P6.v = [v |-> w, old |-> FALSE] /\ P7.v = Dkeks /\ P8.v = 0
  BY DEF S!Put
<1>5. ses \in [S!Refs -> MaySession] /\ ses["user"] # None /\ ses["so"] # None
  <2>1. ses["user"] \in S!Sessions /\ ses["so"] \in S!Sessions
    BY DEF S!Sessions
  <2>2. ses \in [S!Refs -> MaySession]
    BY <2>1 DEF S!Refs, MaySession
  <2> QED BY <2>1, <2>2, SessionNumbers
<1>6. M \in Seq(Writes)
  BY <1>5, StoreTypes
<1>7. \A x \in Taken(M) : x.f = "mkek"
  BY <1>5, StoreTaken
<1>8. Sets(M, "mkek", "user", S!Wrapped(v, "new", key)) /\ Sets(M, "mkek", "so", S!Wrapped(w, "new", key))
  <2>1. ses["user"].pin = v /\ ses["user"].kdf = "new" /\ ses["so"].pin = w /\ ses["so"].kdf = "new"
    OBVIOUS
  <2> HIDE DEF ses
  <2> QED BY <1>0, <1>5, <2>1, StoreTaken
<1>9. q = <<P1, P2, P3, P4, P5, P6>> \o M \o <<P7, P8>>
  BY DEF S!InitializeWrites
<1> HIDE DEF P1, P2, P3, P4, P5, P6, P7, P8, M, ses
<1> DEFINE A == <<P1, P2, P3, P4, P5, P6>>
           B == <<P7, P8>>
<1>10. A \in Seq(Writes) /\ B \in Seq(Writes)
  BY <1>2, <1>3
<1>11. /\ Len(A) = 6 /\ A[2] = P2 /\ A[3] = P3 /\ A[4] = P4 /\ A[5] = P5 /\ A[6] = P6
       /\ Len(B) = 2 /\ B[1] = P7 /\ B[2] = P8
  OBVIOUS
<1>12. q = A \o M \o B
  BY <1>9
<1> HIDE DEF A, B
<1>13. Sets(A, "pin", "user", P5.v)
  <2>1. 5 \in 1 .. Len(A) /\ \A j \in 5 + 1 .. Len(A) : j = 6
    BY <1>11
  <2>2. \A j \in 5 + 1 .. Len(A) : ~Touches(A[j], "pin", "user")
    BY <1>0, <1>4, <1>11, <2>1 DEF Touches
  <2> QED BY <1>4, <1>11, <2>1, <2>2 DEF Sets
<1>14. Sets(A, "pin", "so", P6.v)
  <2>1. 6 \in 1 .. Len(A) /\ 6 + 1 .. Len(A) = {}
    BY <1>11
  <2> QED BY <1>4, <1>11, <2>1 DEF Sets
<1>15. Sets(A, "dkek", None, P2.v)
  <2>1. 2 \in 1 .. Len(A) /\ \A j \in 2 + 1 .. Len(A) : j \in {3, 4, 5, 6}
    BY <1>11
  <2>2. \A j \in {3, 4, 5, 6} : ~Touches(A[j], "dkek", None)
    BY <1>4, <1>11 DEF Touches
  <2> QED BY <1>4, <1>11, <2>1, <2>2 DEF Sets
<1>16. Sets(B, "need", None, P7.v) /\ Sets(B, "have", None, P8.v)
  <2>1. 1 \in 1 .. Len(B) /\ 2 \in 1 .. Len(B) /\ (\A j \in 1 + 1 .. Len(B) : j = 2) /\ 2 + 1 .. Len(B) = {}
    BY <1>11
  <2>2. \A j \in 1 + 1 .. Len(B) : ~Touches(B[j], "need", None)
    BY <1>4, <1>11, <2>1 DEF Touches
  <2> QED BY <1>4, <1>11, <2>1, <2>2 DEF Sets
<1>17. \A f, r : f \in {"pin", "dkek", "need", "have"} => Spares(M, f, r)
  BY <1>7, SparesTaken DEF Touches
<1>18. \A f, r : f \in {"pin", "dkek", "mkek"} => Spares(B, f, r)
  <2>1. \A j \in 1 .. Len(B) : j \in {1, 2}
    BY <1>11
  <2> QED BY <1>4, <1>11, <2>1 DEF Spares, Touches
<1> DEFINE m == A \o M
<1>19. /\ m \in Seq(Writes)
       /\ \A f, r, x : Sets(M, f, r, x) \/ (Sets(A, f, r, x) /\ Spares(M, f, r)) => Sets(m, f, r, x)
  BY <1>6, <1>10, JoinedLists
<1>20. q = m \o B
  BY <1>12
<1> HIDE DEF m
<1>21. /\ q \in Seq(Writes)
       /\ \A f, r, x : Sets(B, f, r, x) \/ (Sets(m, f, r, x) /\ Spares(B, f, r)) => Sets(q, f, r, x)
  BY <1>10, <1>19, <1>20, JoinedLists
<1>22. Sets(q, "pin", "user", P5.v) /\ Sets(q, "pin", "so", P6.v) /\ Sets(q, "dkek", None, P2.v)
  BY <1>13, <1>14, <1>15, <1>17, <1>18, <1>19, <1>21
<1>13a. Sets(q, "mkek", "user", S!Wrapped(v, "new", key)) /\ Sets(q, "mkek", "so", S!Wrapped(w, "new", key))
  BY <1>8, <1>18, <1>19, <1>21
<1>24. Plain(q)
  <2>1. Plain(A)
    <3>1. (\A i \in 1 .. Len(A) : i \in 1 .. 6) /\ A[1] = P1 /\ P1.f = "mkek"
      BY <1>11 DEF A, P1, S!Put
    <3>2. \A i \in 1 .. 6 : A[i] \in {P1, P2, P3, P4, P5, P6}
      BY <1>11, <3>1
    <3> QED BY <1>4, <3>1, <3>2 DEF Plain, Taken
  <2>2. Plain(B)
    <3>1. \A i \in 1 .. Len(B) : B[i] \in {P7, P8}
      BY <1>11
    <3> QED BY <1>4, <3>1 DEF Plain, Taken
  <2>3. Plain(M)
    BY <1>7 DEF Plain
  <2>4. Plain(m)
    BY <1>6, <1>10, <2>1, <2>3, PlainLists DEF m
  <2> QED BY <1>10, <1>19, <1>20, <2>2, <2>4, PlainLists
<1> QED BY <1>4, <1>16, <1>21, <1>22, <1>13a, <1>24

\* The same when it begins and when it is over
LEMMA OpensInitialize ==
    ASSUME SessionTypes, SessionTypes', OpensInv, NEW v \in Pins, NEW w \in Pins, S!Initialize(v, w) PROVE OpensInv'
<1> DEFINE key == IF S!Loads(cache, ram) THEN S!LoadedKey(cache, ram) ELSE hist.keys + 1
           q == S!InitializeWrites(v, w, key)
           su == [pin |-> v, kdf |-> "new"]
           ss == [pin |-> w, kdf |-> "new"]
<1>0. /\ op = S!Idle /\ cache' = [cache EXCEPT !.given = {}] /\ UNCHANGED flash
      /\ op' = [S!Run("initialize", q, "initialized") EXCEPT !.key = key]
      /\ ram' = [ram EXCEPT !.ses = [user |-> su, so |-> ss], !.mask = FALSE]
  BY DEF S!Initialize
<1>1. /\ cache \in Files /\ hist \in Histories /\ hist'.mishaps = hist.mishaps /\ hist'.part = hist.part
      /\ "initialize" \in hist.torn => "initialize" \in hist'.torn
  <2> DEFINE torn == IF ram.pending THEN hist.torn \cup {"pending"} ELSE hist.torn
             keys == IF S!Loads(cache, ram) THEN hist.keys ELSE hist.keys + 1
  <2>1. hist' = [hist EXCEPT !.cmds = @ + 1, !.keys = keys, !.answered = {}, !.torn = torn]
    BY DEF S!Initialize
  <2>2. hist.torn \subseteq torn
    OBVIOUS
  <2> HIDE DEF torn, keys
  <2> QED BY <2>1, <2>2 DEF SessionTypes, Histories
<1>2. key \in Nat
  BY <1>1, LoadedTypes DEF Histories
<1>3. ram'.ses["user"] = su /\ ram'.ses["so"] = ss /\ S!Refs = {"user", "so"}
  BY <1>0 DEF SessionTypes, Ram, S!Refs
<1> HIDE DEF key
<1>4. /\ Sets(q, "pin", "user", [v |-> v, old |-> FALSE]) /\ Sets(q, "pin", "so", [v |-> w, old |-> FALSE])
      /\ Sets(q, "mkek", "user", S!Wrapped(v, "new", key)) /\ Sets(q, "mkek", "so", S!Wrapped(w, "new", key))
      /\ q \in Seq(Writes)
  BY <1>2, InitializeTaken
<1> HIDE DEF q
<1>5. op'.cmd = "initialize" /\ op'.key = key /\ op'.todo = q /\ op'.then = "initialized" /\ op'.pc \in {"write", "initialized"}
  BY <1>0 DEF S!Run, S!Idle
<1>6. EndsOpen(cache', q, "user", key) /\ EndsOpen(cache', q, "so", key)
  <2>1. /\ [v |-> v, old |-> FALSE] \in Verifiers /\ [v |-> w, old |-> FALSE] \in Verifiers
        /\ S!Wrapped(v, "new", key) \in Copies /\ S!Wrapped(w, "new", key) \in Copies
        /\ Opens(S!Wrapped(v, "new", key), [v |-> v, old |-> FALSE], key)
        /\ Opens(S!Wrapped(w, "new", key), [v |-> w, old |-> FALSE], key)
    BY <1>2 DEF Verifiers, S!Wrapped, Copies, Opens
  <2> QED BY <1>4, <2>1 DEF EndsOpen, Ends
<1>7. BothSurvive' /\ Initializing'
  BY <1>3, <1>5, <1>6 DEF BothSurvive, Survives, Target, Initializing
<1>8. SessionsFit'
  <2>1. Accepted(su) = [v |-> v, old |-> FALSE] /\ Accepted(ss) = [v |-> w, old |-> FALSE]
    BY DEF Accepted
  <2> HIDE DEF su, ss
  <2> QED BY <1>3, <1>4, <1>5, <2>1 DEF SessionsFit, Ends
<1>9. hist'.mishaps = 0 => Unharmed'
  BY <1>0, <1>1, <1>5, <1>7, <1>8 DEF OpensInv, Unharmed
<1> QED BY <1>1, <1>5, <1>7, <1>9 DEF OpensInv, Harmed

LEMMA OpensInitialized == ASSUME SessionTypes, SessionTypes', OpensInv, S!Initialized PROVE OpensInv'
<1>0. /\ op' = S!Idle /\ UNCHANGED <<flash, hist>> /\ op.pc = "initialized" /\ cache' = [cache EXCEPT !.key = op.key]
      /\ cache \in Files /\ op.todo = <<>>
  BY DEF S!Initialized, SessionTypes, Shaped
<1>1. ram'.ses = ram.ses /\ cache'.pin = cache.pin /\ cache'.mkek = cache.mkek /\ cache'.key = op.key
  BY <1>0 DEF S!Initialized, SessionTypes, Ram, Files
<1>2. Initializing' /\ op'.todo = <<>> /\ op'.cmd # "initialize" /\ Target' = cache'.key
  BY <1>0, SessionNumbers DEF S!Idle, Initializing, Target
<1>3. op.cmd = "initialize" /\ Target = op.key
  BY <1>0 DEF OpensInv, Initializing, Target
<1>4. ASSUME NEW r \in S!Refs, Survives(cache, <<>>, r, op.key) PROVE Opens(cache.mkek[r], cache.pin[r], op.key)
  <2>1. r # None /\ Value(cache, "pin", r) = cache.pin[r] /\ Value(cache, "mkek", r) = cache.mkek[r]
    BY SessionNumbers DEF Value
  <2> QED BY <1>4, <2>1, EndsNow DEF Survives, EndsOpen, StaysOpen
<1>5. ASSUME BothSurvive PROVE OneStays(cache', <<>>) /\ BothSurvive'
  <2>1. \A r \in S!Refs : Opens(cache'.mkek[r], cache'.pin[r], cache'.key)
    BY <1>0, <1>1, <1>3, <1>4, <1>5 DEF BothSurvive
  <2>2. Keyed(cache', <<>>)
    BY <2>1 DEF Keyed, Opens
  <2>3. \A r \in S!Refs : StaysOpen(cache', <<>>, r)
    BY <2>1 DEF StaysOpen, Spares
  <2>4. "user" \in S!Refs
    BY DEF S!Refs
  <2> QED BY <1>2, <2>2, <2>3, <2>4 DEF OneStays, BothSurvive, Survives
<1>6. SessionsFit => SessionsFit'
  <2>1. \A r \in S!Refs : Value(cache', "pin", r) = Value(cache, "pin", r)
    BY <1>1, SessionNumbers DEF Value
  <2> QED BY <1>0, <1>1, <1>2, <2>1 DEF SessionsFit, Ends
<1>7. hist'.mishaps = 0 => Unharmed'
  BY <1>0, <1>2, <1>5, <1>6 DEF OpensInv, Unharmed
<1>8. hist'.mishaps # 0 /\ "initialize" \notin hist'.torn => Harmed'
  <2> SUFFICES ASSUME hist'.mishaps # 0, "initialize" \notin hist'.torn PROVE Harmed'
    OBVIOUS
  <2>1. BothSurvive
    BY <1>0, <1>3 DEF OpensInv, Harmed
  <2> QED BY <1>2, <1>5, <2>1 DEF Harmed, OneStays, Survives
<1> QED BY <1>2, <1>7, <1>8 DEF OpensInv

\* A handler that rests between its lists
LEMMA Quiet ==
    ASSUME SessionTypes, OpensInv, op.pc \notin {"write", "initialized"}
    PROVE  op.todo = <<>> /\ op.cmd # "initialize" /\ op.pc # "initialized" /\ op.then # "initialized"
BY DEF SessionTypes, Shaped, OpensInv, Initializing

LEMMA QuietHistory ==
    ASSUME SessionTypes, S!Counted
    PROVE  hist'.mishaps = hist.mishaps /\ hist'.part = hist.part /\ hist'.torn = hist.torn /\ hist'.host = hist.host
BY DEF SessionTypes, Histories, S!Counted

LEMMA OpensCheckRight ==
    ASSUME SessionTypes, SessionTypes', OpensInv, op = S!Idle, NEW r \in S!Refs, NEW next, NEW new, S!CheckRight(r, next, new),
           hist'.mishaps = hist.mishaps, hist'.part = hist.part, hist'.torn = hist.torn
    PROVE  OpensInv'
<1>1. op.todo = <<>> /\ op.cmd # "initialize"
  BY SessionNumbers DEF S!Idle
<1>2. UNCHANGED <<cache, flash>> /\ ram' = S!Closed(ram)
  BY DEF S!CheckRight
<1>3. ram'.ses = [s \in S!Refs |-> None]
  BY <1>2, UpdatedTypes DEF SessionTypes
<1> DEFINE w == S!Put("tries", r, MaxTries, TRUE)
<1>4. w \in Writes /\ w.f = "tries"
  BY SessionNumbers, PutTypes DEF S!Put
<1>5. \/ op'.todo = <<>> /\ op'.cmd = None /\ op'.pc = "idle" /\ op'.then = "idle"
      \/ op'.todo = <<w>> /\ op'.cmd = "check" /\ op'.pc = "write" /\ op'.then = "checked"
  BY DEF S!CheckRight, S!Run, S!Idle
<1> HIDE DEF w
<1>6. \A x \in Taken(op'.todo) : x.f \notin {"pin", "mkek"}
  BY <1>4, <1>5, OneTaken, NoneTaken
<1>7. op'.cmd # "initialize" /\ op'.pc # "initialized" /\ op'.then # "initialized"
  BY <1>5, SessionNumbers
<1> QED BY <1>1, <1>2, <1>3, <1>6, <1>7, OpensAside

\* The PIN was right: a session, or first everything in the new format.
LEMMA OpensChecked == ASSUME SessionTypes, SessionTypes', OpensInv, S!Checked PROVE OpensInv'
<1> DEFINE r == op.ref
           v == cache.pin[r].v
           oldS == [pin |-> v, kdf |-> "old"]
           newS == [pin |-> v, kdf |-> "new"]
           oldSes == [ram EXCEPT !.ses[r] = oldS]
           newSes == [ram EXCEPT !.ses[r] = newS]
           key == S!LoadedKey(cache, oldSes)
           a == IF cache.mkek[r].legacy THEN S!StoreMkek(oldSes.ses, key) ELSE <<>>
           todo == a \o S!StoreMkek(newSes.ses, key) \o <<S!Put("pin", r, [v |-> v, old |-> FALSE], TRUE)>>
<1>0. /\ op.pc = "checked" /\ UNCHANGED <<cache, flash, hist>>
      /\ \/ ~cache.pin[r].old /\ ram' = newSes /\ op' = [op EXCEPT !.pc = "granted"]
         \/ cache.pin[r].old /\ ram' = oldSes /\ op' = S!Idle
         \/ /\ ram' = newSes
            /\ op' = [op EXCEPT !.pc = "write", !.cmd = "upgrade", !.then = "granted", !.todo = todo]
  BY DEF S!Checked
<1>1. op.todo = <<>> /\ op.cmd # "initialize" /\ op.then # "initialized" /\ op.pc # "initialized"
  BY <1>0, Quiet
<1>2. /\ r \in S!Refs /\ cache.pin[r] \in [v : Pins, old : BOOLEAN] /\ v \in Pins
      /\ cache \in Files /\ ram \in Ram /\ op \in Ops
  BY DEF SessionTypes, Ops, Files
<1>3. /\ oldSes.ses = [ram.ses EXCEPT ![r] = oldS] /\ newSes.ses = [ram.ses EXCEPT ![r] = newS]
      /\ oldSes.ses[r] = oldS /\ newSes.ses[r] = newS
      /\ \A s \in S!Refs \ {r} : oldSes.ses[s] = ram.ses[s] /\ newSes.ses[s] = ram.ses[s]
  BY <1>2 DEF Ram
<1>4. oldS \in S!Sessions /\ newS \in S!Sessions /\ oldS # None /\ newS # None
  BY <1>2, SessionNumbers DEF S!Sessions
<1>5. oldSes.ses \in [S!Refs -> MaySession] /\ key \in Nat
  BY <1>2, <1>3, <1>4, LoadedTypes DEF Ram, MaySession
<1>6. Accepted(oldS) = [v |-> v, old |-> TRUE] /\ Accepted(newS) = [v |-> v, old |-> FALSE]
  BY DEF Accepted
<1>7. Living => key = cache.key
  BY <1>1, LoadedTypes, Resting, <1>2 DEF Keyed, S!LoadedKey
<1>8. newS.pin = v /\ newS.kdf = "new"
  OBVIOUS
<1> HIDE DEF oldS, newS, oldSes, newSes, key, r, v
<1>9. /\ a \in Seq(Writes)
      /\ \A w \in Taken(a) : \E s \in S!Refs :
            oldSes.ses[s] # None /\ w.f = "mkek" /\ w.at = s /\ w.v = S!Wrapped(oldSes.ses[s].pin, oldSes.ses[s].kdf, key)
  <2>1. CASE cache.mkek[r].legacy
    BY <1>5, <2>1, StoreTypes, StoreTaken
  <2>2. CASE ~cache.mkek[r].legacy
    BY <2>2, NoneTaken
  <2> QED BY <2>1, <2>2
<1> HIDE DEF a
<1>10. CASE ~cache.pin[r].old /\ ram' = newSes /\ op' = [op EXCEPT !.pc = "granted"]
  <2>1. Accepts(cache, ram'.ses, r)
    <3>1. cache.pin[r] = [v |-> cache.pin[r].v, old |-> FALSE]
      BY <1>2, <1>10
    <3> QED BY <1>3, <1>6, <1>10, <3>1 DEF Accepts, v
  <2>2. \A s \in S!Refs : ram'.ses[s] \in {None, ram.ses[s]} \/ Accepts(cache, ram'.ses, s)
    BY <1>3, <1>10, <2>1
  <2>3. op'.todo = <<>> /\ op'.cmd # "initialize" /\ op'.pc # "initialized" /\ op'.then # "initialized"
    BY <1>1, <1>2, <1>10 DEF Ops
  <2>4. \A x \in Taken(op'.todo) : x.f \notin {"pin", "mkek"}
    BY <2>3, NoneTaken
  <2> QED BY <1>0, <1>1, <2>2, <2>3, <2>4, OpensAside
<1>11. CASE cache.pin[r].old /\ ram' = oldSes /\ op' = S!Idle
  <2>1. Accepts(cache, ram'.ses, r)
    <3>1. cache.pin[r] = [v |-> cache.pin[r].v, old |-> TRUE]
      BY <1>2, <1>11
    <3> QED BY <1>3, <1>6, <1>11, <3>1 DEF Accepts, v
  <2>2. \A s \in S!Refs : ram'.ses[s] \in {None, ram.ses[s]} \/ Accepts(cache, ram'.ses, s)
    BY <1>3, <1>11, <2>1
  <2>3. op'.todo = <<>> /\ op'.cmd # "initialize" /\ op'.pc # "initialized" /\ op'.then # "initialized"
    BY <1>11, SessionNumbers DEF S!Idle
  <2>4. \A x \in Taken(op'.todo) : x.f \notin {"pin", "mkek"}
    BY <2>3, NoneTaken
  <2> QED BY <1>0, <1>1, <2>2, <2>3, <2>4, OpensAside
<1>12. CASE ram' = newSes /\ op' = [op EXCEPT !.pc = "write", !.cmd = "upgrade", !.then = "granted", !.todo = todo]
  <2>1. op'.todo = todo /\ op'.cmd = "upgrade" /\ op'.pc = "write" /\ op'.then = "granted"
    <3> HIDE DEF todo
    <3> QED BY <1>2, <1>12 DEF Ops
  <2>2. /\ ram'.ses[r] # None /\ ram'.ses[r].pin = v /\ ram'.ses[r].kdf = "new"
        /\ \A s \in S!Refs \ {r} : ram'.ses[s] = ram.ses[s]
    BY <1>3, <1>4, <1>8, <1>12
  <2>3. ASSUME NEW w \in Taken(a) PROVE w.f = "mkek" /\ w.at \in S!Refs /\ w.v.key = key
    <3>1. PICK s \in S!Refs : w.f = "mkek" /\ w.at = s /\ w.v = S!Wrapped(oldSes.ses[s].pin, oldSes.ses[s].kdf, key)
      BY <1>9, <2>3
    <3> QED BY <3>1 DEF S!Wrapped
  <2>4. ASSUME hist.mishaps = 0, NEW s \in S!Refs \ {r}, NEW w \in Taken(a), w.at = s
        PROVE  Opens(w.v, cache.pin[s], key)
    <3>1. ram.ses[s] # None /\ w.v = S!Wrapped(ram.ses[s].pin, ram.ses[s].kdf, key)
      BY <1>3, <1>9, <2>4
    <3>2. cache.pin[s] = Accepted(ram.ses[s])
      BY <1>1, <2>4, <3>1, Resting DEF Accepts
    <3>3. cache.pin[s].v = ram.ses[s].pin /\ cache.pin[s].old = (ram.ses[s].kdf = "old")
      BY <3>2 DEF Accepted
    <3>4. w.v.key = key /\ ~w.v.masked /\ w.v.pin = ram.ses[s].pin /\ w.v.kdf = ram.ses[s].kdf
      BY <3>1 DEF S!Wrapped
    <3> QED BY <3>3, <3>4 DEF Opens
  <2>5. op'.todo = a \o S!StoreMkek(ram'.ses, key) \o <<S!Put("pin", r, [v |-> v, old |-> FALSE], TRUE)>>
    BY <1>12, <2>1
  <2>6. op'.cmd # "initialize" /\ op'.pc # "initialized" /\ op'.then # "initialized"
    BY <2>1
  <2>7. /\ \A w \in Taken(a) : w.f = "tries" \/ (w.f = "mkek" /\ w.at \in S!Refs /\ w.v.key = key)
        /\ hist.mishaps = 0 => \A s \in S!Refs \ {r} : \A w \in Taken(a) : w.f = "mkek" /\ w.at = s => Opens(w.v, cache.pin[s], key)
    BY <2>3, <2>4
  <2>8. r \in S!Refs /\ v \in Pins /\ a \in Seq(Writes) /\ (Living => key = cache.key) /\ UNCHANGED <<cache, flash, hist>>
    BY <1>0, <1>2, <1>7, <1>9
  <2> HIDE DEF todo
  <2>9. Rewrites(r, v, key, a, TRUE)
    BY <2>2, <2>5, <2>6, <2>7, <2>8 DEF Rewrites
  <2> QED BY <1>0, <1>1, <2>9, OpensRewrite
<1> QED BY <1>0, <1>10, <1>11, <1>12

\* A change of the PIN, and an unblocking with a new one
LEMMA OpensChange == ASSUME SessionTypes, SessionTypes', OpensInv, S!Change PROVE OpensInv'
<1> DEFINE r == op.ref
           s0 == [pin |-> op.new, kdf |-> "new"]
           ses == [ram.ses EXCEPT ![r] = s0]
           key == S!LoadedKey(cache, ram)
           todo == S!Rewrap(ses, r, op.new, key)
<1>0. /\ op.pc = "change" /\ UNCHANGED <<cache, flash, hist>>
      /\ \/ op' = S!Idle /\ UNCHANGED ram
         \/ ram' = [ram EXCEPT !.ses = ses] /\ op' = S!Run("change", todo, "idle")
  BY DEF S!Change
<1>1. op.todo = <<>> /\ op.cmd # "initialize" /\ op.then # "initialized" /\ op.pc # "initialized"
  BY <1>0, Quiet
<1>2. r \in S!Refs /\ op.new \in Pins /\ cache \in Files /\ ram \in Ram
  BY <1>0 DEF SessionTypes, Ops, Shaped
<1>3. s0 # None /\ s0.pin = op.new /\ s0.kdf = "new" /\ s0 \in MaySession
  BY <1>2, SessionNumbers DEF S!Sessions, MaySession
<1>4. Living => key = cache.key
  BY <1>1, <1>2, LoadedTypes, Resting DEF Keyed, S!LoadedKey
<1>5. key \in Nat
  BY <1>2, LoadedTypes
<1> HIDE DEF key, s0, r
<1>6. ses \in [S!Refs -> MaySession] /\ ses[r] = s0 /\ \A s \in S!Refs \ {r} : ses[s] = ram.ses[s]
  BY <1>2, <1>3 DEF Ram
<1>7. CASE op' = S!Idle /\ UNCHANGED ram
  <2>1. op'.todo = <<>> /\ op'.cmd # "initialize" /\ op'.pc # "initialized" /\ op'.then # "initialized"
    BY <1>7, SessionNumbers DEF S!Idle
  <2>2. \A x \in Taken(op'.todo) : x.f \notin {"pin", "mkek"}
    BY <2>1, NoneTaken
  <2> QED BY <1>0, <1>1, <1>7, <2>1, <2>2, OpensAside
<1>8. CASE ram' = [ram EXCEPT !.ses = ses] /\ op' = S!Run("change", todo, "idle")
  <2>1. ram'.ses = ses
    BY <1>2, <1>8 DEF Ram
  <2>2. op'.todo = todo /\ op'.cmd # "initialize" /\ op'.pc # "initialized" /\ op'.then # "initialized"
    <3> HIDE DEF todo
    <3> QED BY <1>8 DEF S!Run, S!Idle
  <2>3. todo = <<>> \o S!StoreMkek(ses, key) \o <<S!Put("pin", r, [v |-> op.new, old |-> FALSE], FALSE)>>
    <3>1. S!StoreMkek(ses, key) \in Seq(Writes)
      BY <1>5, <1>6, StoreTypes
    <3>2. <<>> \o S!StoreMkek(ses, key) = S!StoreMkek(ses, key)
      BY <3>1, ConcatEmptySeq
    <3> QED BY <3>2 DEF S!Rewrap
  <2> HIDE DEF ses, todo
  <2>4. Rewrites(r, op.new, key, <<>>, FALSE)
    BY <1>2, <1>3, <1>4, <1>6, <2>1, <2>2, <2>3, NoneTaken DEF Rewrites
  <2> QED BY <1>0, <1>1, <2>4, OpensRewrite
<1> QED BY <1>0, <1>7, <1>8

LEMMA OpensUnblock == ASSUME SessionTypes, SessionTypes', OpensInv, S!Unblock PROVE OpensInv'
<1> DEFINE w == S!Put("tries", "user", MaxTries, TRUE)
           s0 == [pin |-> op.new, kdf |-> "new"]
           ses == [ram.ses EXCEPT !["user"] = s0]
           key == S!LoadedKey(cache, ram)
           todo == <<w>> \o S!Rewrap(ses, "user", op.new, key)
<1>0. /\ op.pc = "unblock" /\ UNCHANGED <<cache, flash, hist>>
      /\ \/ op' = S!Run("unblock", <<w>>, "idle") /\ UNCHANGED ram
         \/ op.new # None /\ ram' = [ram EXCEPT !.ses = ses] /\ op' = S!Run("unblock", todo, "idle")
  BY DEF S!Unblock
<1>1. op.todo = <<>> /\ op.cmd # "initialize" /\ op.then # "initialized" /\ op.pc # "initialized"
  BY <1>0, Quiet
<1>2. "user" \in S!Refs /\ cache \in Files /\ ram \in Ram /\ op.new \in Pins \cup {None}
  BY <1>0 DEF SessionTypes, Ops, Shaped, S!Refs
<1>3. w \in Writes /\ w.f = "tries"
  BY <1>2, SessionNumbers, PutTypes DEF S!Put
<1>4. Living => key = cache.key
  BY <1>1, <1>2, LoadedTypes, Resting DEF Keyed, S!LoadedKey
<1>5. key \in Nat
  BY <1>2, LoadedTypes
<1>6. CASE op' = S!Run("unblock", <<w>>, "idle") /\ UNCHANGED ram
  <2> HIDE DEF w
  <2>1. op'.todo = <<w>> /\ op'.cmd # "initialize" /\ op'.pc # "initialized" /\ op'.then # "initialized"
    BY <1>6 DEF S!Run, S!Idle
  <2>2. \A x \in Taken(op'.todo) : x.f \notin {"pin", "mkek"}
    BY <1>3, <2>1, OneTaken
  <2> QED BY <1>0, <1>1, <1>6, <2>1, <2>2, OpensAside
<1>7. CASE op.new # None /\ ram' = [ram EXCEPT !.ses = ses] /\ op' = S!Run("unblock", todo, "idle")
  <2>1. s0 # None /\ s0.pin = op.new /\ s0.kdf = "new" /\ s0 \in MaySession /\ op.new \in Pins
    BY <1>2, <1>7, SessionNumbers DEF S!Sessions, MaySession
  <2> HIDE DEF s0, key, w
  <2>2. ses \in [S!Refs -> MaySession] /\ ses["user"] = s0 /\ \A s \in S!Refs \ {"user"} : ses[s] = ram.ses[s]
    BY <1>2, <2>1 DEF Ram
  <2>3. ram'.ses = ses
    BY <1>2, <1>7 DEF Ram
  <2>4. op'.todo = todo /\ op'.cmd # "initialize" /\ op'.pc # "initialized" /\ op'.then # "initialized"
    <3> HIDE DEF todo
    <3> QED BY <1>7 DEF S!Run, S!Idle
  <2>5. todo = <<w>> \o S!StoreMkek(ses, key) \o <<S!Put("pin", "user", [v |-> op.new, old |-> FALSE], FALSE)>>
    <3> DEFINE b == S!StoreMkek(ses, key)
               p == S!Put("pin", "user", [v |-> op.new, old |-> FALSE], FALSE)
    <3>1. b \in Seq(Writes)
      BY <1>5, <2>2, StoreTypes
    <3>2. p \in Writes
      <4>1. [v |-> op.new, old |-> FALSE] \in [v : Pins, old : BOOLEAN]
        BY <2>1
      <4> QED BY <1>2, <4>1, PutTypes
    <3>3. todo = <<w>> \o (b \o <<p>>)
      BY DEF S!Rewrap
    <3> HIDE DEF b, p
    <3>4. <<w>> \in Seq(Writes) /\ <<p>> \in Seq(Writes)
      BY <1>3, <3>2, OneTaken
    <3>5. <<w>> \o (b \o <<p>>) = (<<w>> \o b) \o <<p>>
      BY <3>1, <3>4, ConcatAssociative
    <3> QED BY <3>3, <3>5 DEF b, p
  <2> HIDE DEF ses, todo
  <2>6. <<w>> \in Seq(Writes) /\ \A x \in Taken(<<w>>) : x.f = "tries"
    BY <1>3, OneTaken
  <2>7. Rewrites("user", op.new, key, <<w>>, FALSE)
    BY <1>2, <1>4, <2>1, <2>2, <2>3, <2>4, <2>5, <2>6 DEF Rewrites
  <2> QED BY <1>0, <1>1, <2>7, OpensRewrite
<1> QED BY <1>0, <1>6, <1>7

\* Access granted: at most the domain's key is saved.
LEMMA OpensGranted == ASSUME SessionTypes, SessionTypes', OpensInv, S!Granted PROVE OpensInv'
<1> DEFINE w == S!Put("dkek", None, S!SavedDkek(cache.dkek), FALSE)
           m == [ram EXCEPT !.user = ram.user \/ ~cache.pka]
<1>0. /\ op.pc = "granted" /\ UNCHANGED <<cache, flash, hist>> /\ ram' = [S!Updated(m) EXCEPT !.pending = FALSE]
      /\ \/ op' = [op EXCEPT !.pc = "write", !.cmd = "pending", !.then = op.next, !.todo = <<w>>]
         \/ op' = S!Idle \/ op' = [op EXCEPT !.pc = op.next]
  BY DEF S!Granted
<1>1. op.todo = <<>> /\ op.cmd # "initialize" /\ op.then # "initialized" /\ op.pc # "initialized"
  BY <1>0, Quiet
<1>2. cache \in Files /\ ram \in Ram /\ op \in Ops /\ op.next \in {"idle", "change", "unblock"}
  BY DEF SessionTypes, Ops
<1>3. w \in Writes /\ w.f = "dkek"
  <2>1. S!SavedDkek(cache.dkek) \in Domains
    BY <1>2 DEF Files, Domains, S!SavedDkek
  <2> QED BY <2>1, PutTypes DEF S!Put
<1>4. m \in Ram /\ m.ses = ram.ses
  <2>1. (ram.user \/ ~cache.pka) \in BOOLEAN
    BY <1>2 DEF Ram, Files
  <2> QED BY <1>2, <2>1 DEF Ram
<1> HIDE DEF w, m
<1>5. ram'.ses = ram.ses
  <2>1. S!Updated(m) \in Ram /\ S!Updated(m).ses = m.ses
    BY <1>4, UpdatedTypes
  <2> QED BY <1>0, <1>4, <2>1 DEF Ram
<1>6. /\ op'.cmd # "initialize" /\ op'.pc # "initialized" /\ op'.then # "initialized"
      /\ op'.todo = <<w>> \/ op'.todo = <<>>
  <2> DEFINE q == <<w>>
  <2>1. CASE op' = [op EXCEPT !.pc = "write", !.cmd = "pending", !.then = op.next, !.todo = q]
    <3> HIDE DEF q
    <3>1. op'.todo = q /\ op'.cmd = "pending" /\ op'.pc = "write" /\ op'.then = op.next
      BY <1>2, <2>1 DEF Ops
    <3> QED BY <1>2, <3>1 DEF q
  <2>2. CASE op' = S!Idle
    BY <2>2, SessionNumbers DEF S!Idle
  <2>3. CASE op' = [op EXCEPT !.pc = op.next]
    BY <1>1, <1>2, <2>3 DEF Ops
  <2> QED BY <1>0, <2>1, <2>2, <2>3
<1>7. \A x \in Taken(op'.todo) : x.f \notin {"pin", "mkek"}
  BY <1>3, <1>6, OneTaken, NoneTaken
<1> QED BY <1>0, <1>1, <1>5, <1>6, <1>7, OpensAside

\* The writes of a share that is imported: it is taken back, or wrapped with the others, or counted.
Login == \E r \in S!Refs : ram.ses[r] # None
PutKey(d) == S!Put("dkek", None, d, FALSE)
PutCount == S!Put("have", None, cache.have + 1, TRUE)
LEMMA ImportShape ==
    ASSUME SessionTypes, NEW s \in Shares, S!ImportShare(s), NEW d, d = S!Imported(cache.dkek, s)
    PROVE  /\ op = S!Idle /\ hist.host = "domain" /\ S!Counted /\ UNCHANGED <<cache, flash>> /\ cache.have # cache.need
           /\ ram'.ses = ram.ses /\ ram'.mask = ram.mask
           /\ op'.pc = "write" /\ op'.cmd = "import" /\ op'.next = "idle"
           /\ \/ /\ S!IsLast(cache) /\ Login /\ ~S!Loads(cache, ram) /\ ram'.pending = ram.pending
                 /\ op'.todo = <<PutKey(d), PutKey(S!Imported(d, s))>> /\ op'.then = "idle"
              \/ /\ S!IsLast(cache) /\ Login /\ S!Loads(cache, ram) /\ ram'.pending = ram.pending
                 /\ op'.todo = <<PutKey(d), PutKey(S!SavedDkek(d)), PutCount>> /\ op'.then = "kcv" /\ op'.share = {s}
              \/ /\ ~(S!IsLast(cache) /\ Login) /\ ram'.pending = (ram.pending \/ (S!IsLast(cache) /\ ~Login))
                 /\ op'.todo = <<PutKey(d), PutCount>> /\ op'.then = "kcv" /\ op'.share = {s}
<1> DEFINE P == PutKey(d)
           Q == PutKey(S!Imported(d, s))
           R == PutKey(S!SavedDkek(d))
           N == PutCount
           B == IF S!IsLast(cache) /\ Login THEN <<R>> ELSE <<>>
           todo == <<P>> \o B \o <<N>>
           back == <<P, Q>>
<1>1. /\ op = S!Idle /\ hist.host = "domain" /\ S!Counted /\ UNCHANGED <<cache, flash>> /\ cache.have # cache.need
      /\ IF S!IsLast(cache) /\ Login /\ ~S!Loads(cache, ram)
           THEN op' = S!Run("import", back, "idle") /\ UNCHANGED ram
           ELSE /\ op' = [S!Run("import", todo, "kcv") EXCEPT !.share = {s}]
                /\ ram' = [ram EXCEPT !.pending = @ \/ (S!IsLast(cache) /\ ~Login)]
  BY DEF S!ImportShare, S!DomainHost, PutKey, PutCount, Login
<1> HIDE DEF P, Q, R, N
<1>2. ram \in Ram /\ back # <<>>
  BY DEF SessionTypes
<1>3. /\ S!IsLast(cache) /\ Login => todo = <<P, R, N>>
      /\ ~(S!IsLast(cache) /\ Login) => todo = <<P, N>>
  <2>1. <<P>> \o <<R>> \o <<N>> = <<P, R, N>> /\ <<P>> \o <<>> \o <<N>> = <<P, N>>
    BY Tuples
  <2>2. B = IF S!IsLast(cache) /\ Login THEN <<R>> ELSE <<>>
    OBVIOUS
  <2> HIDE DEF B
  <2>3. CASE S!IsLast(cache) /\ Login
    <3>1. B = <<R>>
      BY <2>2, <2>3
    <3> QED BY <2>1, <2>3, <3>1
  <2>4. CASE ~(S!IsLast(cache) /\ Login)
    <3>1. B = <<>>
      BY <2>2, <2>4
    <3> QED BY <2>1, <2>4, <3>1
  <2> QED BY <2>3, <2>4
<1>4. todo # <<>>
  BY <1>3
<1>5. CASE S!IsLast(cache) /\ Login /\ ~S!Loads(cache, ram)
  <2> HIDE DEF back
  <2>1. op'.todo = back /\ op'.pc = "write" /\ op'.cmd = "import" /\ op'.then = "idle" /\ op'.next = "idle" /\ UNCHANGED ram
    BY <1>1, <1>2, <1>5 DEF S!Run, S!Idle
  <2> QED BY <1>1, <1>5, <2>1 DEF back, P, Q
<1>6. CASE ~(S!IsLast(cache) /\ Login /\ ~S!Loads(cache, ram))
  <2> HIDE DEF todo
  <2>1. /\ op'.todo = todo /\ op'.pc = "write" /\ op'.cmd = "import" /\ op'.then = "kcv" /\ op'.next = "idle" /\ op'.share = {s}
        /\ ram' = [ram EXCEPT !.pending = @ \/ (S!IsLast(cache) /\ ~Login)]
    BY <1>1, <1>4, <1>6 DEF S!Run, S!Idle
  <2>2. (ram.pending \/ (S!IsLast(cache) /\ ~Login)) \in BOOLEAN /\ ram.pending \in BOOLEAN
    BY <1>2 DEF Ram
  <2>3. ram'.ses = ram.ses /\ ram'.mask = ram.mask /\ ram'.pending = (ram.pending \/ (S!IsLast(cache) /\ ~Login))
    BY <1>2, <2>1, <2>2 DEF Ram
  <2>4. CASE S!IsLast(cache) /\ Login
    <3>1. ram'.pending = ram.pending
      BY <2>2, <2>3, <2>4
    <3>2. op'.todo = <<P, R, N>>
      BY <1>3, <2>1, <2>4
    <3> QED BY <1>1, <1>6, <2>1, <2>3, <2>4, <3>1, <3>2 DEF P, R, N
  <2>5. CASE ~(S!IsLast(cache) /\ Login)
    <3>1. op'.todo = <<P, N>>
      BY <1>3, <2>1, <2>5
    <3> QED BY <1>1, <2>1, <2>3, <2>5, <3>1 DEF P, N
  <2> QED BY <2>4, <2>5
<1> QED BY <1>5, <1>6

\* The key check value at the end of KEY DOMAIN
LEMMA KcvShape ==
    /\ S!Kcv.cmd # "initialize" /\ S!Kcv.pc \in {"idle", "write"} /\ S!Kcv.then = "idle"
    /\ \A x \in Taken(S!Kcv.todo) : x.f = "dkek"
    /\ ~S!KcvGarbles(cache) => S!Kcv = S!Idle
<1> DEFINE w == S!Put("dkek", None, [kind |-> "wrapped", xor |-> {}, ok |-> FALSE], FALSE)
<1>1. w \in Writes /\ w.f = "dkek"
  <2>1. [kind |-> "wrapped", xor |-> {}, ok |-> FALSE] \in Domains
    BY DEF Domains
  <2> QED BY <2>1, PutTypes DEF S!Put
<1>2. \/ S!Kcv.todo = <<>> /\ S!Kcv.cmd = None /\ S!Kcv.pc = "idle" /\ S!Kcv.then = "idle"
      \/ S!Kcv.todo = <<w>> /\ S!Kcv.cmd = "import" /\ S!Kcv.pc = "write" /\ S!Kcv.then = "idle"
  BY DEF S!Kcv, S!Run, S!Idle
<1> HIDE DEF w
<1>3. \A x \in Taken(S!Kcv.todo) : x.f = "dkek"
  BY <1>1, <1>2, OneTaken, NoneTaken
<1> QED BY <1>2, <1>3, SessionNumbers DEF S!Kcv

\* Nothing else touches verifiers or copies.
LEMMA OpensKcv ==
    ASSUME SessionTypes, SessionTypes', OpensInv, S!DomainKcv \/ S!DomainQuery PROVE OpensInv'
<1>1. op.pc \notin {"write", "initialized"}
  BY DEF S!DomainKcv, S!DomainQuery, S!DomainHost, S!Idle
<1>2. op.todo = <<>> /\ op.cmd # "initialize" /\ op.then # "initialized" /\ op.pc # "initialized"
  BY <1>1, Quiet
<1>3. /\ UNCHANGED <<flash, ram, hist>> /\ cache'.pin = cache.pin /\ cache'.mkek = cache.mkek /\ cache'.key = cache.key
      /\ op' = S!Kcv
  BY DEF S!DomainKcv, S!DomainQuery, SessionTypes, Files
<1>4. op'.cmd # "initialize" /\ op'.pc # "initialized" /\ op'.then # "initialized" /\ \A x \in Taken(op'.todo) : x.f \notin {"pin", "mkek"}
  BY <1>3, KcvShape
<1> QED BY <1>2, <1>3, <1>4, OpensAside

LEMMA OpensImport ==
    ASSUME SessionTypes, SessionTypes', OpensInv, NEW s \in Shares, S!ImportShare(s) PROVE OpensInv'
<1> DEFINE d == S!Imported(cache.dkek, s)
           P == PutKey(d)
           Q == PutKey(S!Imported(d, s))
           R == PutKey(S!SavedDkek(d))
           N == PutCount
<1>1. /\ op = S!Idle /\ S!Counted /\ UNCHANGED <<cache, flash>> /\ ram'.ses = ram.ses
      /\ op'.pc = "write" /\ op'.cmd = "import" /\ op'.then \in {"idle", "kcv"}
      /\ op'.todo = <<P, Q>> \/ op'.todo = <<P, R, N>> \/ op'.todo = <<P, N>>
  BY ImportShape
<1>2. P.f = "dkek" /\ Q.f = "dkek" /\ R.f = "dkek" /\ N.f = "have"
  BY DEF S!Put, PutKey, PutCount
<1> HIDE DEF P, Q, R, N
<1>3. \A i \in 1 .. Len(op'.todo) : op'.todo[i] \in {P, Q, R, N}
  <2>1. CASE op'.todo = <<P, Q>>
    BY <2>1
  <2>2. CASE op'.todo = <<P, R, N>>
    BY <2>2
  <2>3. CASE op'.todo = <<P, N>>
    BY <2>3
  <2> QED BY <1>1, <2>1, <2>2, <2>3
<1>4. \A x \in Taken(op'.todo) : x.f \notin {"pin", "mkek"}
  BY <1>2, <1>3 DEF Taken
<1>5. op.todo = <<>> /\ op.cmd # "initialize"
  BY <1>1, SessionNumbers DEF S!Idle
<1>6. op'.cmd # "initialize" /\ op'.pc # "initialized" /\ op'.then # "initialized"
  BY <1>1
<1> QED BY <1>1, <1>4, <1>5, <1>6, QuietHistory, OpensAside

\* A command that writes files of another kind
LEMMA OpensCommand ==
    ASSUME SessionTypes, SessionTypes', OpensInv, op = S!Idle, S!Counted, UNCHANGED flash,
           cache'.pin = cache.pin, cache'.mkek = cache.mkek, cache'.key = cache.key,
           \A r \in S!Refs : ram'.ses[r] \in {None, ram.ses[r]},
           NEW name, name # "initialize", NEW q, op' = S!Run(name, q, "idle"),
           \A i \in 1 .. Len(q) : q[i].f \notin {"pin", "mkek"}
    PROVE  OpensInv'
<1>1. op.todo = <<>> /\ op.cmd # "initialize"
  BY SessionNumbers DEF S!Idle
<1>2. op'.cmd # "initialize" /\ op'.pc # "initialized" /\ op'.then # "initialized" /\ op'.todo = q
  BY DEF S!Run, S!Idle
<1>3. \A x \in Taken(op'.todo) : x.f \notin {"pin", "mkek"}
  BY <1>2 DEF Taken
<1> QED BY <1>1, <1>2, <1>3, QuietHistory, OpensAside

LEMMA OpensDomainChange ==
    ASSUME SessionTypes, SessionTypes', OpensInv, NEW need \in Nat, NEW have \in Nat, S!DomainChange("import", need, have)
    PROVE  OpensInv'
<1> DEFINE P == S!Put("need", None, need, TRUE)
           Q == S!Put("have", None, have, TRUE)
           R == S!Put("dkek", None, S!NoDkek, TRUE)
           q == <<P, Q, R>>
<1>1. op = S!Idle /\ S!Counted /\ cache' = [cache EXCEPT !.given = {}] /\ UNCHANGED <<flash, ram>> /\ op' = S!Run("import", q, "idle")
  BY DEF S!DomainChange, S!DomainHost
<1>2. P.f = "need" /\ Q.f = "have" /\ R.f = "dkek"
  BY DEF S!Put
<1> HIDE DEF P, Q, R
<1>3. \A i \in 1 .. Len(q) : q[i] \in {P, Q, R}
  OBVIOUS
<1>4. \A i \in 1 .. Len(q) : q[i].f \notin {"pin", "mkek"}
  BY <1>2, <1>3
<1>5. cache'.pin = cache.pin /\ cache'.mkek = cache.mkek /\ cache'.key = cache.key
  BY <1>1 DEF SessionTypes, Files
<1> HIDE DEF q
<1> QED BY <1>1, <1>4, <1>5, OpensCommand

\* Every step keeps it as long as one mishap is followed and SECURE LOCK is not used.
LEMMA OpensNext ==
    ASSUME SessionTypes, SessionTypes', OpensInv, S!Next, MaxMishaps \in {0, 1}, Lock = FALSE
    PROVE  OpensInv'
<1>0. cache \in Files /\ flash \in Files /\ ram \in Ram /\ op \in Ops /\ hist \in Histories
  BY DEF SessionTypes
<1>1. op = S!Idle => op.todo = <<>> /\ op.cmd # "initialize" /\ op.pc # "initialized" /\ op.then # "initialized"
  BY SessionNumbers DEF S!Idle
<1>2. ASSUME op = S!Idle, UNCHANGED <<flash, op, cache>>, \A r \in S!Refs : ram'.ses[r] \in {None, ram.ses[r]},
             hist'.mishaps = hist.mishaps, hist'.part = hist.part, hist'.torn = hist.torn
      PROVE  OpensInv'
  <2>1. \A x \in Taken(op'.todo) : x.f \notin {"pin", "mkek"}
    BY <1>1, <1>2, NoneTaken
  <2> QED BY <1>1, <1>2, <2>1, OpensAside
<1>3. CASE S!Select
  <2>1. hist'.mishaps = hist.mishaps /\ hist'.part = hist.part /\ hist'.torn = hist.torn
    BY <1>0, <1>3 DEF S!Select, Histories
  <2>2. ram'.ses = [r \in S!Refs |-> None]
    BY <1>3 DEF S!Select, S!Booted
  <2> QED BY <1>2, <1>3, <2>1, <2>2 DEF S!Select
<1>4. ASSUME NEW r \in S!Refs, S!CheckWrong(r) PROVE OpensInv'
  <2> DEFINE w == S!Put("tries", r, cache.tries[r] - 1, TRUE)
             q == <<w>>
  <2>1. op = S!Idle /\ S!Counted /\ UNCHANGED <<cache, flash>> /\ ram' = S!Closed(ram) /\ op' = S!Run("check", q, "idle")
    BY <1>4 DEF S!CheckWrong
  <2>2. ram'.ses = [s \in S!Refs |-> None]
    BY <1>0, <2>1, UpdatedTypes
  <2>3. \A i \in 1 .. Len(q) : q[i].f \notin {"pin", "mkek"}
    <3>1. w.f = "tries"
      BY DEF S!Put
    <3> HIDE DEF w
    <3> QED BY <3>1
  <2> HIDE DEF q
  <2> QED BY <2>1, <2>2, <2>3, OpensCommand
<1>5. ASSUME NEW r \in S!Refs, S!Verify(r) PROVE OpensInv'
  BY <1>5, OpensCheckRight DEF S!Verify
<1>6. ASSUME NEW r \in S!Refs, NEW new \in Pins, S!ChangePin(r, new) PROVE OpensInv'
  BY <1>6, QuietHistory, OpensCheckRight DEF S!ChangePin, S!PinHost
<1>7. ASSUME NEW new, S!ResetRetry(new) PROVE OpensInv'
  <2>1. "so" \in S!Refs
    BY DEF S!Refs
  <2> QED BY <1>7, <2>1, QuietHistory, OpensCheckRight DEF S!ResetRetry, S!PinHost
<1>8. ASSUME NEW new, S!ResetRetrySession(new) PROVE OpensInv'
  <2>1. op = S!Idle /\ S!Counted /\ UNCHANGED <<cache, flash, ram>> /\ op' = [S!Idle EXCEPT !.pc = "unblock", !.cmd = "unblock", !.new = new]
    BY <1>8 DEF S!ResetRetrySession, S!PinHost
  <2>2. op'.todo = <<>> /\ op'.cmd # "initialize" /\ op'.pc # "initialized" /\ op'.then # "initialized"
    BY <2>1 DEF S!Idle
  <2>3. \A x \in Taken(op'.todo) : x.f \notin {"pin", "mkek"}
    BY <2>2, NoneTaken
  <2> QED BY <1>1, <2>1, <2>2, <2>3, QuietHistory, OpensAside
<1>9. ASSUME NEW p, S!MseSet(p) PROVE OpensInv'
  <2>1. ram'.ses = ram.ses /\ UNCHANGED <<cache, flash, op, hist>> /\ op = S!Idle
    BY <1>0, <1>9 DEF S!MseSet, S!QuorumHost, Ram
  <2> QED BY <1>2, <2>1
<1>10. CASE S!GetChallenge
  <2>1. ram'.ses = ram.ses /\ UNCHANGED <<cache, flash, op>> /\ op = S!Idle
    BY <1>0, <1>10 DEF S!GetChallenge, S!Challenged, S!QuorumHost, Ram
  <2>2. hist'.mishaps = hist.mishaps /\ hist'.part = hist.part /\ hist'.torn = hist.torn
    BY <1>0, <1>10 DEF S!GetChallenge, Histories
  <2> QED BY <1>2, <2>1, <2>2
<1>11. ASSUME NEW right \in BOOLEAN, S!ExternalAuthenticate(right) PROVE OpensInv'
  <2> DEFINE answered == [ram EXCEPT !.status = @ \cup {ram.aut}]
             left == IF S!QuorumMet(answered) THEN [answered EXCEPT !.chal = 0] ELSE answered
  <2>1. ram.aut \in Puks /\ op = S!Idle /\ UNCHANGED <<cache, flash, op>>
    BY <1>0, <1>11 DEF S!ExternalAuthenticate, S!QuorumHost, Ram
  <2>2. left \in Ram /\ left.ses = ram.ses
    BY <1>0, <2>1 DEF Ram
  <2>3. ram' = IF right THEN S!Updated(left) ELSE [ram EXCEPT !.status = @ \ {ram.aut}]
    BY <1>11 DEF S!ExternalAuthenticate
  <2> HIDE DEF left
  <2>4. ram'.ses = ram.ses
    <3>1. S!Updated(left).ses = left.ses
      BY <2>2, UpdatedTypes
    <3> QED BY <1>0, <2>2, <2>3, <3>1 DEF Ram
  <2>5. hist'.mishaps = hist.mishaps /\ hist'.part = hist.part /\ hist'.torn = hist.torn
    BY <1>0, <1>11 DEF S!ExternalAuthenticate, Histories
  <2> QED BY <1>2, <2>1, <2>4, <2>5
<1>12. ASSUME NEW p, S!PukAuth(p) PROVE OpensInv'
  <2> DEFINE w == S!Put("puks", p, 1 + (cache.puks[p] % 2), FALSE)
             q == <<w>>
  <2>1. op = S!Idle /\ S!Counted /\ UNCHANGED <<cache, flash, ram>> /\ op' = S!Run("puk", q, "idle")
    BY <1>12 DEF S!PukAuth, S!QuorumHost
  <2>2. \A i \in 1 .. Len(q) : q[i].f \notin {"pin", "mkek"}
    <3>1. w.f = "puks"
      BY DEF S!Put
    <3> HIDE DEF w
    <3> QED BY <3>1
  <2> HIDE DEF q
  <2> QED BY <2>1, <2>2, OpensCommand
<1>13. S!DomainSetup \/ S!DomainDelete \/ S!DomainReset => OpensInv'
  <2>1. cache.need \in Nat /\ S!Unset \in Nat /\ Dkeks \in Nat
    BY <1>0, SessionNumbers DEF Files
  <2> QED BY <2>1, OpensDomainChange DEF S!DomainSetup, S!DomainDelete, S!DomainReset
<1>14. ~S!GiveMask /\ \A on : ~S!SecureLock(on)
  BY DEF S!GiveMask, S!SecureLock
<1> QED BY <1>3, <1>4, <1>5, <1>6, <1>7, <1>8, <1>9, <1>10, <1>11, <1>12, <1>13, <1>14, OpensWrite, OpensFault,
           OpensDrain, OpensLoss, OpensChecked, OpensGranted, OpensChange, OpensUnblock, OpensInitialize,
           OpensInitialized, OpensKcv, OpensImport
        DEF S!Next

\* The card starts with both references open.
LEMMA OpensInit == S!Init => OpensInv
<1> SUFFICES ASSUME S!Init PROVE OpensInv
  OBVIOUS
<1> DEFINE p0 == CHOOSE p \in Pins : TRUE
<1>1. PICK h \in {"pins", "quorum", "domain"}, old \in BOOLEAN, c \in BOOLEAN : FirstCard(p0, h, old, c)
  BY FirstCards DEF p0
<1> HIDE DEF p0
<1>2. flash = cache /\ ram = S!Booted /\ op = S!Idle /\ hist.mishaps = 0
  BY <1>1 DEF FirstCard, S!Init
<1>3. cache.pin = S!CardOf(p0, p0, old).pin /\ cache.mkek = S!CardOf(p0, p0, old).mkek /\ cache.key = 1
  BY <1>1 DEF FirstCard, S!CardOf
<1>4. ASSUME NEW r \in S!Refs PROVE Opens(cache.mkek[r], cache.pin[r], cache.key)
  <2>1. cache.pin[r] = [v |-> p0, old |-> old]
    BY <1>3 DEF S!CardOf
  <2>2. cache.mkek[r] = [S!Wrapped(p0, IF old THEN "old" ELSE "new", 1) EXCEPT !.legacy = old]
    BY <1>3 DEF S!CardOf
  <2>3. /\ cache.mkek[r].key = 1 /\ ~cache.mkek[r].masked /\ cache.mkek[r].pin = p0
        /\ cache.mkek[r].kdf = IF old THEN "old" ELSE "new"
    BY <2>2 DEF S!Wrapped
  <2> QED BY <1>3, <2>1, <2>3 DEF Opens
<1>5. op.todo = <<>> /\ op.cmd # "initialize" /\ op.pc = "idle" /\ op.then = "idle"
  BY <1>2, SessionNumbers DEF S!Idle
<1>6. Initializing /\ Target = cache.key
  BY <1>5 DEF Initializing, Target
<1>7. OneStays(cache, <<>>) /\ BothSurvive
  <2>1. Keyed(cache, <<>>)
    BY <1>4 DEF Keyed, Opens
  <2>2. \A r \in S!Refs : StaysOpen(cache, <<>>, r)
    BY <1>4 DEF StaysOpen, Spares
  <2>3. "user" \in S!Refs
    BY DEF S!Refs
  <2> QED BY <1>5, <1>6, <2>1, <2>2, <2>3 DEF OneStays, BothSurvive, Survives
<1>8. SessionsFit
  BY <1>2 DEF SessionsFit, S!Booted
<1> QED BY <1>2, <1>5, <1>6, <1>7, <1>8 DEF OpensInv, Unharmed

\* A reference that opens the key does so for good, whatever PINs are changed or unblocked and
\* whatever is initialised: one power loss or failed write leaves a way to the keys (hsm_check_pin,
\* cmd_change_pin, cmd_reset_retry, cmd_initialize), as long as SECURE LOCK is not used.
SessionOpens == part = "session" => SessionTypes /\ OpensInv
THEOREM OneReferenceOpens == MaxMishaps \in {0, 1} /\ Lock = FALSE => (Spec => []SomeoneOpens)
<1> SUFFICES ASSUME MaxMishaps \in {0, 1}, Lock = FALSE PROVE Spec => []SomeoneOpens
  OBVIOUS
<1>1. Init => SessionOpens
  BY SessionTypesInit, OpensInit DEF Init, SessionOpens
<1>2. SessionOpens /\ [Next]_vars => SessionOpens'
  <2> SUFFICES ASSUME SessionOpens, [Next]_vars, part' = "session" PROVE SessionTypes' /\ OpensInv'
    BY DEF SessionOpens
  <2>1. CASE Next
    <3>1. part = "session" /\ S!Next
      BY <2>1 DEF Next
    <3> QED BY <3>1, SessionTypesNext, OpensNext DEF SessionOpens
  <2>2. CASE UNCHANGED vars
    <3>1. SessionTypes /\ OpensInv /\ UNCHANGED <<cache, flash, ram, op, hist>>
      BY <2>2 DEF vars, SessionOpens
    <3> QED BY <3>1 DEF SessionTypes, OpensInv, Initializing, Unharmed, Harmed, BothSurvive, SessionsFit, Target
  <2> QED BY <2>1, <2>2
<1>3. SessionOpens => SomeoneOpens
  <2> SUFFICES ASSUME SessionTypes, OpensInv, op = S!Idle, "initialize" \notin hist.torn
               PROVE  \E r \in S!Refs : LET w == cache.mkek[r] IN
                          /\ w.key = cache.key /\ ~w.masked
                          /\ w.pin = cache.pin[r].v
                          /\ w.kdf = "old" <=> cache.pin[r].old
    BY DEF SomeoneOpens, S!SomeoneOpens, SessionOpens
  <2>1. op.todo = <<>> /\ op.cmd # "initialize" /\ Living
    BY SessionNumbers DEF S!Idle, Living
  <2>2. PICK r \in S!Refs : Open(cache, r)
    BY <2>1, Resting
  <2> QED BY <2>2 DEF Open, Opens
<1> QED BY <1>1, <1>2, <1>3, PTL DEF Spec

-----------------------------------------------------------------------------
(* HsmSession: a domain's key is that of its shares *)

Disturbing == {"import", "initialize", "pending"}
Undisturbed == hist.host = "domain" /\ Disturbing \cap hist.torn = {}
Counts == {"need", "have", "dkek"}

\* A domain takes n shares of which h are in, its key is d and the XOR of the shares g; until a
\* login waits for it the key of a complete domain is wrapped.
DomainKept(n, h, d, g, waits) ==
    /\ 0 < n /\ h <= n
    /\ \/ n = S!Unset
       \/ h < n /\ (IF d.kind = "raw" THEN d.ok /\ d.xor = g ELSE g = {})
       \/ h = n /\ d.ok /\ d.xor = g /\ (d.kind = "wrapped" \/ (d.kind = "raw" /\ waits))

KeptIn(c, waits) == DomainKept(c.need, c.have, c.dkek, c.given, waits)

\* The share on its way is given with the key check value.
Sharing(o) == "kcv" \in {o.pc, o.then}
Given == IF Sharing(op) THEN S!Xor(cache.given, op.share) ELSE cache.given
DomainEnds ==
    \E n \in Nat, h \in Nat, d \in Domains :
        /\ Ends(cache, op.todo, "need", None, n) /\ Ends(cache, op.todo, "have", None, h) /\ Ends(cache, op.todo, "dkek", None, d)
        /\ DomainKept(n, h, d, Given, ram.pending) /\ (ram.pending => n = h)

\* Both references open the key, in the new format.
Newest(w, v, key) == Opens(w, v, key) /\ ~v.old
BothOpen(c) == \A r \in S!Refs : Newest(c.mkek[r], c.pin[r], c.key)
Untouched(q) == \A r \in S!Refs : Spares(q, "pin", r) /\ Spares(q, "mkek", r)
PinsEnd ==
    \A r \in S!Refs : \E v \in Verifiers, w \in Copies :
        Ends(cache, op.todo, "pin", r, v) /\ Ends(cache, op.todo, "mkek", r, w) /\ Newest(w, v, op.key)

\* The handlers of such a card
Steady(o) ==
    /\ o.pc \notin {"change", "unblock"} /\ o.then \notin {"granted", "change", "unblock"} /\ o.next = "idle"
    /\ o.cmd \in Disturbing => o.pc \in {"write", "initialized", "kcv"} /\ o.then \in {"idle", "initialized", "kcv"}
    /\ o.cmd = "initialize" <=> "initialized" \in {o.pc, o.then}
    /\ o.cmd = "initialize" => o.pc \in {"write", "initialized"}
    /\ Sharing(o) => o.cmd = "import"

\* A key waits as long as nobody is logged in.
SessionsKept ==
    /\ SessionsFit /\ ~ram.mask
    /\ ram.pending => op.pc = "granted" \/ ~Login
    /\ op.pc = "granted" => Login

CountsSpared == \A f \in Counts : Spares(op.todo, f, None)
DomainBody ==
    /\ Steady(op) /\ SessionsKept /\ DomainEnds
    /\ IF op.cmd = "initialize" THEN PinsEnd ELSE BothOpen(cache) /\ Untouched(op.todo)
    /\ op.cmd \notin Disturbing => CountsSpared
FlashKept == Disturbing \cap hist.part # {} \/ (BothOpen(flash) /\ KeptIn(flash, TRUE))
DomainInv == Undisturbed => DomainBody /\ FlashKept

\* A card of another host never has a share.
Shareless(c) == c.need = Dkeks /\ c.have = 0
SharelessInv ==
    hist.host # "domain" =>
        /\ Shareless(cache) /\ Shareless(flash)
        /\ Plain(op.todo)

\* What is torn stays torn, on the same card.
LEMMA TornGrows == SessionTypes /\ S!Next => hist'.host = hist.host /\ hist.torn \subseteq hist'.torn
<1> SUFFICES ASSUME hist \in Histories, S!Next PROVE hist'.host = hist.host /\ hist.torn \subseteq hist'.torn
  BY DEF SessionTypes
<1> USE DEF Histories
<1>1. S!Counted => hist'.host = hist.host /\ hist.torn \subseteq hist'.torn
  BY DEF S!Counted
<1>2. S!Fault \/ S!PowerLoss => hist'.host = hist.host /\ hist.torn \subseteq hist'.torn
  <2>1. CASE S!Fault
    BY <2>1 DEF S!Fault
  <2>2. CASE S!PowerLoss
    <3> DEFINE t == hist.torn \cup hist.part \cup
                       (IF flash.dkek.kind = "raw" /\ flash.have = flash.need THEN {"pending"} ELSE {})
    <3>1. hist' = [hist EXCEPT !.mishaps = @ + 1, !.answered = {}, !.torn = t] /\ hist.torn \subseteq t
      BY <2>2 DEF S!PowerLoss
    <3> HIDE DEF t
    <3> QED BY <3>1
  <2> QED BY <2>1, <2>2
<1>3. ASSUME NEW v, NEW w, S!Initialize(v, w) PROVE hist'.host = hist.host /\ hist.torn \subseteq hist'.torn
  <2> DEFINE torn == IF ram.pending THEN hist.torn \cup {"pending"} ELSE hist.torn
             keys == IF S!Loads(cache, ram) THEN hist.keys ELSE hist.keys + 1
  <2>1. hist' = [hist EXCEPT !.cmds = @ + 1, !.keys = keys, !.answered = {}, !.torn = torn]
    BY <1>3 DEF S!Initialize
  <2>2. hist.torn \subseteq torn
    OBVIOUS
  <2> HIDE DEF torn, keys
  <2> QED BY <2>1, <2>2
<1>4. S!Drain \/ S!Select \/ S!GetChallenge => hist'.host = hist.host /\ hist.torn \subseteq hist'.torn
  BY DEF S!Drain, S!Select, S!GetChallenge
<1>5. ASSUME NEW right, S!ExternalAuthenticate(right) PROVE hist'.host = hist.host /\ hist.torn \subseteq hist'.torn
  BY <1>5 DEF S!ExternalAuthenticate
<1>6. S!Write \/ S!Checked \/ S!Granted \/ S!Change \/ S!Unblock \/ S!Initialized \/ S!DomainKcv \/ S!DomainQuery \/ S!GiveMask
        => UNCHANGED hist
  BY DEF S!Write, S!Checked, S!Granted, S!Change, S!Unblock, S!Initialized, S!DomainKcv, S!DomainQuery, S!GiveMask
<1>7. (\A r : S!Verify(r) => UNCHANGED hist) /\ (\A p : S!MseSet(p) => UNCHANGED hist)
  BY DEF S!Verify, S!MseSet
<1>8. /\ \A r, new : S!CheckWrong(r) \/ S!ChangePin(r, new) => S!Counted
      /\ \A new : S!ResetRetry(new) \/ S!ResetRetrySession(new) => S!Counted
      /\ \A p : S!PukAuth(p) \/ S!ImportShare(p) \/ S!SecureLock(p) => S!Counted
      /\ S!DomainSetup \/ S!DomainDelete \/ S!DomainReset => S!Counted
  BY DEF S!CheckWrong, S!ChangePin, S!ResetRetry, S!ResetRetrySession, S!PukAuth, S!ImportShare, S!SecureLock,
         S!DomainSetup, S!DomainDelete, S!DomainReset, S!DomainChange
<1> QED BY <1>1, <1>2, <1>3, <1>4, <1>5, <1>6, <1>7, <1>8 DEF S!Next

\* A list that spares a place leaves it as it is.
LEMMA SparedEnds ==
    ASSUME NEW q, NEW f, NEW r, Spares(q, f, r)
    PROVE  \A c, x : Ends(c, q, f, r, x) <=> Value(c, f, r) = x
BY DEF Ends, Sets, Spares, Touches

\* Between the handlers' lists: what the domain is now
LEMMA DomainResting ==
    ASSUME SessionTypes, DomainBody, op.cmd # "initialize", CountsSpared
    PROVE  /\ DomainKept(cache.need, cache.have, cache.dkek, Given, ram.pending)
           /\ ram.pending => cache.need = cache.have
           /\ BothOpen(cache) /\ Untouched(op.todo)
           /\ \A r \in S!Refs : Accepts(cache, ram.ses, r)
<1>1. BothOpen(cache) /\ Untouched(op.todo)
  BY DEF DomainBody
<1>2. PICK n \in Nat, h \in Nat, d \in Domains :
        /\ Ends(cache, op.todo, "need", None, n) /\ Ends(cache, op.todo, "have", None, h) /\ Ends(cache, op.todo, "dkek", None, d)
        /\ DomainKept(n, h, d, Given, ram.pending) /\ (ram.pending => n = h)
  BY DEF DomainBody, DomainEnds
<1>3. n = cache.need /\ h = cache.have /\ d = cache.dkek
  <2>1. Spares(op.todo, "need", None) /\ Spares(op.todo, "have", None) /\ Spares(op.todo, "dkek", None)
    BY DEF CountsSpared, Counts
  <2> QED BY <1>2, <2>1, SparedEnds DEF Value
<1>4. ASSUME NEW r \in S!Refs PROVE Accepts(cache, ram.ses, r)
  <2>1. Spares(op.todo, "pin", r) /\ Value(cache, "pin", r) = cache.pin[r]
    BY <1>1, SessionNumbers DEF Untouched, Value
  <2> QED BY <2>1, SparedEnds DEF DomainBody, SessionsKept, SessionsFit, Accepts
<1> QED BY <1>1, <1>2, <1>3, <1>4

\* The master key loads exactly when somebody is logged in.
LEMMA DomainLoads ==
    ASSUME SessionTypes, BothOpen(cache), ~ram.mask, \A r \in S!Refs : Accepts(cache, ram.ses, r)
    PROVE  S!Loads(cache, ram) <=> Login
<1> DEFINE r == S!Loaded(cache, ram)
<1>0. cache \in Files /\ ram \in Ram /\ S!Refs = {"user", "so"} /\ S!NoCopy.pin = None
  BY DEF SessionTypes, S!Refs, S!NoCopy, S!Wrapped
<1>1. \A s \in S!Refs : cache.mkek[s] # S!NoCopy
  <2> SUFFICES ASSUME NEW s \in S!Refs PROVE cache.mkek[s] # S!NoCopy
    OBVIOUS
  <2>1. cache.mkek[s].pin = cache.pin[s].v /\ cache.pin[s].v \in Pins
    BY <1>0 DEF BothOpen, Newest, Opens, Files
  <2> QED BY <1>0, <2>1, SessionNumbers
<1>2. r \in S!Refs /\ (Login => ram.ses[r] # None)
  BY <1>0, <1>1 DEF S!Loaded, Login
<1> HIDE DEF r
<1>3. ASSUME ram.ses[r] # None PROVE S!CopyOpens(cache, ram, r)
  <2>1. cache.pin[r] = Accepted(ram.ses[r]) /\ ram.ses[r] \in S!Sessions
    BY <1>0, <1>2, <1>3 DEF Accepts, Ram, MaySession
  <2>2. cache.pin[r].v = ram.ses[r].pin /\ cache.pin[r].old = (ram.ses[r].kdf = "old")
    BY <2>1 DEF Accepted
  <2>3. /\ cache.mkek[r].pin = cache.pin[r].v /\ cache.mkek[r].masked = FALSE
        /\ cache.mkek[r].kdf = "new" /\ ~cache.pin[r].old /\ cache.mkek[r].legacy \in BOOLEAN
    BY <1>0, <1>2 DEF BothOpen, Newest, Opens, Files, Copies
  <2>4. ram.ses[r].kdf = "new"
    BY <2>1, <2>2, <2>3 DEF S!Sessions
  <2> QED BY <1>1, <1>2, <1>3, <2>2, <2>3, <2>4 DEF S!CopyOpens
<1> QED BY <1>2, <1>3 DEF S!Loads, S!CopyOpens, Login, r

\* A step that spares the domain and the references
LEMMA DomainAside ==
    ASSUME SessionTypes, SessionTypes', DomainBody, FlashKept, UNCHANGED <<cache, flash>>, hist'.part = hist.part,
           op.cmd # "initialize", CountsSpared, op'.cmd \notin Disturbing,
           \A f \in Counts : Spares(op'.todo, f, None), Untouched(op'.todo), Steady(op'), ~ram'.mask,
           \A r \in S!Refs : ram'.ses[r] \in {None, ram.ses[r]} \/ Accepts(cache, ram'.ses, r),
           Given = cache.given, DomainKept(cache.need, cache.have, cache.dkek, Given, ram'.pending),
           ram'.pending => ram.pending /\ (op'.pc = "granted" \/ ~Login'), op'.pc = "granted" => Login'
    PROVE  DomainBody' /\ FlashKept'
<1>1. /\ ram.pending => cache.need = cache.have
      /\ BothOpen(cache) /\ \A r \in S!Refs : Accepts(cache, ram.ses, r)
  BY DomainResting
<1>2. Given' = cache.given
  BY DEF Given, Steady, Disturbing
<1>3. DomainEnds'
  <2>1. cache.need \in Nat /\ cache.have \in Nat /\ cache.dkek \in Domains
    BY DEF SessionTypes, Files
  <2>2. \A f \in Counts : Value(cache, f, None) = cache[f] /\ Ends(cache, op'.todo, f, None, cache[f])
    BY DEF Value, Ends
  <2>3. /\ Ends(cache', op'.todo, "need", None, cache.need) /\ Ends(cache', op'.todo, "have", None, cache.have)
        /\ Ends(cache', op'.todo, "dkek", None, cache.dkek)
    BY <2>2 DEF Counts
  <2> QED BY <1>1, <1>2, <2>1, <2>3 DEF DomainEnds
<1>4. SessionsFit'
  <2>1. ASSUME NEW r \in S!Refs, ram'.ses[r] # None PROVE Ends(cache', op'.todo, "pin", r, Accepted(ram'.ses[r]))
    <3>1. cache.pin[r] = Accepted(ram'.ses[r])
      BY <1>1, <2>1 DEF Accepts
    <3>2. Value(cache', "pin", r) = cache.pin[r] /\ Spares(op'.todo, "pin", r)
      BY SessionNumbers DEF Value, Untouched
    <3> QED BY <3>1, <3>2 DEF Ends
  <2> QED BY <2>1 DEF SessionsFit
<1>5. SessionsKept'
  BY <1>4 DEF SessionsKept
<1>6. op'.cmd # "initialize" /\ BothOpen(cache') /\ CountsSpared' /\ FlashKept'
  BY <1>1 DEF Disturbing, CountsSpared, FlashKept
<1> QED BY <1>3, <1>5, <1>6 DEF DomainBody

\* How a handler of such a card goes on after a write
LEMMA RestSteady ==
    ASSUME SessionTypes, Steady(op), op.pc = "write"
    PROVE  /\ Steady(S!Rest) /\ S!Rest.pc # "granted" /\ S!Rest.todo = Tail(op.todo)
           /\ S!Rest.cmd \in {op.cmd, None} /\ (S!Rest.cmd = "initialize" <=> op.cmd = "initialize")
           /\ S!Rest.cmd = "initialize" => S!Rest.key = op.key
           /\ op.cmd \in Disturbing /\ S!Rest.cmd \notin Disturbing => Tail(op.todo) = <<>>
           /\ Sharing(S!Rest) <=> Sharing(op)
           /\ Sharing(op) => S!Rest.share = op.share
<1>1. op \in Ops /\ op.todo \in Seq(Writes) /\ op.todo # <<>>
  BY DEF SessionTypes, Shaped, Ops
<1>2. Tail(op.todo) \in Seq(Writes) /\ (Len(op.todo) > 1 <=> Tail(op.todo) # <<>>)
  BY <1>1, RestOf
<1> USE DEF Steady, Sharing, Disturbing
<1>3. CASE Len(op.todo) > 1
  <2>1. S!Rest = [op EXCEPT !.todo = Tail(op.todo)]
    BY <1>3 DEF S!Rest
  <2>2. S!Rest.pc = op.pc /\ S!Rest.then = op.then /\ S!Rest.next = op.next /\ S!Rest.cmd = op.cmd /\ S!Rest.key = op.key
        /\ S!Rest.share = op.share /\ S!Rest.todo = Tail(op.todo)
    BY <1>1, <2>1 DEF Ops
  <2> QED BY <2>2
<1>4. CASE ~(Len(op.todo) > 1) /\ op.then = "idle"
  <2>1. S!Rest = S!Idle
    BY <1>4 DEF S!Rest
  <2>2. S!Rest.pc = "idle" /\ S!Rest.then = "idle" /\ S!Rest.next = "idle" /\ S!Rest.cmd = None /\ S!Rest.todo = <<>>
    BY <2>1 DEF S!Idle
  <2>3. op.cmd # "initialize" /\ ~Sharing(op)
    BY <1>4
  <2> QED BY <1>2, <1>4, <2>2, <2>3, SessionNumbers
<1>5. CASE ~(Len(op.todo) > 1) /\ op.then # "idle"
  <2>1. S!Rest = [op EXCEPT !.todo = <<>>, !.pc = op.then]
    BY <1>5 DEF S!Rest
  <2>2. S!Rest.pc = op.then /\ S!Rest.then = op.then /\ S!Rest.next = op.next /\ S!Rest.cmd = op.cmd /\ S!Rest.key = op.key
        /\ S!Rest.share = op.share /\ S!Rest.todo = <<>>
    BY <1>1, <2>1 DEF Ops
  <2>3. op.then \in Pcs \ {"write"}
    BY <1>1 DEF Ops
  <2>4. op.cmd \in Disturbing => op.then \in {"initialized", "kcv"}
    BY <1>5, <2>3 DEF Pcs
  <2> QED BY <1>2, <1>5, <2>2, <2>4
<1> QED BY <1>3, <1>4, <1>5

LEMMA DomainWrite == ASSUME SessionTypes, SessionTypes', DomainBody, FlashKept, S!Write PROVE DomainBody' /\ FlashKept'
<1> DEFINE q == op.todo
           w == Head(q)
           d == S!Applied(cache, w)
<1>0. /\ cache \in Files /\ Steady(op) /\ op.pc = "write" /\ cache' = d /\ op' = S!Rest /\ UNCHANGED <<flash, ram, hist>>
      /\ q \in Seq(Writes) /\ q # <<>>
  BY DEF SessionTypes, DomainBody, S!Write, Shaped, Ops
<1>1. op'.todo = Tail(q) /\ Steady(op') /\ op'.pc # "granted" /\ (op'.cmd = "initialize" <=> op.cmd = "initialize")
  BY <1>0, RestSteady
<1>2. w \in Writes /\ d.key = cache.key /\ d.given = cache.given
  <2>1. w \in Writes
    BY <1>0, RestOf
  <2> QED BY <1>0, <2>1, AppliedWrite
<1>3. Given' = Given
  BY <1>0, <1>2, RestSteady DEF Given
<1> HIDE DEF q, w, d
<1>4. w = Head(q) /\ d = S!Applied(cache, Head(q)) /\ q = op.todo
  BY DEF w, d, q
<1>5. ASSUME NEW f, NEW r, Place(f, r), NEW x, Ends(cache, q, f, r, x) PROVE Ends(cache', op'.todo, f, r, x)
  <2>1. Ends(S!Applied(cache, Head(q)), Tail(q), f, r, x)
    BY <1>0, <1>5, EndsWritten
  <2> QED BY <1>0, <1>1, <1>4, <2>1
<1>6. /\ Place("need", None) /\ Place("have", None) /\ Place("dkek", None)
      /\ \A r \in S!Refs : Place("pin", r) /\ Place("mkek", r)
  BY DEF Place
<1>7. DomainEnds'
  <2>1. PICK n \in Nat, h \in Nat, k \in Domains :
          /\ Ends(cache, q, "need", None, n) /\ Ends(cache, q, "have", None, h) /\ Ends(cache, q, "dkek", None, k)
          /\ DomainKept(n, h, k, Given, ram.pending) /\ (ram.pending => n = h)
    BY <1>4 DEF DomainBody, DomainEnds
  <2>2. Ends(cache', op'.todo, "need", None, n) /\ Ends(cache', op'.todo, "have", None, h) /\ Ends(cache', op'.todo, "dkek", None, k)
    BY <1>5, <1>6, <2>1
  <2> QED BY <1>0, <1>3, <2>1, <2>2 DEF DomainEnds
<1>8. SessionsKept'
  <2>1. SessionsFit'
    BY <1>0, <1>4, <1>5, <1>6 DEF DomainBody, SessionsKept, SessionsFit
  <2> QED BY <1>0, <1>1, <2>1 DEF DomainBody, SessionsKept, Login
<1>9. IF op'.cmd = "initialize" THEN PinsEnd' ELSE BothOpen(cache') /\ Untouched(op'.todo)
  <2>1. CASE op.cmd = "initialize"
    <3>1. PinsEnd /\ op'.key = op.key
      BY <1>0, <1>1, <2>1, RestSteady DEF DomainBody
    <3>2. ASSUME NEW r \in S!Refs
          PROVE  \E v \in Verifiers, x \in Copies :
                    Ends(cache', op'.todo, "pin", r, v) /\ Ends(cache', op'.todo, "mkek", r, x) /\ Newest(x, v, op'.key)
      <4>1. PICK v \in Verifiers, x \in Copies :
              Ends(cache, q, "pin", r, v) /\ Ends(cache, q, "mkek", r, x) /\ Newest(x, v, op.key)
        BY <1>4, <3>1 DEF PinsEnd
      <4>2. Ends(cache', op'.todo, "pin", r, v) /\ Ends(cache', op'.todo, "mkek", r, x)
        BY <1>5, <1>6, <4>1
      <4> QED BY <3>1, <4>1, <4>2
    <3> QED BY <1>1, <2>1, <3>2 DEF PinsEnd
  <2>2. CASE op.cmd # "initialize"
    <3>1. BothOpen(cache) /\ Untouched(q)
      BY <1>4, <2>2 DEF DomainBody
    <3>2. Untouched(Tail(q)) /\ \A r \in S!Refs : ~Touches(w, "pin", r) /\ ~Touches(w, "mkek", r)
      BY <1>0, <1>4, <3>1, RestSpares DEF Untouched
    <3>3. ASSUME NEW r \in S!Refs PROVE d.pin[r] = cache.pin[r] /\ d.mkek[r] = cache.mkek[r]
      <4>1. Value(d, "pin", r) = Value(cache, "pin", r) /\ Value(d, "mkek", r) = Value(cache, "mkek", r)
        BY <1>0, <1>2, <1>4, <1>6, <3>2, AppliedAt
      <4> QED BY <4>1, SessionNumbers DEF Value
    <3> QED BY <1>0, <1>1, <1>2, <2>2, <3>1, <3>2, <3>3 DEF BothOpen
  <2> QED BY <2>1, <2>2
<1>10. op'.cmd \notin Disturbing => CountsSpared'
  <2>1. CASE op.cmd \in Disturbing
    <3>1. op'.cmd \notin Disturbing => op'.todo = <<>>
      BY <1>0, <1>1, <2>1, RestSteady
    <3> QED BY <3>1 DEF CountsSpared, Spares
  <2>2. CASE op.cmd \notin Disturbing
    <3>1. CountsSpared
      BY <2>2 DEF DomainBody
    <3>2. \A f \in Counts : Spares(Tail(q), f, None)
      BY <1>0, <1>4, <3>1, RestSpares DEF CountsSpared
    <3> QED BY <1>1, <3>2 DEF CountsSpared
  <2> QED BY <2>1, <2>2
<1>11. FlashKept'
  BY <1>0 DEF FlashKept
<1> QED BY <1>1, <1>7, <1>8, <1>9, <1>10, <1>11 DEF DomainBody

\* A write that fails elsewhere
LEMMA DomainFault ==
    ASSUME SessionTypes, SessionTypes', DomainBody, FlashKept, Undisturbed', S!Fault PROVE DomainBody' /\ FlashKept'
<1>0. /\ op.pc = "write" /\ UNCHANGED <<cache, flash, ram>> /\ hist' = [hist EXCEPT !.mishaps = @ + 1, !.torn = @ \cup {op.cmd}]
      /\ op' = S!Idle \/ op' = S!Rest \/ op.cmd = "import"
      /\ op.todo \in Seq(Writes) /\ op.todo # <<>> /\ Steady(op)
  BY FaultEnds DEF SessionTypes, DomainBody, S!Fault, S!Torn, Shaped, Ops
<1>1. hist'.part = hist.part /\ op.cmd \in hist'.torn
  BY <1>0 DEF SessionTypes, Histories
<1>2. op.cmd \notin Disturbing /\ (op' = S!Idle \/ op' = S!Rest)
  <2>1. op.cmd \notin Disturbing
    BY <1>1 DEF Undisturbed
  <2> QED BY <1>0, <2>1 DEF Disturbing
<1>3. CountsSpared /\ op.cmd # "initialize" /\ BothOpen(cache) /\ Untouched(op.todo) /\ SessionsKept
  BY <1>2 DEF DomainBody, Disturbing
<1>4. Given = cache.given
  BY <1>0, <1>2 DEF Given, Steady, Disturbing
<1>5. op'.todo = <<>> \/ op'.todo = Tail(op.todo)
  BY <1>0, <1>2, RestSteady DEF S!Idle
<1>6. (\A f \in Counts : Spares(op'.todo, f, None)) /\ Untouched(op'.todo)
  <2>1. CASE op'.todo = <<>>
    BY <2>1 DEF Spares, Untouched
  <2>2. CASE op'.todo = Tail(op.todo)
    BY <1>0, <1>3, <2>2, RestSpares DEF CountsSpared, Untouched
  <2> QED BY <1>5, <2>1, <2>2
<1>7. op'.cmd \notin Disturbing /\ Steady(op') /\ op'.pc # "granted"
  <2>1. CASE op' = S!Idle
    <3>1. op'.pc = "idle" /\ op'.then = "idle" /\ op'.next = "idle" /\ op'.cmd = None
      BY <2>1 DEF S!Idle
    <3> QED BY <3>1, SessionNumbers DEF Steady, Sharing, Disturbing
  <2>2. CASE op' = S!Rest
    BY <1>0, <1>2, <2>2, RestSteady, SessionNumbers DEF Disturbing
  <2> QED BY <1>2, <2>1, <2>2
<1>8. ram.pending => ~Login' /\ ~Login
  BY <1>0, <1>3 DEF SessionsKept, Login
<1>9. DomainKept(cache.need, cache.have, cache.dkek, Given, ram'.pending)
  BY <1>0, <1>3, DomainResting
<1> QED BY <1>0, <1>1, <1>3, <1>4, <1>6, <1>7, <1>8, <1>9, DomainAside DEF SessionsKept

\* The flash catches up; the power is lost.
LEMMA DomainDrain == ASSUME SessionTypes, SessionTypes', DomainBody, FlashKept, S!Drain PROVE DomainBody' /\ FlashKept'
<1>0. UNCHANGED <<cache, ram, op>> /\ flash' = cache /\ hist'.part = S!Torn
  BY DEF S!Drain, SessionTypes, Histories
<1>1. DomainBody'
  BY <1>0 DEF DomainBody, SessionsKept, SessionsFit, DomainEnds, PinsEnd, CountsSpared, Given, Login
<1>2. FlashKept'
  <2>1. CASE op.cmd \in Disturbing
    <3>1. op.cmd \in hist'.part
      BY <1>0, <2>1 DEF S!Torn, DomainBody, Steady
    <3> QED BY <2>1, <3>1 DEF FlashKept
  <2>2. CASE op.cmd \notin Disturbing
    <3>1. CountsSpared /\ op.cmd # "initialize" /\ Given = cache.given
      BY <2>2 DEF DomainBody, Disturbing, Given, Steady
    <3>2. BothOpen(cache) /\ DomainKept(cache.need, cache.have, cache.dkek, cache.given, ram.pending)
      BY <3>1, DomainResting
    <3>3. KeptIn(cache, TRUE)
      BY <3>2 DEF KeptIn, DomainKept
    <3> QED BY <1>0, <3>2, <3>3 DEF FlashKept
  <2> QED BY <2>1, <2>2
<1> QED BY <1>1, <1>2

LEMMA DomainLoss ==
    ASSUME SessionTypes, SessionTypes', DomainBody, FlashKept, Undisturbed', S!PowerLoss PROVE DomainBody' /\ FlashKept'
<1> DEFINE t == hist.torn \cup hist.part \cup
                   (IF flash.dkek.kind = "raw" /\ flash.have = flash.need THEN {"pending"} ELSE {})
<1>0. /\ cache' = flash /\ UNCHANGED flash /\ ram' = S!Booted /\ op' = S!Idle
      /\ hist' = [hist EXCEPT !.mishaps = @ + 1, !.answered = {}, !.torn = t]
  BY DEF S!PowerLoss
<1>1. hist.part \subseteq t /\ (flash.dkek.kind = "raw" /\ flash.have = flash.need => "pending" \in t)
  OBVIOUS
<1> HIDE DEF t
<1>2. hist'.part = hist.part /\ hist'.torn = t
  BY <1>0 DEF SessionTypes, Histories
<1>3. Disturbing \cap hist.part = {} /\ ~(flash.dkek.kind = "raw" /\ flash.have = flash.need)
  BY <1>1, <1>2 DEF Undisturbed, Disturbing
<1>4. BothOpen(flash) /\ KeptIn(flash, TRUE) /\ KeptIn(flash, FALSE)
  BY <1>3 DEF FlashKept, KeptIn, DomainKept
<1>5. /\ op'.pc = "idle" /\ op'.then = "idle" /\ op'.next = "idle" /\ op'.cmd = None /\ op'.todo = <<>>
      /\ ~ram'.mask /\ ram'.pending = FALSE /\ \A r \in S!Refs : ram'.ses[r] = None
  BY <1>0 DEF S!Idle, S!Booted
<1>6. Steady(op') /\ op'.cmd # "initialize" /\ Given' = flash.given
  BY <1>0, <1>5, SessionNumbers DEF Steady, Sharing, Disturbing, Given
<1>7. SessionsKept'
  BY <1>5 DEF SessionsKept, SessionsFit, Login
<1>8. DomainEnds'
  <2>1. flash.need \in Nat /\ flash.have \in Nat /\ flash.dkek \in Domains
    BY DEF SessionTypes, Files
  <2>2. /\ Ends(flash, <<>>, "need", None, flash.need) /\ Ends(flash, <<>>, "have", None, flash.have)
        /\ Ends(flash, <<>>, "dkek", None, flash.dkek)
    BY EndsNow DEF Value
  <2> QED BY <1>0, <1>4, <1>5, <1>6, <2>1, <2>2 DEF DomainEnds, KeptIn
<1>9. Untouched(op'.todo) /\ CountsSpared'
  BY <1>5 DEF Untouched, CountsSpared, Spares
<1>10. BothOpen(cache') /\ BothOpen(flash') /\ KeptIn(flash', TRUE)
  BY <1>0, <1>4
<1>11. FlashKept'
  BY <1>10 DEF FlashKept
<1> QED BY <1>6, <1>7, <1>8, <1>9, <1>10, <1>11 DEF DomainBody

\* INITIALIZE of a domain's card: its references and an empty domain
LEMMA DomainInitialize ==
    ASSUME SessionTypes, SessionTypes', DomainBody, FlashKept, Undisturbed', NEW v \in Pins, NEW w \in Pins, S!Initialize(v, w)
    PROVE  DomainBody' /\ FlashKept'
<1> DEFINE key == IF S!Loads(cache, ram) THEN S!LoadedKey(cache, ram) ELSE hist.keys + 1
           q == S!InitializeWrites(v, w, key)
           su == [pin |-> v, kdf |-> "new"]
           ss == [pin |-> w, kdf |-> "new"]
           torn == IF ram.pending THEN hist.torn \cup {"pending"} ELSE hist.torn
           keys == IF S!Loads(cache, ram) THEN hist.keys ELSE hist.keys + 1
<1>0. /\ op = S!Idle /\ cache' = [cache EXCEPT !.given = {}] /\ UNCHANGED flash
      /\ op' = [S!Run("initialize", q, "initialized") EXCEPT !.key = key]
      /\ ram' = [ram EXCEPT !.ses = [user |-> su, so |-> ss], !.mask = FALSE]
      /\ hist' = [hist EXCEPT !.cmds = @ + 1, !.keys = keys, !.answered = {}, !.torn = torn]
  BY DEF S!Initialize
<1>1. key \in Nat
  BY LoadedTypes DEF SessionTypes, Histories
<1>2. ram.pending => "pending" \in torn
  OBVIOUS
<1> HIDE DEF key, keys, torn
<1>3. hist'.part = hist.part /\ ~ram.pending
  <2>1. hist'.part = hist.part /\ hist'.torn = torn
    BY <1>0 DEF SessionTypes, Histories
  <2> QED BY <1>2, <2>1 DEF Undisturbed, Disturbing
<1>4. /\ ram'.ses["user"] = su /\ ram'.ses["so"] = ss /\ S!Refs = {"user", "so"}
      /\ ram'.mask = FALSE /\ ram'.pending = ram.pending /\ cache'.given = {}
  BY <1>0 DEF SessionTypes, Ram, Files, S!Refs
<1>5. /\ q \in Seq(Writes)
      /\ Sets(q, "pin", "user", [v |-> v, old |-> FALSE]) /\ Sets(q, "pin", "so", [v |-> w, old |-> FALSE])
      /\ Sets(q, "mkek", "user", S!Wrapped(v, "new", key)) /\ Sets(q, "mkek", "so", S!Wrapped(w, "new", key))
      /\ Sets(q, "need", None, Dkeks) /\ Sets(q, "have", None, 0) /\ Sets(q, "dkek", None, S!NoDkek)
  BY <1>1, InitializeTaken
<1> HIDE DEF q
<1>6. /\ op'.cmd = "initialize" /\ op'.key = key /\ op'.todo = q /\ op'.then = "initialized"
      /\ op'.pc \in {"write", "initialized"} /\ op'.next = "idle"
  BY <1>0 DEF S!Run, S!Idle
<1>7. Steady(op')
  BY <1>6 DEF Steady, Sharing, Disturbing
<1>8. PinsEnd'
  <2>1. /\ [v |-> v, old |-> FALSE] \in Verifiers /\ [v |-> w, old |-> FALSE] \in Verifiers
        /\ S!Wrapped(v, "new", key) \in Copies /\ S!Wrapped(w, "new", key) \in Copies
        /\ Newest(S!Wrapped(v, "new", key), [v |-> v, old |-> FALSE], key)
        /\ Newest(S!Wrapped(w, "new", key), [v |-> w, old |-> FALSE], key)
    BY <1>1 DEF Verifiers, S!Wrapped, Copies, Opens, Newest
  <2> QED BY <1>4, <1>5, <1>6, <2>1 DEF PinsEnd, Ends
<1>9. SessionsFit'
  <2>1. Accepted(su) = [v |-> v, old |-> FALSE] /\ Accepted(ss) = [v |-> w, old |-> FALSE]
    BY DEF Accepted
  <2> HIDE DEF su, ss
  <2> QED BY <1>4, <1>5, <1>6, <2>1 DEF SessionsFit, Ends
<1>10. SessionsKept'
  BY <1>3, <1>4, <1>6, <1>9 DEF SessionsKept
<1>11. DomainEnds'
  <2>1. Dkeks \in Nat /\ 0 \in Nat /\ S!NoDkek \in Domains /\ S!NoDkek.kind = "none" /\ 0 < Dkeks /\ 0 <= Dkeks
    BY SessionNumbers DEF Domains, S!NoDkek
  <2>2. Given' = {}
    BY <1>4, <1>6 DEF Given, Sharing
  <2>3. DomainKept(Dkeks, 0, S!NoDkek, Given', ram'.pending)
    BY <2>1, <2>2 DEF DomainKept
  <2>4. /\ Ends(cache', op'.todo, "need", None, Dkeks) /\ Ends(cache', op'.todo, "have", None, 0)
        /\ Ends(cache', op'.todo, "dkek", None, S!NoDkek)
    BY <1>5, <1>6 DEF Ends
  <2> QED BY <1>3, <1>4, <2>1, <2>3, <2>4 DEF DomainEnds
<1>12. FlashKept'
  BY <1>0, <1>3 DEF FlashKept
<1> QED BY <1>6, <1>7, <1>8, <1>10, <1>11, <1>12 DEF DomainBody, Disturbing

LEMMA DomainInitialized ==
    ASSUME SessionTypes, SessionTypes', DomainBody, FlashKept, S!Initialized PROVE DomainBody' /\ FlashKept'
<1>0. /\ op' = S!Idle /\ UNCHANGED <<flash, hist>> /\ op.pc = "initialized" /\ cache' = [cache EXCEPT !.key = op.key]
      /\ op.todo = <<>> /\ ram' = [ram EXCEPT !.user = TRUE, !.status = {}]
  BY DEF S!Initialized, SessionTypes, Shaped
<1>1. /\ ram'.ses = ram.ses /\ ram'.mask = ram.mask /\ ram'.pending = ram.pending
      /\ cache'.pin = cache.pin /\ cache'.mkek = cache.mkek /\ cache'.key = op.key /\ cache'.need = cache.need
      /\ cache'.have = cache.have /\ cache'.dkek = cache.dkek /\ cache'.given = cache.given
  BY <1>0 DEF SessionTypes, Ram, Files
<1>2. op'.pc = "idle" /\ op'.then = "idle" /\ op'.next = "idle" /\ op'.cmd = None /\ op'.todo = <<>>
  BY <1>0 DEF S!Idle
<1>3. Steady(op') /\ op'.cmd # "initialize"
  BY <1>2, SessionNumbers DEF Steady, Sharing, Disturbing
<1>4. op.cmd = "initialize" /\ PinsEnd /\ Steady(op)
  BY <1>0 DEF DomainBody, Steady
<1>5. \A r \in S!Refs : Value(cache, "pin", r) = cache.pin[r] /\ Value(cache, "mkek", r) = cache.mkek[r]
                     /\ Value(cache', "pin", r) = cache.pin[r]
  BY <1>1, SessionNumbers DEF Value
<1>6. BothOpen(cache')
  <2>1. ASSUME NEW r \in S!Refs PROVE Newest(cache.mkek[r], cache.pin[r], op.key)
    <3>1. PICK v \in Verifiers, w \in Copies :
            Ends(cache, <<>>, "pin", r, v) /\ Ends(cache, <<>>, "mkek", r, w) /\ Newest(w, v, op.key)
      BY <1>0, <1>4 DEF PinsEnd
    <3> QED BY <1>5, <3>1, EndsNow
  <2> QED BY <1>1, <2>1 DEF BothOpen
<1>7. Untouched(op'.todo) /\ CountsSpared'
  BY <1>2 DEF Untouched, CountsSpared, Spares
<1>8. SessionsKept'
  <2>1. ASSUME NEW r \in S!Refs, ram.ses[r] # None PROVE Ends(cache', <<>>, "pin", r, Accepted(ram.ses[r]))
    <3>1. Ends(cache, <<>>, "pin", r, Accepted(ram.ses[r]))
      BY <1>0, <2>1 DEF DomainBody, SessionsKept, SessionsFit
    <3> QED BY <1>5, <3>1, EndsNow
  <2>2. SessionsFit'
    BY <1>1, <1>2, <2>1 DEF SessionsFit
  <2> QED BY <1>0, <1>1, <1>2, <2>2 DEF DomainBody, SessionsKept, Login
<1>9. DomainEnds'
  <2>1. Given' = Given
    BY <1>1, <1>2, <1>4 DEF Given, Sharing, Steady
  <2>2. PICK n \in Nat, h \in Nat, d \in Domains :
          /\ Ends(cache, <<>>, "need", None, n) /\ Ends(cache, <<>>, "have", None, h) /\ Ends(cache, <<>>, "dkek", None, d)
          /\ DomainKept(n, h, d, Given, ram.pending) /\ (ram.pending => n = h)
    BY <1>0 DEF DomainBody, DomainEnds
  <2>3. Ends(cache', <<>>, "need", None, n) /\ Ends(cache', <<>>, "have", None, h) /\ Ends(cache', <<>>, "dkek", None, d)
    <3>1. \A f \in Counts : Value(cache', f, None) = Value(cache, f, None)
      BY <1>1 DEF Value, Counts
    <3> QED BY <2>2, <3>1, EndsNow DEF Counts
  <2> QED BY <1>1, <1>2, <2>1, <2>2, <2>3 DEF DomainEnds
<1>10. FlashKept'
  BY <1>0 DEF FlashKept
<1> QED BY <1>3, <1>6, <1>7, <1>8, <1>9, <1>10 DEF DomainBody

\* What lists of two and of three writes leave
LEMMA PairSets ==
    ASSUME NEW a, NEW b
    PROVE  \A f, r :
               /\ b.f = f /\ b.at = r => Sets(<<a, b>>, f, r, b.v)
               /\ a.f = f /\ a.at = r /\ ~Touches(b, f, r) => Sets(<<a, b>>, f, r, a.v)
               /\ ~Touches(a, f, r) /\ ~Touches(b, f, r) => Spares(<<a, b>>, f, r)
<1> DEFINE q == <<a, b>>
<1>1. Len(q) = 2 /\ q[1] = a /\ q[2] = b
  OBVIOUS
<1> HIDE DEF q
<1>2. 1 .. Len(q) = {1, 2} /\ 1 + 1 .. Len(q) = {2} /\ 2 + 1 .. Len(q) = {}
  BY <1>1
<1>3. ASSUME NEW f, NEW r, b.f = f, b.at = r PROVE Sets(q, f, r, b.v)
  BY <1>1, <1>2, <1>3 DEF Sets
<1>4. ASSUME NEW f, NEW r, a.f = f, a.at = r, ~Touches(b, f, r) PROVE Sets(q, f, r, a.v)
  BY <1>1, <1>2, <1>4 DEF Sets
<1>5. ASSUME NEW f, NEW r, ~Touches(a, f, r), ~Touches(b, f, r) PROVE Spares(q, f, r)
  BY <1>1, <1>2, <1>5 DEF Spares
<1> QED BY <1>3, <1>4, <1>5 DEF q

LEMMA TripleSets ==
    ASSUME NEW a, NEW b, NEW c
    PROVE  \A f, r :
               /\ c.f = f /\ c.at = r => Sets(<<a, b, c>>, f, r, c.v)
               /\ b.f = f /\ b.at = r /\ ~Touches(c, f, r) => Sets(<<a, b, c>>, f, r, b.v)
               /\ a.f = f /\ a.at = r /\ ~Touches(b, f, r) /\ ~Touches(c, f, r) => Sets(<<a, b, c>>, f, r, a.v)
               /\ ~Touches(a, f, r) /\ ~Touches(b, f, r) /\ ~Touches(c, f, r) => Spares(<<a, b, c>>, f, r)
<1> DEFINE q == <<a, b, c>>
<1>1. Len(q) = 3 /\ q[1] = a /\ q[2] = b /\ q[3] = c
  OBVIOUS
<1> HIDE DEF q
<1>2. 1 .. Len(q) = {1, 2, 3} /\ 1 + 1 .. Len(q) = {2, 3} /\ 2 + 1 .. Len(q) = {3} /\ 3 + 1 .. Len(q) = {}
  BY <1>1
<1>3. ASSUME NEW f, NEW r, c.f = f, c.at = r PROVE Sets(q, f, r, c.v)
  BY <1>1, <1>2, <1>3 DEF Sets
<1>4. ASSUME NEW f, NEW r, b.f = f, b.at = r, ~Touches(c, f, r) PROVE Sets(q, f, r, b.v)
  BY <1>1, <1>2, <1>4 DEF Sets
<1>5. ASSUME NEW f, NEW r, a.f = f, a.at = r, ~Touches(b, f, r), ~Touches(c, f, r) PROVE Sets(q, f, r, a.v)
  BY <1>1, <1>2, <1>5 DEF Sets
<1>6. ASSUME NEW f, NEW r, ~Touches(a, f, r), ~Touches(b, f, r), ~Touches(c, f, r) PROVE Spares(q, f, r)
  BY <1>1, <1>2, <1>6 DEF Spares
<1> QED BY <1>3, <1>4, <1>5, <1>6 DEF q

\* A command of the domain that will leave it as it has to be
LEMMA DomainCommand ==
    ASSUME SessionTypes, SessionTypes', DomainBody, FlashKept, op = S!Idle, UNCHANGED flash, hist'.part = hist.part,
           cache'.pin = cache.pin, cache'.mkek = cache.mkek, cache'.key = cache.key,
           ram'.ses = ram.ses, ram'.mask = ram.mask, Untouched(op'.todo),
           op'.pc = "write", op'.cmd = "import", op'.then \in {"idle", "kcv"}, op'.next = "idle",
           NEW n \in Nat, NEW h \in Nat, NEW d \in Domains,
           Ends(cache', op'.todo, "need", None, n), Ends(cache', op'.todo, "have", None, h), Ends(cache', op'.todo, "dkek", None, d),
           DomainKept(n, h, d, Given', ram'.pending), ram'.pending => n = h /\ ~Login
    PROVE  DomainBody' /\ FlashKept'
<1>1. op.cmd # "initialize" /\ CountsSpared
  BY SessionNumbers DEF S!Idle, CountsSpared, Spares
<1>2. BothOpen(cache) /\ \A r \in S!Refs : Accepts(cache, ram.ses, r)
  BY <1>1, DomainResting
<1>3. BothOpen(cache')
  BY <1>2 DEF BothOpen
<1>4. Steady(op')
  BY DEF Steady, Sharing, Disturbing
<1>5. SessionsFit'
  <2>1. ASSUME NEW r \in S!Refs, ram'.ses[r] # None PROVE Ends(cache', op'.todo, "pin", r, Accepted(ram'.ses[r]))
    <3>1. cache.pin[r] = Accepted(ram'.ses[r])
      BY <1>2, <2>1 DEF Accepts
    <3>2. Value(cache', "pin", r) = cache.pin[r] /\ Spares(op'.todo, "pin", r)
      BY SessionNumbers DEF Value, Untouched
    <3> QED BY <3>1, <3>2 DEF Ends
  <2> QED BY <2>1 DEF SessionsFit
<1>6. SessionsKept'
  BY <1>5 DEF SessionsKept, DomainBody, Login
<1>7. DomainEnds'
  BY DEF DomainEnds
<1>8. FlashKept'
  BY DEF FlashKept
<1> QED BY <1>3, <1>4, <1>6, <1>7, <1>8 DEF DomainBody, Disturbing

\* An idle card of the kind: nobody is logged in while a key waits.
LEMMA DomainIdle ==
    ASSUME SessionTypes, DomainBody, op = S!Idle
    PROVE  /\ KeptIn(cache, ram.pending) /\ (ram.pending => cache.need = cache.have /\ ~Login)
           /\ S!Loads(cache, ram) <=> Login
<1>1. op.cmd # "initialize" /\ CountsSpared /\ op.pc = "idle" /\ Given = cache.given
  BY SessionNumbers DEF S!Idle, CountsSpared, Spares, Given, Sharing
<1>2. /\ DomainKept(cache.need, cache.have, cache.dkek, Given, ram.pending)
      /\ ram.pending => cache.need = cache.have
      /\ BothOpen(cache) /\ \A r \in S!Refs : Accepts(cache, ram.ses, r)
  BY <1>1, DomainResting
<1>3. ~ram.mask /\ (ram.pending => ~Login)
  BY <1>1 DEF DomainBody, SessionsKept
<1> QED BY <1>1, <1>2, <1>3, DomainLoads DEF KeptIn

\* A share
LEMMA DomainImport ==
    ASSUME SessionTypes, SessionTypes', DomainBody, FlashKept, NEW s \in Shares, S!ImportShare(s) PROVE DomainBody' /\ FlashKept'
<1> DEFINE d == S!Imported(cache.dkek, s)
           e == S!SavedDkek(d)
           P == PutKey(d)
           R == PutKey(e)
           N == PutCount
           g == S!Xor(cache.given, {s})
           n == cache.need
           h == cache.have
<1>0. /\ op = S!Idle /\ S!Counted /\ UNCHANGED <<cache, flash>> /\ h # n
      /\ ram'.ses = ram.ses /\ ram'.mask = ram.mask
      /\ op'.pc = "write" /\ op'.cmd = "import" /\ op'.next = "idle"
      /\ \/ S!IsLast(cache) /\ Login /\ ~S!Loads(cache, ram)
         \/ /\ S!IsLast(cache) /\ Login /\ ram'.pending = ram.pending
            /\ op'.todo = <<P, R, N>> /\ op'.then = "kcv" /\ op'.share = {s}
         \/ /\ ~(S!IsLast(cache) /\ Login) /\ ram'.pending = (ram.pending \/ (S!IsLast(cache) /\ ~Login))
            /\ op'.todo = <<P, N>> /\ op'.then = "kcv" /\ op'.share = {s}
  BY ImportShape
<1>1. KeptIn(cache, ram.pending) /\ ~ram.pending /\ (Login => S!Loads(cache, ram))
  BY <1>0, DomainIdle
<1>2. n \in Nat /\ h \in Nat /\ cache.dkek \in Domains /\ cache.given \subseteq Shares
  BY DEF SessionTypes, Files
<1>3. d \in Domains /\ e \in Domains /\ d.kind = "raw" /\ e.kind = "wrapped" /\ e.ok = d.ok /\ e.xor = d.xor
  BY <1>2 DEF S!Imported, S!SavedDkek, Domains, S!Xor
<1>4. h + 1 <= n /\ 0 < n /\ (S!IsLast(cache) <=> h + 1 = n)
  BY <1>0, <1>1, <1>2 DEF KeptIn, DomainKept, S!IsLast
<1>5. n = S!Unset \/ (d.ok /\ d.xor = g)
  BY <1>0, <1>1, <1>2 DEF KeptIn, DomainKept, S!Imported, S!Xor
<1>6. P.f = "dkek" /\ P.at = None /\ P.v = d /\ R.f = "dkek" /\ R.at = None /\ R.v = e /\ N.f = "have" /\ N.at = None /\ N.v = h + 1
  BY DEF S!Put, PutKey, PutCount
<1>7. hist'.part = hist.part
  BY <1>0, QuietHistory
<1>8. Value(cache, "need", None) = n /\ h + 1 \in Nat
  BY <1>2 DEF Value
<1> HIDE DEF d, e, P, R, N, g, n, h
<1>9. CASE S!IsLast(cache) /\ Login /\ ram'.pending = ram.pending /\ op'.todo = <<P, R, N>> /\ op'.then = "kcv" /\ op'.share = {s}
  <2>1. Ends(cache, op'.todo, "have", None, h + 1) /\ Ends(cache, op'.todo, "dkek", None, e) /\ Ends(cache, op'.todo, "need", None, n)
    BY <1>6, <1>8, <1>9, TripleSets DEF Ends, Touches
  <2>2. Untouched(op'.todo)
    BY <1>6, <1>9, TripleSets DEF Untouched, Touches
  <2>3. Given' = g
    BY <1>0, <1>9 DEF Given, Sharing, g
  <2>4. DomainKept(n, h + 1, e, g, ram'.pending)
    BY <1>2, <1>3, <1>4, <1>5, <1>8, <1>9 DEF DomainKept
  <2> QED BY <1>0, <1>1, <1>2, <1>3, <1>7, <1>8, <1>9, <2>1, <2>2, <2>3, <2>4, DomainCommand DEF n
<1>10. CASE /\ ~(S!IsLast(cache) /\ Login) /\ ram'.pending = (ram.pending \/ (S!IsLast(cache) /\ ~Login))
            /\ op'.todo = <<P, N>> /\ op'.then = "kcv" /\ op'.share = {s}
  <2>1. Ends(cache, op'.todo, "have", None, h + 1) /\ Ends(cache, op'.todo, "dkek", None, d) /\ Ends(cache, op'.todo, "need", None, n)
    BY <1>6, <1>8, <1>10, PairSets DEF Ends, Touches
  <2>2. Untouched(op'.todo)
    BY <1>6, <1>10, PairSets DEF Untouched, Touches
  <2>3. Given' = g
    BY <1>0, <1>10 DEF Given, Sharing, g
  <2>4. ram'.pending <=> h + 1 = n
    BY <1>1, <1>4, <1>10
  <2>5. DomainKept(n, h + 1, d, g, ram'.pending)
    BY <1>2, <1>3, <1>4, <1>5, <1>8, <2>4 DEF DomainKept, n, h
  <2>6. ram'.pending => n = h + 1 /\ ~Login
    BY <1>1, <1>10, <2>4
  <2> QED BY <1>0, <1>2, <1>3, <1>7, <1>8, <1>10, <2>1, <2>2, <2>3, <2>5, <2>6, DomainCommand DEF n
<1> QED BY <1>0, <1>1, <1>9, <1>10

\* The key check value of a key that waits is not looked for: nobody is logged in.
LEMMA DomainCheckValue ==
    ASSUME SessionTypes, SessionTypes', DomainBody, FlashKept, S!DomainKcv \/ S!DomainQuery PROVE DomainBody' /\ FlashKept'
<1>1. op.pc \in {"idle", "kcv"} /\ op.todo = <<>> /\ Steady(op)
  BY DEF S!DomainKcv, S!DomainQuery, S!DomainHost, S!Idle, SessionTypes, Shaped, DomainBody
<1>2. op.cmd # "initialize" /\ CountsSpared
  BY <1>1 DEF Steady, CountsSpared, Spares
<1>3. /\ DomainKept(cache.need, cache.have, cache.dkek, Given, ram.pending)
      /\ ram.pending => cache.need = cache.have
      /\ BothOpen(cache) /\ \A r \in S!Refs : Accepts(cache, ram.ses, r)
  BY <1>2, DomainResting
<1>4. ~ram.mask /\ (ram.pending => ~Login) /\ (S!Loads(cache, ram) => Login)
  <2>1. ~ram.mask /\ (ram.pending => ~Login)
    BY <1>1 DEF DomainBody, SessionsKept
  <2> QED BY <1>3, <2>1, DomainLoads
<1>5. ~S!KcvGarbles(cache)
  <2>1. cache.need \in Nat /\ cache.have \in Nat
    BY DEF SessionTypes, Files
  <2> QED BY <1>3, <1>4, <2>1 DEF S!KcvGarbles, DomainKept
<1>6. S!DomainKcv /\ op' = S!Idle /\ op.pc = "kcv"
  BY <1>5, KcvShape DEF S!DomainKcv, S!DomainQuery
<1>7. /\ cache' = [cache EXCEPT !.given = S!Xor(cache.given, op.share)] /\ UNCHANGED <<flash, ram, hist>>
      /\ Given = S!Xor(cache.given, op.share)
  BY <1>6 DEF S!DomainKcv, Given, Sharing
<1>8. /\ cache'.pin = cache.pin /\ cache'.mkek = cache.mkek /\ cache'.key = cache.key /\ cache'.need = cache.need
      /\ cache'.have = cache.have /\ cache'.dkek = cache.dkek /\ cache'.given = Given
  BY <1>7 DEF SessionTypes, Files
<1>9. op'.pc = "idle" /\ op'.then = "idle" /\ op'.next = "idle" /\ op'.cmd = None /\ op'.todo = <<>>
  BY <1>6 DEF S!Idle
<1>10. Steady(op') /\ op'.cmd # "initialize" /\ Given' = Given
  BY <1>8, <1>9, SessionNumbers DEF Steady, Sharing, Disturbing, Given
<1>11. Untouched(op'.todo) /\ CountsSpared'
  BY <1>9 DEF Untouched, CountsSpared, Spares
<1>12. SessionsKept'
  <2>1. \A r \in S!Refs : Value(cache', "pin", r) = cache.pin[r]
    BY <1>8, SessionNumbers DEF Value
  <2>2. SessionsFit'
    BY <1>3, <1>7, <1>9, <2>1, EndsNow DEF SessionsFit, Accepts
  <2> QED BY <1>4, <1>7, <1>9, <2>2 DEF SessionsKept, Login
<1>13. DomainEnds'
  <2>1. cache.need \in Nat /\ cache.have \in Nat /\ cache.dkek \in Domains
    BY DEF SessionTypes, Files
  <2>2. /\ Ends(cache', <<>>, "need", None, cache.need) /\ Ends(cache', <<>>, "have", None, cache.have)
        /\ Ends(cache', <<>>, "dkek", None, cache.dkek)
    BY <1>8, EndsNow DEF Value
  <2> QED BY <1>3, <1>7, <1>9, <1>10, <2>1, <2>2 DEF DomainEnds
<1>14. BothOpen(cache')
  BY <1>3, <1>8 DEF BothOpen
<1>15. FlashKept'
  BY <1>7 DEF FlashKept
<1> QED BY <1>10, <1>11, <1>12, <1>13, <1>14, <1>15 DEF DomainBody

\* A domain is set up, deleted or started again by who is logged in.
LEMMA DomainChanged ==
    ASSUME SessionTypes, SessionTypes', DomainBody, FlashKept, NEW need \in Nat, NEW have \in Nat, 0 < need, have <= need,
           need = S!Unset \/ have < need, S!DomainChange("import", need, have)
    PROVE  DomainBody' /\ FlashKept'
<1> DEFINE P == S!Put("need", None, need, TRUE)
           Q == S!Put("have", None, have, TRUE)
           R == S!Put("dkek", None, S!NoDkek, TRUE)
           q == <<P, Q, R>>
<1>1. /\ op = S!Idle /\ S!Counted /\ cache' = [cache EXCEPT !.given = {}] /\ UNCHANGED <<flash, ram>>
      /\ ram.ses["user"] # None /\ op' = S!Run("import", q, "idle")
  BY DEF S!DomainChange, S!DomainHost
<1>2. /\ P.f = "need" /\ P.at = None /\ P.v = need /\ Q.f = "have" /\ Q.at = None /\ Q.v = have
      /\ R.f = "dkek" /\ R.at = None /\ R.v = S!NoDkek
  BY DEF S!Put
<1>3. q # <<>>
  OBVIOUS
<1> HIDE DEF P, Q, R
<1>4. Ends(cache', q, "need", None, need) /\ Ends(cache', q, "have", None, have) /\ Ends(cache', q, "dkek", None, S!NoDkek)
  BY <1>2, TripleSets DEF Ends, Touches
<1>5. Untouched(q)
  BY <1>2, TripleSets DEF Untouched, Touches
<1> HIDE DEF q
<1>6. op'.pc = "write" /\ op'.cmd = "import" /\ op'.then = "idle" /\ op'.next = "idle" /\ op'.todo = q
  BY <1>1, <1>3 DEF S!Run, S!Idle
<1>7. cache'.pin = cache.pin /\ cache'.mkek = cache.mkek /\ cache'.key = cache.key /\ cache'.given = {} /\ hist'.part = hist.part
  BY <1>1, QuietHistory DEF SessionTypes, Files
<1>8. ~ram.pending
  <2>1. Login
    BY <1>1 DEF Login, S!Refs
  <2> QED BY <1>1, <2>1, DomainIdle
<1>9. S!NoDkek \in Domains /\ S!NoDkek.kind = "none"
  BY DEF S!NoDkek, Domains
<1>10. DomainKept(need, have, S!NoDkek, Given', ram'.pending)
  BY <1>6, <1>7, <1>9 DEF DomainKept, Given, Sharing
<1> QED BY <1>1, <1>4, <1>5, <1>6, <1>7, <1>8, <1>9, <1>10, DomainCommand

\* A list that writes no more than tries, or nothing
LEMMA TriesOnly ==
    ASSUME NEW q, \A i \in 1 .. Len(q) : q[i].f = "tries"
    PROVE  (\A f \in Counts : Spares(q, f, None)) /\ Untouched(q)
BY DEF Counts, Spares, Untouched, Touches

\* Selection of the applet, and a PIN that is compared
LEMMA DomainCheck ==
    ASSUME SessionTypes, SessionTypes', DomainBody, FlashKept, op = S!Idle, UNCHANGED <<cache, flash>>, hist'.part = hist.part,
           ram'.ses = [r \in S!Refs |-> None], ~ram'.mask, ram'.pending = ram.pending,
           op' = S!Idle \/ (/\ op'.cmd = "check" /\ op'.pc = "write" /\ op'.next = "idle" /\ op'.then \in {"idle", "checked"}
                            /\ \A i \in 1 .. Len(op'.todo) : op'.todo[i].f = "tries")
    PROVE  DomainBody' /\ FlashKept'
<1>1. op.cmd # "initialize" /\ CountsSpared /\ Given = cache.given
  BY SessionNumbers DEF S!Idle, CountsSpared, Spares, Given, Sharing
<1>2. KeptIn(cache, ram.pending)
  BY DomainIdle
<1>3. Steady(op') /\ op'.cmd \notin Disturbing /\ op'.pc # "granted" /\ \A i \in 1 .. Len(op'.todo) : op'.todo[i].f = "tries"
  <2>1. CASE op' = S!Idle
    BY <2>1, SessionNumbers DEF S!Idle, Steady, Sharing, Disturbing
  <2>2. CASE op' # S!Idle
    BY <2>2 DEF Steady, Sharing, Disturbing
  <2> QED BY <2>1, <2>2
<1>4. (\A f \in Counts : Spares(op'.todo, f, None)) /\ Untouched(op'.todo)
  BY <1>3, TriesOnly
<1>5. ~Login' /\ \A r \in S!Refs : ram'.ses[r] = None
  BY DEF Login
<1> QED BY <1>1, <1>2, <1>3, <1>4, <1>5, DomainAside DEF KeptIn

LEMMA DomainChecks ==
    ASSUME SessionTypes, SessionTypes', DomainBody, FlashKept,
           S!Select \/ \E r \in S!Refs : S!CheckWrong(r) \/ S!Verify(r)
    PROVE  DomainBody' /\ FlashKept'
<1>1. CASE S!Select
  <2>1. /\ op = S!Idle /\ UNCHANGED <<cache, flash, op>> /\ ram' = [S!Booted EXCEPT !.pending = ram.pending]
        /\ hist' = [hist EXCEPT !.answered = {}]
    BY <1>1 DEF S!Select
  <2>2. hist'.part = hist.part
    BY <2>1 DEF SessionTypes, Histories
  <2>3. ram'.ses = [r \in S!Refs |-> None] /\ ~ram'.mask /\ ram'.pending = ram.pending
    BY <2>1 DEF S!Booted
  <2> QED BY <2>1, <2>2, <2>3, DomainCheck
<1>2. ASSUME NEW r \in S!Refs, S!CheckWrong(r) \/ S!Verify(r) PROVE DomainBody' /\ FlashKept'
  <2> DEFINE v == S!Put("tries", r, cache.tries[r] - 1, TRUE)
             w == S!Put("tries", r, MaxTries, TRUE)
             V == <<v>>
             W == <<w>>
  <2>1. /\ op = S!Idle /\ UNCHANGED <<cache, flash>> /\ ram' = S!Closed(ram) /\ (S!Counted \/ UNCHANGED hist)
        /\ \/ op' = S!Run("check", V, "idle")
           \/ op' = S!Idle
           \/ op' = [S!Run("check", W, "checked") EXCEPT !.ref = r, !.next = "idle", !.new = None]
    BY <1>2 DEF S!CheckWrong, S!Verify, S!CheckRight
  <2>2. v.f = "tries" /\ w.f = "tries"
    BY DEF S!Put
  <2> HIDE DEF v, w
  <2>3. V # <<>> /\ W # <<>> /\ (\A i \in 1 .. Len(V) : V[i].f = "tries") /\ \A i \in 1 .. Len(W) : W[i].f = "tries"
    BY <2>2
  <2> HIDE DEF V, W
  <2>4. op' = S!Idle \/ (/\ op'.cmd = "check" /\ op'.pc = "write" /\ op'.next = "idle" /\ op'.then \in {"idle", "checked"}
                         /\ \A i \in 1 .. Len(op'.todo) : op'.todo[i].f = "tries")
    <3>1. CASE op' = S!Run("check", V, "idle")
      <4>1. op'.cmd = "check" /\ op'.pc = "write" /\ op'.next = "idle" /\ op'.then = "idle" /\ op'.todo = V
        BY <2>3, <3>1 DEF S!Run, S!Idle
      <4> QED BY <2>3, <4>1
    <3>2. CASE op' = [S!Run("check", W, "checked") EXCEPT !.ref = r, !.next = "idle", !.new = None]
      <4>1. op'.cmd = "check" /\ op'.pc = "write" /\ op'.next = "idle" /\ op'.then = "checked" /\ op'.todo = W
        BY <2>3, <3>2 DEF S!Run, S!Idle
      <4> QED BY <2>3, <4>1
    <3> QED BY <2>1, <3>1, <3>2
  <2>5. ram'.ses = [s \in S!Refs |-> None] /\ ram'.mask = ram.mask /\ ram'.pending = ram.pending
    BY <2>1, UpdatedTypes DEF SessionTypes
  <2>6. ~ram'.mask
    BY <2>5 DEF DomainBody, SessionsKept
  <2>7. hist'.part = hist.part
    BY <2>1, QuietHistory
  <2> QED BY <2>1, <2>4, <2>5, <2>6, <2>7, DomainCheck
<1> QED BY <1>1, <1>2

\* The PIN was right: a session, then access and what waited for it.
LEMMA DomainChecked ==
    ASSUME SessionTypes, SessionTypes', DomainBody, FlashKept, S!Checked PROVE DomainBody' /\ FlashKept'
<1> DEFINE r == op.ref
           v == cache.pin[r].v
           newS == [pin |-> v, kdf |-> "new"]
           newSes == [ram EXCEPT !.ses[r] = newS]
<1>0. /\ op.pc = "checked" /\ UNCHANGED <<cache, flash, hist>> /\ op.todo = <<>> /\ Steady(op) /\ op \in Ops /\ ram \in Ram
      /\ cache \in Files /\ r \in S!Refs
  BY DEF S!Checked, SessionTypes, Shaped, DomainBody, Ops
<1>1. /\ op.cmd \notin Disturbing /\ op.cmd # "initialize" /\ CountsSpared /\ Given = cache.given
      /\ \A f \in Counts : Spares(<<>>, f, None)
  BY <1>0 DEF Steady, Disturbing, CountsSpared, Spares, Given, Sharing
<1>2. /\ DomainKept(cache.need, cache.have, cache.dkek, Given, ram.pending)
      /\ BothOpen(cache) /\ \A s \in S!Refs : Accepts(cache, ram.ses, s)
  BY <1>1, DomainResting
<1>3. ~cache.pin[r].old
  BY <1>0, <1>2 DEF BothOpen, Newest
<1>4. ram' = newSes /\ op' = [op EXCEPT !.pc = "granted"]
  BY <1>3 DEF S!Checked
<1>5. op'.pc = "granted" /\ op'.then = op.then /\ op'.next = op.next /\ op'.cmd = op.cmd /\ op'.todo = <<>>
  BY <1>0, <1>4 DEF Ops
<1>6. /\ ram'.ses[r] = newS /\ (\A s \in S!Refs \ {r} : ram'.ses[s] = ram.ses[s])
      /\ ram'.mask = ram.mask /\ ram'.pending = ram.pending
  BY <1>0, <1>4 DEF Ram
<1>7. Steady(op') /\ Untouched(op'.todo) /\ ~ram'.mask
  BY <1>0, <1>1, <1>5, <1>6 DEF Steady, Sharing, Untouched, Spares, DomainBody, SessionsKept
<1>8. Accepts(cache, ram'.ses, r)
  <2>1. cache.pin[r] = [v |-> v, old |-> FALSE]
    BY <1>0, <1>3 DEF Files
  <2>2. Accepted(newS) = [v |-> v, old |-> FALSE]
    BY DEF Accepted
  <2> QED BY <1>6, <2>1, <2>2 DEF Accepts
<1>9. Login' /\ op'.cmd \notin Disturbing
  <2>1. newS \in S!Sessions
    <3>1. v \in Pins
      BY <1>0 DEF Files
    <3> QED BY <3>1 DEF S!Sessions
  <2>2. newS # None
    BY <2>1, SessionNumbers
  <2> QED BY <1>0, <1>1, <1>5, <1>6, <2>2 DEF Login
<1> HIDE DEF r, newS
<1>10. \A s \in S!Refs : ram'.ses[s] \in {None, ram.ses[s]} \/ Accepts(cache, ram'.ses, s)
  BY <1>6, <1>8
<1> QED BY <1>0, <1>1, <1>2, <1>5, <1>6, <1>7, <1>9, <1>10, DomainAside

LEMMA DomainGranted ==
    ASSUME SessionTypes, SessionTypes', DomainBody, FlashKept, S!Granted PROVE DomainBody' /\ FlashKept'
<1> DEFINE d == S!SavedDkek(cache.dkek)
           w == S!Put("dkek", None, d, FALSE)
           m == [ram EXCEPT !.user = ram.user \/ ~cache.pka]
           q == <<w>>
<1>0. /\ op.pc = "granted" /\ UNCHANGED <<cache, flash, hist>> /\ op.todo = <<>> /\ Steady(op) /\ op \in Ops /\ ram \in Ram
      /\ cache \in Files /\ ~ram.mask /\ Login
  BY DEF S!Granted, SessionTypes, Shaped, DomainBody, SessionsKept
<1>1. /\ ram' = [S!Updated(m) EXCEPT !.pending = FALSE]
      /\ op' = IF ram.pending /\ S!Loads(cache, ram) /\ cache.dkek.kind # "none"
               THEN [op EXCEPT !.pc = "write", !.cmd = "pending", !.then = "idle", !.todo = q] ELSE S!Idle
  BY <1>0 DEF S!Granted, Steady
<1>2. /\ op.cmd \notin Disturbing /\ op.cmd # "initialize" /\ CountsSpared /\ Given = cache.given
      /\ \A f \in Counts : Spares(<<>>, f, None)
  BY <1>0 DEF Steady, Disturbing, CountsSpared, Spares, Given, Sharing
<1>3. /\ DomainKept(cache.need, cache.have, cache.dkek, cache.given, ram.pending)
      /\ ram.pending => cache.need = cache.have
      /\ BothOpen(cache) /\ \A s \in S!Refs : Accepts(cache, ram.ses, s)
  BY <1>2, DomainResting
<1>4. S!Loads(cache, ram)
  BY <1>0, <1>3, DomainLoads
<1>5. m \in Ram /\ m.ses = ram.ses /\ m.mask = ram.mask
  <2>1. (ram.user \/ ~cache.pka) \in BOOLEAN
    BY <1>0 DEF Ram, Files
  <2> QED BY <1>0, <2>1 DEF Ram
<1> HIDE DEF m
<1>6. ram'.ses = ram.ses /\ ram'.mask = ram.mask /\ ram'.pending = FALSE
  <2>1. S!Updated(m) \in Ram /\ S!Updated(m).ses = m.ses /\ S!Updated(m).mask = m.mask
    BY <1>5, UpdatedTypes
  <2> QED BY <1>1, <1>5, <2>1 DEF Ram
<1>7. CASE ~(ram.pending /\ cache.dkek.kind # "none")
  <2>1. op' = S!Idle
    BY <1>1, <1>7
  <2>2. op'.pc = "idle" /\ op'.then = "idle" /\ op'.next = "idle" /\ op'.cmd = None /\ op'.todo = <<>>
    BY <2>1 DEF S!Idle
  <2>3. Steady(op') /\ op'.cmd \notin Disturbing /\ Untouched(op'.todo)
    BY <2>2, SessionNumbers DEF Steady, Sharing, Disturbing, Untouched, Spares
  <2>4. DomainKept(cache.need, cache.have, cache.dkek, Given, ram'.pending)
    <3>1. cache.need \in Nat /\ cache.have \in Nat
      BY <1>0 DEF Files
    <3> QED BY <1>2, <1>3, <1>7, <3>1 DEF DomainKept
  <2> QED BY <1>0, <1>2, <1>6, <2>2, <2>3, <2>4, DomainAside
<1>8. CASE ram.pending /\ cache.dkek.kind # "none"
  <2>1. w \in Writes /\ w.f = "dkek" /\ w.at = None /\ w.v = d /\ d \in Domains
    <3>1. d \in Domains
      BY <1>0 DEF Files, Domains, S!SavedDkek
    <3> QED BY <3>1, PutTypes DEF S!Put
  <2>2. d.kind = "wrapped" /\ d.ok = cache.dkek.ok /\ d.xor = cache.dkek.xor
    BY <1>0 DEF Files, Domains, S!SavedDkek
  <2> HIDE DEF w, d
  <2>3. Sets(q, "dkek", None, d) /\ Spares(q, "need", None) /\ Spares(q, "have", None) /\ Untouched(q)
    BY <2>1, OneTaken DEF Touches, Untouched
  <2> HIDE DEF q
  <2>4. op'.pc = "write" /\ op'.cmd = "pending" /\ op'.then = "idle" /\ op'.next = "idle" /\ op'.todo = q
    <3>1. op' = [op EXCEPT !.pc = "write", !.cmd = "pending", !.then = "idle", !.todo = q]
      BY <1>1, <1>4, <1>8
    <3> QED BY <1>0, <3>1 DEF Ops, Steady
  <2>5. Steady(op') /\ op'.cmd \in Disturbing /\ op'.cmd # "initialize"
    BY <2>4 DEF Steady, Sharing, Disturbing
  <2>6. SessionsKept'
    <3>1. \A r \in S!Refs : Spares(q, "pin", r) /\ Value(cache, "pin", r) = cache.pin[r]
      BY <2>3, SessionNumbers DEF Untouched, Value
    <3>2. SessionsFit'
      BY <1>0, <1>3, <1>6, <2>4, <3>1 DEF SessionsFit, Accepts, Ends
    <3> QED BY <1>0, <1>6, <2>4, <3>2 DEF SessionsKept
  <2>7. DomainEnds'
    <3>1. cache.need \in Nat /\ cache.have \in Nat
      BY <1>0 DEF Files
    <3>2. Ends(cache, q, "need", None, cache.need) /\ Ends(cache, q, "have", None, cache.have) /\ Ends(cache, q, "dkek", None, d)
      BY <2>3 DEF Ends, Value
    <3>3. Given' = cache.given
      BY <1>0, <2>4 DEF Given, Sharing
    <3>4. DomainKept(cache.need, cache.have, d, cache.given, FALSE)
      BY <1>3, <1>8, <2>2, <3>1 DEF DomainKept
    <3> QED BY <1>0, <1>6, <2>1, <2>4, <3>1, <3>2, <3>3, <3>4 DEF DomainEnds
  <2>8. BothOpen(cache') /\ Untouched(op'.todo) /\ FlashKept'
    BY <1>0, <1>3, <2>3, <2>4 DEF FlashKept
  <2> QED BY <2>5, <2>6, <2>7, <2>8 DEF DomainBody
<1> QED BY <1>7, <1>8

\* Lists that leave a domain without a share
LEMMA PlainStore ==
    ASSUME NEW ses \in [S!Refs -> MaySession], NEW key \in Nat PROVE Plain(S!StoreMkek(ses, key)) /\ S!StoreMkek(ses, key) \in Seq(Writes)
BY StoreTaken, StoreTypes DEF Plain

LEMMA PlainOne == ASSUME NEW w, w.f \notin {"need", "have"} PROVE Plain(<<w>>)
<1>1. Len(<<w>>) = 1 /\ <<w>>[1] = w
  OBVIOUS
<1> QED BY <1>1 DEF Plain, Taken

LEMMA PlainNone == Plain(<<>>)
BY NoneTaken DEF Plain

\* The verifier with the copies before it
LEMMA PlainRewrite ==
    ASSUME NEW a \in Seq(Writes), Plain(a), NEW ses \in [S!Refs -> MaySession], NEW key \in Nat,
           NEW r \in S!Refs, NEW v \in Pins, NEW must \in BOOLEAN, NEW p, p = S!Put("pin", r, [v |-> v, old |-> FALSE], must)
    PROVE  Plain(a \o S!StoreMkek(ses, key) \o <<p>>)
<1>1. p \in Writes /\ p.f = "pin"
  <2>1. [v |-> v, old |-> FALSE] \in [v : Pins, old : BOOLEAN]
    OBVIOUS
  <2> QED BY <2>1, PutTypes DEF S!Put
<1>2. <<p>> \in Seq(Writes) /\ Plain(<<p>>)
  BY <1>1, OneTaken, PlainOne
<1> DEFINE b == S!StoreMkek(ses, key)
<1>3. b \in Seq(Writes) /\ Plain(b)
  BY PlainStore
<1> HIDE DEF b
<1>4. a \o b \in Seq(Writes) /\ Plain(a \o b)
  BY <1>3, JoinedLists, PlainLists
<1> QED BY <1>2, <1>4, PlainLists DEF b

\* On such a card no step starts a domain.
LEMMA SharelessNext ==
    ASSUME SessionTypes, SessionTypes', SharelessInv, hist.host # "domain", S!Next PROVE SharelessInv'
<1>0. /\ cache \in Files /\ flash \in Files /\ ram \in Ram /\ op \in Ops /\ op.todo \in Seq(Writes) /\ (op.pc = "write" => op.todo # <<>>)
      /\ op.new \in Pins \cup {None} /\ op.ref \in S!Refs /\ "user" \in S!Refs
      /\ Shareless(cache) /\ Shareless(flash) /\ Plain(op.todo)
  BY DEF SessionTypes, SharelessInv, Shaped, Ops, S!Refs
<1> SUFFICES Shareless(cache') /\ Shareless(flash') /\ Plain(op'.todo)
  BY DEF SharelessInv
<1>1. op.pc = "write" => Plain(Tail(op.todo))
  <2> SUFFICES ASSUME op.pc = "write" PROVE Plain(Tail(op.todo))
    OBVIOUS
  <2>1. Len(op.todo) \in Nat \ {0} /\ Len(Tail(op.todo)) = Len(op.todo) - 1 /\ \A i \in 1 .. Len(op.todo) - 1 : Tail(op.todo)[i] = op.todo[i + 1]
    BY <1>0, RestOf
  <2>2. ASSUME NEW i \in 1 .. Len(Tail(op.todo)) PROVE Tail(op.todo)[i] \in Taken(op.todo)
    <3>1. i + 1 \in 1 .. Len(op.todo) /\ Tail(op.todo)[i] = op.todo[i + 1]
      BY <2>1
    <3> QED BY <3>1 DEF Taken
  <2> QED BY <1>0, <2>2 DEF Plain, Taken
<1>2. op.pc = "write" => Plain(S!Rest.todo)
  <2>1. S!Rest.todo \in {Tail(op.todo), <<>>}
    BY <1>0 DEF S!Rest, S!Idle, Ops
  <2> QED BY <1>1, <2>1, PlainNone
<1>3. Plain(S!Idle.todo)
  BY PlainNone DEF S!Idle
<1>4. \A q, name, then : S!Run(name, q, then).todo = q
  BY DEF S!Run, S!Idle
<1>5. CASE S!Write
  <2> DEFINE w == Head(op.todo)
  <2>1. op.pc = "write" /\ cache' = S!Applied(cache, w) /\ UNCHANGED flash /\ op' = S!Rest
    BY <1>5 DEF S!Write
  <2>2. w \in Writes /\ w \in Taken(op.todo)
    <3>1. w \in Writes /\ w = op.todo[1] /\ 1 \in 1 .. Len(op.todo)
      BY <1>0, <2>1, RestOf
    <3> QED BY <3>1 DEF Taken
  <2> HIDE DEF w
  <2>3. Place("need", None) /\ Place("have", None) /\ (w.f \in {"need", "have"} => w.at = None)
    BY <2>2 DEF Place, Writes
  <2>4. ASSUME NEW f \in {"need", "have"}
        PROVE  IF w.f = f THEN Value(S!Applied(cache, w), f, None) = w.v ELSE Value(S!Applied(cache, w), f, None) = Value(cache, f, None)
    BY <1>0, <2>2, <2>3, AppliedAt DEF Touches
  <2>5. (w.f = "need" => w.v = Dkeks) /\ (w.f = "have" => w.v = 0)
    BY <1>0, <2>2 DEF Plain
  <2>6. Shareless(S!Applied(cache, w))
    BY <1>0, <2>4, <2>5 DEF Value, Shareless
  <2> QED BY <1>0, <1>2, <2>1, <2>6
<1>6. CASE S!Fault
  <2>1. /\ op.pc = "write" /\ UNCHANGED <<cache, flash>> /\ S!TakenBack.f = "dkek"
        /\ op' = S!Idle \/ op' = S!Rest \/ op'.todo = <<S!TakenBack>>
    BY <1>6, FaultEnds DEF S!Fault
  <2>2. op'.todo = <<S!TakenBack>> => Plain(op'.todo)
    BY <2>1 DEF Plain, Taken
  <2> QED BY <1>0, <1>2, <1>3, <2>1, <2>2
<1>7. CASE S!Drain \/ S!PowerLoss
  BY <1>0, <1>3, <1>7 DEF S!Drain, S!PowerLoss
<1>8. ASSUME NEW v \in Pins, NEW w \in Pins, S!Initialize(v, w) PROVE Shareless(cache') /\ Shareless(flash') /\ Plain(op'.todo)
  <2> DEFINE key == IF S!Loads(cache, ram) THEN S!LoadedKey(cache, ram) ELSE hist.keys + 1
             q == S!InitializeWrites(v, w, key)
  <2>1. key \in Nat
    BY <1>0, LoadedTypes DEF SessionTypes, Histories
  <2>2. cache' = [cache EXCEPT !.given = {}] /\ UNCHANGED flash /\ op' = [S!Run("initialize", q, "initialized") EXCEPT !.key = key]
    BY <1>8 DEF S!Initialize
  <2> HIDE DEF key
  <2>3. Plain(q)
    BY <2>1, InitializeTaken
  <2> HIDE DEF q
  <2>4. op'.todo = q
    BY <2>2 DEF S!Run, S!Idle
  <2> QED BY <1>0, <2>2, <2>3, <2>4 DEF Shareless, Files
<1>9. CASE S!Initialized
  <2>1. cache' = [cache EXCEPT !.key = op.key] /\ UNCHANGED flash /\ op' = S!Idle
    BY <1>9 DEF S!Initialized
  <2> QED BY <1>0, <1>3, <2>1 DEF Shareless, Files
<1>10. S!Select \/ S!GetChallenge \/ S!GiveMask \/ (\E p : S!MseSet(p)) \/ (\E right : S!ExternalAuthenticate(right))
         => UNCHANGED <<cache, flash, op>>
  BY DEF S!Select, S!GetChallenge, S!GiveMask, S!MseSet, S!ExternalAuthenticate
<1>11. ASSUME NEW w, w.f \notin {"need", "have"}, NEW name, NEW then PROVE Plain(S!Run(name, <<w>>, then).todo)
  BY <1>4, <1>11, PlainOne
<1>12. ASSUME NEW r, NEW next, NEW new, S!CheckWrong(r) \/ S!CheckRight(r, next, new)
       PROVE  UNCHANGED <<cache, flash>> /\ Plain(op'.todo)
  <2> DEFINE v == S!Put("tries", r, cache.tries[r] - 1, TRUE)
             w == S!Put("tries", r, MaxTries, TRUE)
             V == <<v>>
             W == <<w>>
  <2>1. /\ UNCHANGED <<cache, flash>>
        /\ \/ op' = S!Run("check", V, "idle")
           \/ op' = S!Idle
           \/ op' = [S!Run("check", W, "checked") EXCEPT !.ref = r, !.next = next, !.new = new]
    BY <1>12 DEF S!CheckWrong, S!CheckRight
  <2>2. v.f = "tries" /\ w.f = "tries"
    BY DEF S!Put
  <2> HIDE DEF v, w
  <2>3. Plain(V) /\ Plain(W)
    BY <2>2, PlainOne
  <2> HIDE DEF V, W
  <2>4. /\ S!Run("check", V, "idle").todo = V
        /\ S!Idle.todo = <<>>
        /\ [S!Run("check", W, "checked") EXCEPT !.ref = r, !.next = next, !.new = new].todo = W
    BY DEF S!Run, S!Idle
  <2> QED BY <2>1, <2>3, <2>4, PlainNone
<1>13. \A r, new : S!Verify(r) \/ S!ChangePin(r, new) \/ S!ResetRetry(new) => \E x, next, m : S!CheckRight(x, next, m)
  BY DEF S!Verify, S!ChangePin, S!ResetRetry
<1>14. ASSUME NEW new, S!ResetRetrySession(new) PROVE UNCHANGED <<cache, flash>> /\ Plain(op'.todo)
  <2>1. op'.todo = <<>> /\ UNCHANGED <<cache, flash>>
    BY <1>14 DEF S!ResetRetrySession, S!Idle
  <2> QED BY <2>1, PlainNone
<1>15. ASSUME NEW p, S!PukAuth(p) PROVE UNCHANGED <<cache, flash>> /\ Plain(op'.todo)
  <2> DEFINE w == S!Put("puks", p, 1 + (cache.puks[p] % 2), FALSE)
  <2>1. w.f = "puks" /\ UNCHANGED <<cache, flash>> /\ op' = S!Run("puk", <<w>>, "idle")
    BY <1>15 DEF S!PukAuth, S!Put
  <2> HIDE DEF w
  <2> QED BY <1>11, <2>1
<1>16. CASE S!Checked
  <2> DEFINE r == op.ref
             v == cache.pin[r].v
             oldS == [pin |-> v, kdf |-> "old"]
             newS == [pin |-> v, kdf |-> "new"]
             oldSes == [ram EXCEPT !.ses[r] = oldS]
             newSes == [ram EXCEPT !.ses[r] = newS]
             key == S!LoadedKey(cache, oldSes)
             a == IF cache.mkek[r].legacy THEN S!StoreMkek(oldSes.ses, key) ELSE <<>>
             p == S!Put("pin", r, [v |-> v, old |-> FALSE], TRUE)
             todo == a \o S!StoreMkek(newSes.ses, key) \o <<p>>
  <2>1. /\ UNCHANGED <<cache, flash>> /\ op.pc = "checked"
        /\ op' \in {[op EXCEPT !.pc = "granted"], S!Idle, [op EXCEPT !.pc = "write", !.cmd = "upgrade", !.then = "granted", !.todo = todo]}
    BY <1>16 DEF S!Checked
  <2>2. v \in Pins
    BY <1>0 DEF Files
  <2>3. oldSes.ses \in [S!Refs -> MaySession] /\ newSes.ses \in [S!Refs -> MaySession] /\ key \in Nat
    <3>1. oldS \in MaySession /\ newS \in MaySession
      BY <2>2 DEF S!Sessions, MaySession
    <3> HIDE DEF oldS, newS, r
    <3>2. oldSes.ses \in [S!Refs -> MaySession] /\ newSes.ses \in [S!Refs -> MaySession]
      BY <1>0, <3>1 DEF Ram
    <3> QED BY <1>0, <3>2, LoadedTypes
  <2> HIDE DEF oldSes, newSes, key
  <2>4. a \in Seq(Writes) /\ Plain(a)
    BY <2>3, PlainStore, PlainNone, NoneTaken
  <2> HIDE DEF a, v
  <2>5. Plain(todo)
    BY <1>0, <2>2, <2>3, <2>4, PlainRewrite
  <2> HIDE DEF todo
  <2>6. op'.todo \in {op.todo, S!Idle.todo, todo}
    BY <1>0, <2>1 DEF Ops
  <2> QED BY <1>0, <1>3, <2>1, <2>5, <2>6
<1>17. CASE S!Granted
  <2> DEFINE w == S!Put("dkek", None, S!SavedDkek(cache.dkek), FALSE)
             q == <<w>>
  <2>1. /\ UNCHANGED <<cache, flash>>
        /\ op' \in {S!Idle, [op EXCEPT !.pc = op.next], [op EXCEPT !.pc = "write", !.cmd = "pending", !.then = op.next, !.todo = q]}
    BY <1>17 DEF S!Granted
  <2>2. w.f = "dkek"
    BY DEF S!Put
  <2> HIDE DEF w
  <2>3. Plain(q)
    BY <2>2, PlainOne
  <2> HIDE DEF q
  <2>4. op'.todo \in {S!Idle.todo, op.todo, q}
    BY <1>0, <2>1 DEF Ops
  <2> QED BY <1>0, <1>3, <2>1, <2>3, <2>4
<1> DEFINE full == S!Put("tries", "user", MaxTries, TRUE)
<1>18. full \in Writes /\ full.f = "tries"
  BY <1>0, SessionNumbers, PutTypes DEF S!Put
<1>19. ASSUME NEW r \in S!Refs, op.new \in Pins, NEW ses, ses = [ram.ses EXCEPT ![r] = [pin |-> op.new, kdf |-> "new"]],
              NEW key \in Nat
       PROVE  /\ Plain(S!Rewrap(ses, r, op.new, key)) /\ S!Rewrap(ses, r, op.new, key) \in Seq(Writes)
  <2> DEFINE s0 == [pin |-> op.new, kdf |-> "new"]
             b == S!StoreMkek(ses, key)
             p == S!Put("pin", r, [v |-> op.new, old |-> FALSE], FALSE)
  <2>1. s0 \in MaySession
    BY <1>19 DEF S!Sessions, MaySession
  <2> HIDE DEF s0
  <2>2. ses \in [S!Refs -> MaySession]
    BY <1>0, <1>19, <2>1 DEF Ram, s0
  <2>3. b \in Seq(Writes) /\ Plain(b)
    BY <1>19, <2>2, PlainStore
  <2>4. p \in Writes /\ p.f = "pin"
    <3>1. [v |-> op.new, old |-> FALSE] \in [v : Pins, old : BOOLEAN]
      BY <1>19
    <3> QED BY <1>19, <3>1, PutTypes DEF S!Put
  <2> HIDE DEF p
  <2>5. <<p>> \in Seq(Writes) /\ Plain(<<p>>)
    BY <2>4, OneTaken, PlainOne
  <2>6. S!Rewrap(ses, r, op.new, key) = b \o <<p>>
    BY DEF S!Rewrap, p
  <2> HIDE DEF b
  <2> QED BY <2>3, <2>5, <2>6, PlainLists, JoinedLists
<1>20. CASE S!Change
  <2> DEFINE ses == [ram.ses EXCEPT ![op.ref] = [pin |-> op.new, kdf |-> "new"]]
             key == S!LoadedKey(cache, ram)
  <2>1. op.new \in Pins /\ key \in Nat
    BY <1>0, <1>20, LoadedTypes DEF S!Change, SessionTypes, Shaped
  <2>2. UNCHANGED <<cache, flash>> /\ (op' = S!Idle \/ op' = S!Run("change", S!Rewrap(ses, op.ref, op.new, key), "idle"))
    BY <1>20 DEF S!Change
  <2>3. Plain(S!Rewrap(ses, op.ref, op.new, key))
    BY <1>0, <1>19, <2>1
  <2> HIDE DEF ses, key
  <2> QED BY <1>0, <1>3, <1>4, <2>2, <2>3
<1>21. CASE S!Unblock
  <2> DEFINE ses == [ram.ses EXCEPT !["user"] = [pin |-> op.new, kdf |-> "new"]]
             key == S!LoadedKey(cache, ram)
             q == S!Rewrap(ses, "user", op.new, key)
  <2>1. key \in Nat
    BY <1>0, LoadedTypes
  <2>2. /\ UNCHANGED <<cache, flash>>
        /\ op' = S!Run("unblock", <<full>>, "idle") \/ (op.new # None /\ op' = S!Run("unblock", <<full>> \o q, "idle"))
    BY <1>21 DEF S!Unblock
  <2>3. <<full>> \in Seq(Writes) /\ Plain(<<full>>)
    BY <1>18, OneTaken, PlainOne
  <2>4. op.new # None => Plain(q) /\ q \in Seq(Writes)
    BY <1>0, <1>19, <2>1
  <2> HIDE DEF full, q
  <2>5. op.new # None => Plain(<<full>> \o q)
    BY <2>3, <2>4, PlainLists
  <2> QED BY <1>0, <1>4, <2>2, <2>3, <2>5
<1>22. S!DomainKcv => Shareless(cache') /\ Shareless(flash') /\ Plain(op'.todo)
  <2> SUFFICES ASSUME S!DomainKcv PROVE Shareless(cache') /\ Shareless(flash') /\ Plain(op'.todo)
    OBVIOUS
  <2>1. cache' = [cache EXCEPT !.given = S!Xor(@, op.share)] /\ UNCHANGED flash /\ op' = S!Kcv
    BY DEF S!DomainKcv
  <2>2. Plain(S!Kcv.todo)
    BY KcvShape DEF Plain
  <2> QED BY <1>0, <2>1, <2>2 DEF Shareless, Files
<1>13a. /\ \A s : ~S!ImportShare(s)
       /\ ~S!DomainQuery /\ ~S!DomainSetup /\ ~S!DomainDelete /\ ~S!DomainReset
  BY DEF S!ImportShare, S!DomainHost, S!DomainQuery, S!DomainSetup, S!DomainDelete, S!DomainReset, S!DomainChange
<1>24. ASSUME NEW on \in BOOLEAN, S!SecureLock(on) PROVE UNCHANGED <<cache, flash>> /\ Plain(op'.todo)
  <2> DEFINE u == [cache.mkek["user"] EXCEPT !.masked = ~@]
             s == [cache.mkek["so"] EXCEPT !.masked = ~@]
             U == S!Put("mkek", "user", u, FALSE)
             V == S!Put("mkek", "so", s, FALSE)
             L == S!Put("locked", None, on, FALSE)
             a == IF cache.locked = on THEN <<>> ELSE <<U, V>>
  <2>1. UNCHANGED <<cache, flash>> /\ op' = S!Run("lock", a \o <<L>>, "idle")
    BY <1>24 DEF S!SecureLock
  <2>2. U \in Writes /\ V \in Writes /\ L \in Writes /\ U.f = "mkek" /\ V.f = "mkek" /\ L.f = "locked"
    <3>0. ASSUME NEW c \in Copies PROVE [c EXCEPT !.masked = ~@] \in Copies
      <4>1. (~c.masked) \in BOOLEAN
        OBVIOUS
      <4> QED BY <4>1 DEF Copies
    <3>1. u \in Copies /\ s \in Copies /\ "so" \in S!Refs
      BY <1>0, <3>0 DEF Files, S!Refs
    <3> QED BY <1>0, <3>1, PutTypes DEF S!Put
  <2> HIDE DEF U, V, L
  <2>3. <<L>> \in Seq(Writes) /\ Plain(<<L>>)
    BY <2>2, OneTaken, PlainOne
  <2>4. <<U, V>> \in Seq(Writes) /\ Plain(<<U, V>>)
    <3> DEFINE q == <<U, V>>
    <3>1. q \in Seq(Writes) /\ Len(q) = 2 /\ q[1] = U /\ q[2] = V
      BY <2>2
    <3> HIDE DEF q
    <3>2. Plain(q)
      BY <2>2, <3>1 DEF Plain, Taken
    <3> QED BY <3>1, <3>2 DEF q
  <2>5. a \in Seq(Writes) /\ Plain(a)
    BY <2>4, PlainNone, NoneTaken
  <2> HIDE DEF a
  <2>6. Plain(a \o <<L>>)
    BY <2>3, <2>5, PlainLists
  <2> QED BY <1>4, <2>1, <2>6
<1>25. ASSUME UNCHANGED <<cache, flash>> PROVE Shareless(cache') /\ Shareless(flash')
  BY <1>0, <1>25
<1>26. \A new : (\E r \in S!Refs : S!CheckWrong(r) \/ S!Verify(r) \/ S!ChangePin(r, new)) \/ S!ResetRetry(new)
               => UNCHANGED <<cache, flash>> /\ Plain(op'.todo)
  BY <1>12, <1>13
<1> QED BY <1>0, <1>5, <1>6, <1>7, <1>8, <1>9, <1>10, <1>14, <1>15, <1>16, <1>17, <1>20, <1>21, <1>22, <1>13a, <1>24,
           <1>25, <1>26 DEF S!Next

LEMMA SharelessInit == S!Init => SharelessInv
<1> SUFFICES ASSUME S!Init PROVE SharelessInv
  OBVIOUS
<1> DEFINE p0 == CHOOSE p \in Pins : TRUE
<1>1. PICK h \in {"pins", "quorum", "domain"}, old \in BOOLEAN, c \in BOOLEAN : FirstCard(p0, h, old, c)
  BY FirstCards DEF p0
<1> HIDE DEF p0
<1>2. flash = cache /\ op = S!Idle
  BY DEF S!Init
<1>3. cache.need = Dkeks /\ cache.have = 0
  BY <1>1 DEF FirstCard, S!CardOf
<1> QED BY <1>2, <1>3, PlainNone DEF SharelessInv, Shareless, S!Idle

\* Every step of a domain's card
LEMMA DomainNext == ASSUME SessionTypes, SessionTypes', DomainInv, S!Next PROVE DomainInv'
<1> SUFFICES ASSUME Undisturbed' PROVE DomainBody' /\ FlashKept'
  BY DEF DomainInv
<1>1. Undisturbed /\ hist.host = "domain" /\ DomainBody /\ FlashKept
  BY TornGrows DEF Undisturbed, DomainInv
<1>2. Steady(op)
  BY <1>1 DEF DomainBody
<1>3. ~S!Change /\ ~S!Unblock /\ ~S!GetChallenge /\ ~S!GiveMask
  BY <1>1, <1>2 DEF Steady, S!Change, S!Unblock, S!GetChallenge, S!QuorumHost, S!GiveMask, S!PinHost
<1>4. /\ \A r, new : ~S!ChangePin(r, new) /\ ~S!ResetRetry(new) /\ ~S!ResetRetrySession(new)
      /\ \A p : ~S!MseSet(p) /\ ~S!PukAuth(p) /\ ~S!ExternalAuthenticate(p) /\ ~S!SecureLock(p)
  BY <1>1 DEF S!ChangePin, S!ResetRetry, S!ResetRetrySession, S!PinHost, S!MseSet, S!PukAuth, S!ExternalAuthenticate,
              S!QuorumHost, S!SecureLock
<1>5. cache.need \in Nat /\ Dkeks \in Nat /\ 0 < Dkeks /\ S!Unset = 255
  BY SessionNumbers DEF SessionTypes, Files
<1>6. S!DomainSetup \/ S!DomainDelete \/ S!DomainReset => DomainBody' /\ FlashKept'
  <2>1. S!DomainSetup => DomainBody' /\ FlashKept'
    BY <1>1, <1>5, DomainChanged DEF S!DomainSetup
  <2>2. S!DomainDelete => DomainBody' /\ FlashKept'
    BY <1>1, <1>5, DomainChanged DEF S!DomainDelete
  <2>3. S!DomainReset => DomainBody' /\ FlashKept'
    <3>1. op = S!Idle => 0 < cache.need
      BY <1>1, DomainIdle DEF KeptIn, DomainKept
    <3>2. S!DomainReset => op = S!Idle
      BY DEF S!DomainReset, S!DomainChange, S!DomainHost
    <3> QED BY <1>1, <1>5, <3>1, <3>2, DomainChanged DEF S!DomainReset
  <2> QED BY <2>1, <2>2, <2>3
<1>7. ASSUME NEW v \in Pins, NEW w \in Pins, S!Initialize(v, w) PROVE DomainBody' /\ FlashKept'
  BY <1>1, <1>7, DomainInitialize
<1>8. ASSUME NEW s \in Shares, S!ImportShare(s) PROVE DomainBody' /\ FlashKept'
  BY <1>1, <1>8, DomainImport
<1>9. S!Write \/ S!Fault \/ S!Drain \/ S!PowerLoss => DomainBody' /\ FlashKept'
  BY <1>1, DomainWrite, DomainFault, DomainDrain, DomainLoss
<1>10. S!Select \/ (\E r \in S!Refs : S!CheckWrong(r) \/ S!Verify(r)) => DomainBody' /\ FlashKept'
  BY <1>1, DomainChecks
<1>11. S!Checked \/ S!Granted \/ S!Initialized \/ S!DomainKcv \/ S!DomainQuery => DomainBody' /\ FlashKept'
  BY <1>1, DomainChecked, DomainGranted, DomainInitialized, DomainCheckValue
<1> QED BY <1>3, <1>4, <1>6, <1>7, <1>8, <1>9, <1>10, <1>11 DEF S!Next

LEMMA DomainInit == S!Init => DomainInv
<1> SUFFICES ASSUME S!Init, hist.host = "domain" PROVE DomainBody /\ FlashKept
  BY DEF DomainInv, Undisturbed
<1> DEFINE p0 == CHOOSE p \in Pins : TRUE
<1>1. PICK h \in {"pins", "quorum", "domain"}, old \in BOOLEAN, c \in BOOLEAN : FirstCard(p0, h, old, c)
  BY FirstCards DEF p0
<1> HIDE DEF p0
<1>2. ~old
  BY <1>1 DEF FirstCard
<1>3. flash = cache /\ ram = S!Booted /\ op = S!Idle
  BY DEF S!Init
<1>4. /\ cache.pin = S!CardOf(p0, p0, old).pin /\ cache.mkek = S!CardOf(p0, p0, old).mkek /\ cache.key = 1
      /\ cache.need = Dkeks /\ cache.have = 0 /\ cache.dkek = S!NoDkek /\ cache.given = {}
  BY <1>1 DEF FirstCard, S!CardOf
<1>5. BothOpen(cache)
  <2> SUFFICES ASSUME NEW r \in S!Refs PROVE Newest(cache.mkek[r], cache.pin[r], cache.key)
    BY DEF BothOpen
  <2>1. cache.pin[r] = [v |-> p0, old |-> old]
    BY <1>4 DEF S!CardOf
  <2>2. cache.mkek[r] = [S!Wrapped(p0, IF old THEN "old" ELSE "new", 1) EXCEPT !.legacy = old]
    BY <1>4 DEF S!CardOf
  <2>3. cache.mkek[r].key = 1 /\ ~cache.mkek[r].masked /\ cache.mkek[r].pin = p0 /\ cache.mkek[r].kdf = "new"
    BY <1>2, <2>2 DEF S!Wrapped
  <2> QED BY <1>2, <1>4, <2>1, <2>3 DEF Opens, Newest
<1>6. /\ op.pc = "idle" /\ op.then = "idle" /\ op.next = "idle" /\ op.cmd = None /\ op.todo = <<>>
      /\ ~ram.mask /\ ram.pending = FALSE /\ \A r \in S!Refs : ram.ses[r] = None
  BY <1>3 DEF S!Idle, S!Booted
<1>7. Steady(op) /\ op.cmd # "initialize" /\ Given = {} /\ SessionsKept
  BY <1>4, <1>6, SessionNumbers DEF Steady, Sharing, Disturbing, Given, SessionsKept, SessionsFit, Login
<1>8. Dkeks \in Nat /\ 0 \in Nat /\ S!NoDkek \in Domains /\ S!NoDkek.kind = "none" /\ 0 < Dkeks /\ 0 <= Dkeks
  BY SessionNumbers DEF Domains, S!NoDkek
<1>9. DomainKept(Dkeks, 0, S!NoDkek, {}, FALSE) /\ DomainKept(Dkeks, 0, S!NoDkek, {}, TRUE)
  BY <1>8 DEF DomainKept
<1>10. DomainEnds
  <2>1. Ends(cache, <<>>, "need", None, Dkeks) /\ Ends(cache, <<>>, "have", None, 0) /\ Ends(cache, <<>>, "dkek", None, S!NoDkek)
    BY <1>4, EndsNow DEF Value
  <2> QED BY <1>6, <1>7, <1>8, <1>9, <2>1 DEF DomainEnds
<1>11. Untouched(op.todo) /\ CountsSpared
  BY <1>6 DEF Untouched, CountsSpared, Spares
<1>12. FlashKept
  BY <1>3, <1>4, <1>5, <1>9 DEF FlashKept, KeptIn
<1> QED BY <1>5, <1>7, <1>10, <1>11, <1>12 DEF DomainBody

\* The key of a complete domain is the XOR of the shares that were accepted for it, in whatever
\* order shares, logins and resets come and whatever power losses and failed writes fall between
\* the commands (import_dkek_share, save_dkek_key, pending_save_dkek in cmd_key_domain.c).
SessionShares == part = "session" => SessionTypes /\ DomainInv /\ SharelessInv
THEOREM DomainKeyOfShares == Spec => []DkekIsTheShares
<1>1. Init => SessionShares
  BY SessionTypesInit, DomainInit, SharelessInit DEF Init, SessionShares
<1>2. SessionShares /\ [Next]_vars => SessionShares'
  <2> SUFFICES ASSUME SessionShares, [Next]_vars, part' = "session" PROVE SessionTypes' /\ DomainInv' /\ SharelessInv'
    BY DEF SessionShares
  <2>1. CASE Next
    <3>1. part = "session" /\ S!Next
      BY <2>1 DEF Next
    <3>2. SessionTypes /\ DomainInv /\ SharelessInv /\ SessionTypes'
      BY <3>1, SessionTypesNext DEF SessionShares
    <3>3. DomainInv'
      BY <3>1, <3>2, DomainNext
    <3>4. SharelessInv'
      <4>1. CASE hist.host = "domain"
        BY <3>1, <3>2, <4>1, TornGrows DEF SharelessInv
      <4>2. CASE hist.host # "domain"
        BY <3>1, <3>2, <4>2, SharelessNext
      <4> QED BY <4>1, <4>2
    <3> QED BY <3>2, <3>3, <3>4
  <2>2. CASE UNCHANGED vars
    <3>1. SessionTypes /\ DomainInv /\ SharelessInv /\ UNCHANGED <<cache, flash, ram, op, hist>>
      BY <2>2 DEF vars, SessionShares
    <3>2. SessionTypes' /\ SharelessInv'
      BY <3>1 DEF SessionTypes, SharelessInv
    <3>3. (Undisturbed <=> Undisturbed') /\ (DomainBody => DomainBody') /\ (FlashKept => FlashKept')
      BY <3>1 DEF Undisturbed, DomainBody, FlashKept, SessionsKept, SessionsFit, DomainEnds, PinsEnd, CountsSpared, Given, Login
    <3> QED BY <3>1, <3>2, <3>3 DEF DomainInv
  <2> QED BY <2>1, <2>2
<1>3. SessionShares => DkekIsTheShares
  <2> SUFFICES ASSUME SessionTypes, DomainInv, SharelessInv, op = S!Idle, ~ram.pending, Disturbing \cap hist.torn = {},
                      cache.need # S!Unset, cache.have = cache.need
               PROVE  cache.dkek.kind = "wrapped" /\ cache.dkek.ok /\ cache.dkek.xor = cache.given
    BY DEF DkekIsTheShares, S!DkekIsTheShares, SessionShares, Disturbing
  <2>1. hist.host = "domain"
    BY SessionNumbers DEF SharelessInv, Shareless
  <2>2. KeptIn(cache, ram.pending)
    BY <2>1, DomainIdle DEF DomainInv, Undisturbed
  <2>3. cache.need \in Nat /\ cache.have \in Nat
    BY DEF SessionTypes, Files
  <2> QED BY <2>2, <2>3 DEF KeptIn, DomainKept
<1> QED BY <1>1, <1>2, <1>3, PTL DEF Spec

=============================================================================
