------------------------------- MODULE HsmKeys -------------------------------
(***************************************************************************)
(* The keys of the SmartCard-HSM applet: generation with a template (use   *)
(* counter, allowed algorithms, key domain), use, derivation into another  *)
(* reference, wrapping under the key domain and unwrapping, deletion, and  *)
(* the derived HD keys. Which keys are RSA, EC or AES keys is left out.    *)
(*                                                                         *)
(* A key lives in a container, whose updates are committed before the call *)
(* returns, or, on cards of earlier firmware, in a file, whose updates are *)
(* written out later. Either way the key is stored first and its metadata  *)
(* second.                                                                 *)
(***************************************************************************)
EXTENDS Integers, Sequences, FiniteSets

CONSTANTS
    Containers,    \* key references kept in containers
    Legacies,      \* key references kept in files
    MaxKeys,       \* how many keys are generated
    MaxUses,       \* how many uses are followed
    MaxMishaps,    \* how many failed writes and power losses are followed
    MaxCommands,   \* how many commands that write files are followed
    None

Slots == Containers \cup Legacies
Keys == 1 .. MaxKeys
Algos == {"sign", "derive", "cipher", "wrap", "hd"}

Commands == {"keygen", "keypair", "unwrap", "delete", "rollback", "use", "derive", "sidecar", "domain", "seed"}

\* What the constants have to be; MCHsm assumes it of its instance.
ConstantTypes ==
    /\ MaxKeys \in Nat
    /\ None \notin Slots \cup Nat \cup Commands /\ \A A \in SUBSET Algos : None # A

VARIABLES
    cache,      \* the files as the firmware sees them
    flash,      \* the files as a power loss would leave them
    ram,        \* isUserAuthenticated, hd_keytype
    op,         \* the handler in progress
    hist        \* history and bounds

vars == <<cache, flash, ram, op, hist>>

-----------------------------------------------------------------------------
(* State *)

\* Tags 90 (counter), 91 (algorithms) and 92 (domain); None: the tag is absent
Meta(count, algos, dom) == [count |-> count, algos |-> algos, dom |-> dom]
NoMeta == Meta(None, None, None)

\* What a GENERATE may ask for
Templates == {NoMeta, Meta(2, {"sign", "derive", "cipher"}, 0), Meta(1, {"sign", "wrap"}, None)}

\* dkek: which key the domain has, 0 when it is not complete
NoFiles == [key |-> [s \in Slots |-> 0], meta |-> [s \in Slots |-> NoMeta],
            prkd |-> {}, cert |-> {}, seed |-> FALSE, dkek |-> 1]

\* source: the reference whose use counter is written once todo is done
Idle == [pc |-> "idle", cmd |-> None, todo |-> <<>>, slot |-> None, key |-> 0, source |-> None]

Init ==
    /\ cache = NoFiles /\ flash = NoFiles
    /\ ram = [user |-> FALSE, hd |-> None] /\ op = Idle
    /\ \E h \in {"keys", "hd", "files"} :
          hist = [host |-> h, keys |-> 0, filed |-> {}, made |-> [k \in Keys |-> NoMeta],
                  uses |-> [k \in Keys |-> 0], origin |-> [k \in Keys |-> 0], blobs |-> {}, exempt |-> {},
                  part |-> {}, used |-> 0, mishaps |-> 0, cmds |-> 0, dkeks |-> 1, stray |-> FALSE]

\* key_has_purpose: a key without the tag serves every algorithm.
Allows(m, a) == m.algos # None => a \in m.algos

-----------------------------------------------------------------------------
(* Files *)

Put(f, at, v) == [f |-> f, at |-> at, v |-> v]
Applied(c, w) ==
    CASE w.f \in {"key", "meta"}  -> [c EXCEPT ![w.f][w.at] = w.v]
      [] w.f = "container"        -> [c EXCEPT !.key[w.at] = w.v, !.prkd = @ \cup {w.at}]
      [] w.f = "no container"     -> [c EXCEPT !.key[w.at] = 0, !.meta[w.at] = NoMeta]
      [] w.f \in {"prkd", "cert"} -> [c EXCEPT ![w.f] = IF w.v THEN @ \cup {w.at} ELSE @ \ {w.at}]
      [] OTHER                    -> [c EXCEPT ![w.f] = w.v]

\* Mutant: the last use is not counted.
Spent_KeepsLast(m) == [m EXCEPT !.count = IF @ > 1 THEN @ - 1 ELSE @]

\* decrement_key_counter
Spent(m) == [m EXCEPT !.count = @ - 1]
Count(s) == [Idle EXCEPT !.pc = "write", !.cmd = "use", !.todo = <<Put("meta", s, Spent(cache.meta[s]))>>]

Rest ==
    IF Len(op.todo) > 1 THEN [op EXCEPT !.todo = Tail(@)]
    ELSE IF op.source # None THEN Count(op.source) ELSE Idle

\* The keys a command is at; taking a key back, it may be at an older one that the reference names.
Busy(c, o) ==
    IF o.pc = "idle" THEN {}
    ELSE ({o.key} \cup IF o.cmd = "rollback" THEN {c.key[o.slot]} ELSE {}) \ {0}

\* An update of a container is committed before the call returns, and all that waited with it.
Write ==
    /\ op.pc = "write"
    /\ LET w == Head(op.todo) IN
       /\ cache' = Applied(cache, w)
       /\ flash' = IF w.at \in Containers THEN cache' ELSE flash
       /\ hist' = IF w.at \in Containers THEN [hist EXCEPT !.part = Busy(cache', Rest)] ELSE hist
    /\ op' = Rest
    /\ UNCHANGED ram

Mishap(keys) == hist' = [hist EXCEPT !.mishaps = @ + 1, !.exempt = @ \cup keys]

\* Of a container the description and the certificate are detached and stay as files; a file's
\* metadata goes before the file.
DeleteWrites(s) ==
    IF s \in Containers THEN <<Put("no container", s, None)>>
    ELSE <<Put("meta", s, NoMeta), Put("key", s, 0)>>

\* Mutant: a key whose metadata could not be stored stays.
RollbackWrites_Nothing(s) == <<Put("prkd", s, FALSE)>>

\* rollback_generated_key: whatever key the reference names now goes, an older one as well.
RollbackWrites(s) ==
    DeleteWrites(s) \o <<Put("prkd", s, FALSE)>>

\* A write fails. GENERATE of a symmetric key takes back what it stored; the result of the
\* counter's update is not looked at; every other command ends, and leaves what it has written.
Fault ==
    /\ op.pc = "write" /\ hist.mishaps < MaxMishaps
    /\ op' = IF op.cmd = "keygen"
             THEN [op EXCEPT !.cmd = "rollback", !.todo = RollbackWrites(op.slot)]
             ELSE Idle
    /\ Mishap(IF op.cmd \in {"keypair", "unwrap", "delete", "rollback"} THEN Busy(cache, op) ELSE {})
    /\ UNCHANGED <<cache, flash, ram>>

Drain ==
    /\ flash # cache /\ hist.mishaps < MaxMishaps
    /\ flash' = cache
    /\ hist' = [hist EXCEPT !.part = Busy(cache, op)]
    /\ UNCHANGED <<cache, ram, op>>

\* Exempt from here on: a key stored without its metadata
PowerLoss ==
    /\ hist.mishaps < MaxMishaps
    /\ cache' = flash /\ UNCHANGED flash
    /\ ram' = [user |-> FALSE, hd |-> None] /\ op' = Idle
    /\ Mishap(hist.part)

\* sc_hsm_unload and init_sc_hsm forget the derived key; access is HsmSession's subject.
Login == op = Idle /\ ~ram.user /\ ram' = [ram EXCEPT !.user = TRUE] /\ UNCHANGED <<cache, flash, op, hist>>
Select ==
    /\ op = Idle /\ ram.user
    /\ ram' = [user |-> FALSE, hd |-> None]
    /\ UNCHANGED <<cache, flash, op, hist>>

\* The keys' host sends one command more than the others.
Bound == IF hist.host = "keys" THEN MaxCommands + 1 ELSE MaxCommands

\* A command that writes files
Command(name, s, k, writes) ==
    /\ op = Idle /\ ram.user /\ hist.cmds < Bound
    /\ op' = [pc |-> "write", cmd |-> name, todo |-> writes, slot |-> s, key |-> k, source |-> None]
    /\ UNCHANGED <<cache, flash, ram>>

Counted == [hist EXCEPT !.cmds = @ + 1]

-----------------------------------------------------------------------------
(* Generation *)

\* hsm_store_keys: the key and its description (in a container one update), whose other objects,
\* the metadata of an earlier key among them, stay
StoreKeys(s, k) ==
    IF s \in Containers THEN <<Put("container", s, k)>> ELSE <<Put("key", s, k), Put("prkd", s, TRUE)>>

\* find_and_store_meta_key: nothing is stored when the template has no tag
StoreMeta(s, m) == IF m = NoMeta THEN <<>> ELSE <<Put("meta", s, m)>>

Generate(name, s, t, cert) ==
    LET k == hist.keys + 1 IN
    /\ hist.keys < MaxKeys
    /\ Command(name, s, k, StoreKeys(s, k) \o StoreMeta(s, t) \o cert)
    /\ hist' = [Counted EXCEPT !.keys = k, !.made[k] = t,
                               !.filed = IF s \in Legacies THEN @ \cup {k} ELSE @]

KeyGen(s, t) == Generate("keygen", s, t, <<>>)
KeypairGen(s, t) == Generate("keypair", s, t, <<Put("cert", s, TRUE)>>)

-----------------------------------------------------------------------------
(* Use: SIGN, DECIPHER, CIPHER, DERIVE *)

Usable(s, a) ==
    /\ cache.key[s] # 0 /\ cache.meta[s].count # 0 /\ Allows(cache.meta[s], a)

\* The result is in the response before the counter is written.
Used(s) ==
    /\ hist.used < MaxUses
    /\ op' = IF cache.meta[s].count = None THEN Idle ELSE Count(s)
    /\ hist' = [hist EXCEPT !.used = @ + 1, !.uses[cache.key[s]] = @ + 1]

\* SIGN and DECIPHER, each for the algorithms its key allows
Asymmetric(s) ==
    /\ op = Idle /\ ram.user /\ Usable(s, "sign")
    /\ Used(s)
    /\ UNCHANGED <<cache, flash, ram>>

Sign(s) == Asymmetric(s)
Decipher(s) == Asymmetric(s)

\* DERIVE stores the key plus an offset under another reference, or under its own, and then writes
\* the use counter of the reference it came from. The key it stores has no template: what metadata
\* are at the new reference stay there, and when there are none it may be used for everything and
\* as often as one likes, also with an offset of zero, which makes it a copy.
DeriveAsym(s, d) ==
    LET k == hist.keys + 1 IN
    /\ op = Idle /\ ram.user /\ Usable(s, "derive")
    /\ hist.keys < MaxKeys /\ hist.used < MaxUses /\ hist.cmds < Bound
    /\ op' = [pc |-> "write", cmd |-> "derive", todo |-> StoreKeys(d, k), slot |-> d, key |-> k,
              source |-> IF cache.meta[s].count = None THEN None ELSE s]
    /\ hist' = [Counted EXCEPT !.keys = k, !.used = @ + 1, !.uses[cache.key[s]] = @ + 1,
                               !.made[k] = NoMeta, !.origin[k] = cache.key[s],
                               !.filed = IF d \in Legacies THEN @ \cup {k} ELSE @]
    /\ UNCHANGED <<cache, flash, ram>>

\* cmd_cipher_sym takes a derived key left in hd_keytype for the key of every algorithm: the
\* derivations and MACs then run with no key at all, and neither counter nor algorithms count.
Cipher(s) ==
    /\ op = Idle /\ ram.user
    /\ \/ ram.hd = None /\ Usable(s, "cipher") /\ Used(s)
       \/ /\ ram.hd # None /\ ~hist.stray
          /\ hist' = [hist EXCEPT !.stray = TRUE] /\ UNCHANGED op
    /\ UNCHANGED <<cache, flash, ram>>

-----------------------------------------------------------------------------
(* HD keys *)

MasterGen ==
    /\ ~cache.seed /\ hist.host = "hd"
    /\ Command("seed", None, 0, <<Put("seed", None, TRUE)>>)
    /\ hist' = Counted

\* BIP SLIP DERIVE needs the MKEK (a login) and leaves the key in memory.
HdDerive(type) ==
    /\ op = Idle /\ ram.user /\ cache.seed /\ ram.hd = None
    /\ ram' = [ram EXCEPT !.hd = type]
    /\ UNCHANGED <<cache, flash, op, hist>>

\* SIGN with the derived key still wants a key file, its counter and its algorithms.
HdSign(s) ==
    /\ op = Idle /\ ram.user /\ ram.hd = "ec" /\ Usable(s, "hd")
    /\ Used(s)
    /\ ram' = [ram EXCEPT !.hd = None]
    /\ UNCHANGED <<cache, flash>>

HdCipher ==
    /\ op = Idle /\ ram.user /\ ram.hd = "sym"
    /\ ram' = [ram EXCEPT !.hd = None]
    /\ UNCHANGED <<cache, flash, op, hist>>

-----------------------------------------------------------------------------
(* Wrapping: the domain's key carries the allowed algorithms along, not the counter *)

\* Mutant: the allowed algorithms are left out.
Encoded_Bare(k, m, d) == [key |-> k, algos |-> None, dkek |-> d]

\* dkek_encode_key
Encoded(k, m, d) == [key |-> k, algos |-> m.algos, dkek |-> d]

KeyWrap(s) ==
    LET k == cache.key[s]
        blob == Encoded(k, cache.meta[s], cache.dkek)
    IN /\ op = Idle /\ ram.user /\ k # 0 /\ cache.dkek # 0 /\ Allows(cache.meta[s], "wrap")
       /\ blob \notin hist.blobs /\ hist.host = "keys"
       /\ hist' = [hist EXCEPT !.blobs = @ \cup {blob}]
       /\ UNCHANGED <<cache, flash, ram, op>>

\* The metadata that was there is replaced.
KeyUnwrap(s, b) ==
    /\ b.dkek = cache.dkek
    /\ Command("unwrap", s, b.key,
               StoreKeys(s, b.key) \o <<Put("meta", s, Meta(None, b.algos, 0)), Put("cert", s, TRUE)>>)
    /\ hist' = Counted

-----------------------------------------------------------------------------
(* Files of keys *)

DeleteKey(s) ==
    /\ cache.key[s] # 0
    /\ Command("delete", s, IF s \in Containers THEN 0 ELSE cache.key[s], DeleteWrites(s))
    /\ hist' = Counted

DeleteSidecar(s, f) ==
    /\ s \in cache[f] /\ hist.host = "files"
    /\ Command("sidecar", s, 0, <<Put(f, s, FALSE)>>)
    /\ hist' = Counted

UpdateEf(s, f) ==
    /\ s \notin cache[f] /\ hist.host = "files"
    /\ Command("sidecar", s, 0, <<Put(f, s, TRUE)>>)
    /\ hist' = Counted

\* KEY DOMAIN: deletion is refused while a key has the domain's tag (one without a tag belongs to
\* domain 0 and is not counted); a new set of shares makes another key.
DomainDelete ==
    /\ cache.dkek # 0 /\ \A s \in Slots : cache.key[s] # 0 => cache.meta[s].dom # 0
    /\ Command("domain", None, 0, <<Put("dkek", None, 0)>>)
    /\ hist' = Counted

DomainImport ==
    /\ cache.dkek = 0
    /\ Command("domain", None, 0, <<Put("dkek", None, hist.dkeks + 1)>>)
    /\ hist' = [Counted EXCEPT !.dkeks = @ + 1]

\* INITIALIZE erases the files; the derived key stays in memory.
Initialize ==
    /\ op = Idle /\ hist.cmds < Bound /\ cache # NoFiles
    /\ cache' = NoFiles /\ flash' = NoFiles
    /\ ram' = [ram EXCEPT !.user = TRUE]
    /\ hist' = [Counted EXCEPT !.part = {}]
    /\ UNCHANGED op

Next ==
    \/ Write \/ Fault \/ Drain \/ PowerLoss \/ Login \/ Select
    \/ \E s \in Slots :
          \/ \E t \in Templates : KeyGen(s, t) \/ KeypairGen(s, t)
          \/ Sign(s) \/ Decipher(s) \/ Cipher(s) \/ HdSign(s) \/ KeyWrap(s) \/ DeleteKey(s)
          \/ \E d \in Slots : DeriveAsym(s, d)
          \/ \E b \in hist.blobs : KeyUnwrap(s, b)
          \/ \E f \in {"prkd", "cert"} : DeleteSidecar(s, f) \/ UpdateEf(s, f)
    \/ MasterGen \/ HdCipher \/ \E type \in {"ec", "sym"} : HdDerive(type)
    \/ DomainDelete \/ DomainImport \/ Initialize

Spec == Init /\ [][Next]_vars

-----------------------------------------------------------------------------
(* Properties *)

Exported == {b.key : b \in hist.blobs}

\* A key generated in a container with a use counter is used at most that often, plus once for
\* each failed write or power loss: the result is given out before the counter is stored.
\* Exempt: keys that were wrapped (the counter does not travel) and keys whose generation was cut.
\* What DERIVE stores is a key of its own, which was made without a counter, even if it is a copy.
CountedUses ==
    \A k \in Keys :
        hist.made[k].count # None /\ k \notin Exported \cup hist.exempt \cup hist.filed
        => hist.uses[k] <= hist.made[k].count + hist.mishaps

\* Wherever a key generated for certain algorithms ends up, by wrapping and unwrapping into other
\* references, by generations over it and over others, by failed commands, it serves no further
\* algorithm. Exempt: keys for which a mishap fell between the key and its metadata, or in the middle
\* of taking a key back. What DERIVE stores was made for every algorithm, whatever it came from.
PurposeKept ==
    op = Idle =>
        \A s \in Slots :
            LET k == cache.key[s] IN
            k # 0 /\ k \notin hist.exempt =>
                \A a \in Algos : Allows(cache.meta[s], a) => Allows(hist.made[k], a)

\* The window that PurposeKept exempts.
PurposeKeptTorn ==
    op = Idle =>
        \A s \in Slots :
            LET k == cache.key[s] IN
            k # 0 => \A a \in Algos : Allows(cache.meta[s], a) => Allows(hist.made[k], a)

\* What PurposeKept leaves out: a key that DERIVE stored serves no algorithm that the key it came from
\* was not generated for.
PurposeKeptDerived ==
    op = Idle =>
        \A s \in Slots :
            LET k == cache.key[s] IN
            k # 0 /\ hist.origin[k] # 0 /\ k \notin hist.exempt =>
                \A a \in Algos : Allows(cache.meta[s], a) => Allows(hist.made[hist.origin[k]], a)

\* CIPHER computes with the key the command names.
NamedKeyUsed == ~hist.stray
===============================================================================
