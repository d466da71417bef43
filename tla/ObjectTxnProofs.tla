--------------------------- MODULE ObjectTxnProofs --------------------------
(***************************************************************************)
(* Machine-checked proofs about ObjectTxn, for any set of payloads, any    *)
(* largest generation, any number of handles and any division of the files *)
(* into sectors that DrainAssumption allows.                               *)
(*                                                                         *)
(* The inductive invariant says that an image never holds anything newer   *)
(* than the version a reader of it gets, that an operation in progress     *)
(* only works on the slot that does not hold the current version, and how  *)
(* far flash may lag behind the cache at each step of an operation.        *)
(***************************************************************************)
EXTENDS ObjectTxn, TLAPS

\* A commit as write_commit builds it.
CommitShape(m) ==
    IF m.deleted THEN m.tag = NoTag ELSE m.tag \in Records /\ m.tag.generation = m.generation

\* The image has never been committed to.
Blank(img) == \A s \in Slots : img.commit[s] = Absent

\* Slot c holds the version of the image, and the other slot nothing newer.
Current(img, c) ==
    /\ ParseCommit(img, c)
    /\ CommitShape(img.commit[c])
    /\ img.commit[OtherSlot(c)] # Absent =>
          img.commit[OtherSlot(c)].generation < img.commit[c].generation

Good(img) == Blank(img) \/ \E c \in Slots : Current(img, c)

Leq(v, w) == v = w \/ v.generation < w.generation

FinalPcs == {"final_sync", "final_wait"}
EarlyPcs == {"remove_commit", "remove_record", "write_record", "sync", "wait", "write_commit"}

\* An operation before its commit works on the slot that is not current.
OpEarly ==
    op.pc \in EarlyPcs =>
        /\ op.kind \in {"put", "delete"}
        /\ op.kind = "put" => op.value \in Values
        /\ op.pc = "write_record" => op.kind = "put"
        /\ op.kind = "delete" => op.value = NoValue /\ Version(cache).value # NoValue
        /\ op.slot = TargetSlot(cache)
        /\ op.generation = Version(cache).generation + 1
        /\ op.pc # "remove_commit" => cache.commit[op.slot] = Absent
        /\ op.pc \in {"sync", "wait", "write_commit"} /\ op.kind = "put" =>
              cache.record[op.slot] = [generation |-> op.generation, value |-> op.value]

\* After it, the version it wrote is the one readers get, and flash is the
\* image from before the commit or the one with it.
OpFinal ==
    op.pc \in FinalPcs =>
        /\ Current(cache, op.slot)
        /\ Version(cache) = [generation |-> op.generation, value |-> op.value]
        /\ flash.record = cache.record
        /\ flash.commit[OtherSlot(op.slot)] = cache.commit[OtherSlot(op.slot)]
        /\ flash.commit[op.slot] \in {Absent, cache.commit[op.slot]}

\* A wait that core 0 has ended left nothing behind.
Synced ==
    /\ op.pc \in {"wait", "final_wait"} /\ ~flash_available => flash = cache
    /\ op.pc = "write_commit" => flash = cache

\* Flash and the cache agree on the current version.
SameCurrent ==
    \/ Blank(cache) /\ Blank(flash)
    \/ \E c \in Slots :
          /\ Current(cache, c) /\ Current(flash, c)
          /\ flash.commit[c] = cache.commit[c]
          /\ flash.record[c] = cache.record[c]

\* Without timeouts flash lags only in the slot being written.
NoLag == MayTimeout = FALSE /\ op.pc \notin FinalPcs => SameCurrent

Lag == Leq(acked, Version(flash)) /\ Leq(Version(flash), Version(cache))

\* An open handle names the current version or an older one.
HandleLag ==
    \A i \in 1 .. MaxHandles :
        handles[i].token # 0 =>
            Leq([generation |-> handles[i].generation, value |-> handles[i].value], Version(cache))

IInv ==
    /\ TypeOK
    /\ Good(cache)
    /\ Good(flash)
    /\ OpEarly
    /\ OpFinal
    /\ Synced
    /\ NoLag
    /\ Lag
    /\ HandleLag

-----------------------------------------------------------------------------
\* Versions as the proofs name them.
Versions == [generation : 0 .. MaxGeneration, value : Values \cup {NoValue}]

\* What recover, next_state and a reader find in an image whose slot c is
\* current: that slot, and as the next target the other one.
LEMMA CurrentFacts ==
    ASSUME NEW img \in Images, NEW c \in Slots, Current(img, c)
    PROVE  /\ RecoverStatus(img) = "ok"
           /\ Newest(img) = c
           /\ Version(img) = [generation |-> img.commit[c].generation, value |-> img.commit[c].tag.value]
           /\ Version(img) \in Versions
           /\ Version(img).generation \in Generations
           /\ Version(img).value = NoValue <=> img.commit[c].deleted
           /\ TargetSlot(img) = OtherSlot(c)
           /\ ~Blank(img)
<1>1. /\ c \in {0, 1} /\ OtherSlot(c) \in Slots /\ OtherSlot(c) # c
      /\ \A t \in Slots : t = c \/ t = OtherSlot(c)
  BY DEF Slots, OtherSlot
<1>2. \A s \in Slots : img.commit[s] # Absent =>
          /\ img.commit[s] \in Commits
          /\ img.commit[s].generation \in Nat
  BY ConstantTypes DEF Images, Commits, Generations
<1>3. img.commit[c] # Absent /\ img.commit[c] \in Commits
  BY <1>2 DEF Current, ParseCommit
<1>4. c \in ValidSlots(img)
  BY DEF ValidSlots, Current
<1>5. \A t \in ValidSlots(img) : t # c => img.commit[t].generation < img.commit[c].generation
  <2>1. \A t \in ValidSlots(img) : t \in Slots /\ img.commit[t] # Absent
    BY DEF ValidSlots, ParseCommit
  <2>2. QED
    BY <1>1, <2>1 DEF Current
<1>6. \A t \in ValidSlots(img) : img.commit[t].generation <= img.commit[c].generation
  BY <1>2, <1>3, <1>5 DEF ValidSlots, ParseCommit
<1>7. Newest(img) = c
  <2>1. \A s \in ValidSlots(img) :
          (\A t \in ValidSlots(img) : img.commit[t].generation <= img.commit[s].generation) => s = c
    <3>1. TAKE s \in ValidSlots(img)
    <3>2. HAVE \A t \in ValidSlots(img) : img.commit[t].generation <= img.commit[s].generation
    <3>3. img.commit[s].generation \in Nat /\ img.commit[c].generation \in Nat
      BY <1>2, <1>3 DEF ValidSlots, ParseCommit
    <3>4. img.commit[c].generation <= img.commit[s].generation
      BY <1>4, <3>2
    <3>5. QED
      BY <1>5, <3>3, <3>4
  <2>2. QED
    BY <1>4, <1>6, <2>1 DEF Newest
<1>8. RecoverStatus(img) = "ok"
  <2>1. ValidSlots(img) # {}
    BY <1>4
  <2>2. ~(ValidSlots(img) = Slots /\ img.commit[0].generation = img.commit[1].generation)
    <3>1. SUFFICES ASSUME ValidSlots(img) = Slots, img.commit[0].generation = img.commit[1].generation
                   PROVE  FALSE
      OBVIOUS
    <3>2. OtherSlot(c) \in ValidSlots(img)
      BY <1>1, <3>1
    <3>3. img.commit[OtherSlot(c)].generation < img.commit[c].generation
      BY <1>1, <1>5, <3>2
    <3>4. img.commit[0].generation \in Nat /\ img.commit[1].generation \in Nat
      BY <1>2, <3>1 DEF ValidSlots, ParseCommit, Slots
    <3>5. QED
      BY <1>1, <3>1, <3>3, <3>4 DEF OtherSlot
  <2>3. QED
    BY <2>1, <2>2 DEF RecoverStatus
<1>9. Version(img) = [generation |-> img.commit[c].generation, value |-> img.commit[c].tag.value]
  BY <1>7, <1>8 DEF Version
<1>10. img.commit[c].generation \in Generations
  BY <1>3 DEF Commits
<1>11. /\ img.commit[c].tag.value \in Values \cup {NoValue}
       /\ img.commit[c].tag.value = NoValue <=> img.commit[c].deleted
  <2>1. CASE img.commit[c].deleted
    BY <2>1 DEF Current, CommitShape, NoTag
  <2>2. CASE ~img.commit[c].deleted
    BY <2>2, ConstantTypes DEF Current, CommitShape, Records
  <2>3. QED
    BY <2>1, <2>2
<1>12. /\ Version(img) \in Versions
       /\ Version(img).generation \in Generations
       /\ Version(img).value = NoValue <=> img.commit[c].deleted
  BY <1>9, <1>10, <1>11, ConstantTypes DEF Versions, Generations
<1>13. TargetSlot(img) = OtherSlot(c)
  BY <1>7, <1>8 DEF TargetSlot
<1>14. QED
  BY <1>3, <1>7, <1>8, <1>9, <1>12, <1>13 DEF Blank

\* A blank image has no version, and the first put goes to slot 0.
LEMMA BlankFacts ==
    ASSUME NEW img \in Images, Blank(img)
    PROVE  /\ RecoverStatus(img) = "not_found"
           /\ Version(img) = [generation |-> 0, value |-> NoValue]
           /\ Version(img) \in Versions
           /\ TargetSlot(img) = 0
<1>1. ValidSlots(img) = {}
  BY DEF ValidSlots, ParseCommit, Blank
<1>2. RecoverStatus(img) = "not_found"
  BY <1>1 DEF RecoverStatus
<1>3. QED
  BY <1>2, ConstantTypes DEF Version, TargetSlot, Versions

\* The two previous lemmas for an image known only to be good.
LEMMA GoodFacts ==
    ASSUME NEW img \in Images, Good(img)
    PROVE  /\ Version(img) \in Versions
           /\ RecoverStatus(img) # "wrong_data"
           /\ TargetSlot(img) \in Slots
           /\ RecoverStatus(img) = "ok" => \E c \in Slots : Current(img, c)
           /\ img.commit[OtherSlot(TargetSlot(img))] = Absent => Blank(img)
<1>1. CASE Blank(img)
  BY <1>1, BlankFacts DEF Slots
<1>2. CASE \E c \in Slots : Current(img, c)
  <2>1. PICK c \in Slots : Current(img, c)
    BY <1>2
  <2>2. OtherSlot(c) \in Slots /\ OtherSlot(OtherSlot(c)) = c
    BY DEF Slots, OtherSlot
  <2>3. QED
    BY <2>1, <2>2, CurrentFacts DEF Current, ParseCommit
<1>3. QED
  BY <1>1, <1>2 DEF Good

\* Nothing that happens in the target slot short of a new commit changes the
\* version of an image, its target slot or which slot is current.
LEMMA TargetEdit ==
    ASSUME NEW img \in Images, NEW img2 \in Images, Good(img),
           NEW t, t = TargetSlot(img),
           img2.commit[OtherSlot(t)] = img.commit[OtherSlot(t)],
           img2.record[OtherSlot(t)] = img.record[OtherSlot(t)],
           img2.commit[t] \in {img.commit[t], Absent}
    PROVE  /\ Good(img2)
           /\ Version(img2) = Version(img)
           /\ TargetSlot(img2) = t
           /\ Blank(img) => Blank(img2)
           /\ \A c \in Slots : Current(img, c) => Current(img2, c)
<1>1. CASE Blank(img)
  <2>1. t = 0 /\ OtherSlot(t) = 1
    BY <1>1, BlankFacts DEF OtherSlot
  <2>2. Blank(img2)
    BY <1>1, <2>1 DEF Blank, Slots
  <2>3. \A c \in Slots : ~Current(img, c)
    BY <1>1 DEF Current, ParseCommit, Blank
  <2>4. QED
    BY <1>1, <2>1, <2>2, <2>3, BlankFacts DEF Good
<1>2. CASE \E c \in Slots : Current(img, c)
  <2>1. \A c \in Slots : Current(img, c) => c = OtherSlot(t)
    BY CurrentFacts DEF OtherSlot, Slots
  <2>2. PICK c \in Slots : Current(img, c)
    BY <1>2
  <2>3. c = OtherSlot(t) /\ t = OtherSlot(c)
    BY <2>2, CurrentFacts DEF OtherSlot, Slots
  <2>4. Current(img2, c)
    BY <2>2, <2>3 DEF Current, ParseCommit
  <2>5. QED
    BY <2>1, <2>2, <2>3, <2>4, CurrentFacts DEF Good
<1>3. QED
  BY <1>1, <1>2 DEF Good

-----------------------------------------------------------------------------
\* The values a reboot resets the counters and the table to have their types.
LEMMA BoundsFacts ==
    /\ 0 \in 0 .. MaxGeneration /\ 0 \in 0 .. TokenSpace - 1 /\ 1 \in 0 .. TokenSpace - 1
    /\ 0 \in Slots
    /\ FreeHandle \in [token : 0 .. TokenSpace - 1, slot : Slots,
                       generation : 0 .. MaxGeneration, value : Values \cup {NoValue}]
<1>1. /\ 0 \in 0 .. MaxGeneration /\ 0 \in 0 .. TokenSpace - 1 /\ 1 \in 0 .. TokenSpace - 1
      /\ 0 \in Slots
  BY ConstantTypes DEF Slots
<1>2. QED
  BY <1>1 DEF FreeHandle

\* Initially nothing is written, in progress, open or promised.
LEMMA InitIInv == Init => IInv
<1>1. SUFFICES ASSUME Init PROVE IInv
  OBVIOUS
<1>2. TypeOK
  <2>1. cache \in Images /\ flash \in Images
    BY <1>1 DEF Init, Images, EmptyImage
  <2>2. QED
    BY <1>1, <2>1, BoundsFacts DEF Init, TypeOK, Idle
<1>3. Blank(cache) /\ Blank(flash)
  BY <1>1 DEF Init, EmptyImage, Blank
<1>4. cache \in Images /\ flash \in Images
  BY <1>2 DEF TypeOK
<1>5. Lag
  BY <1>1, <1>3, <1>4, BlankFacts DEF Init, Lag, Leq
<1>6. op.pc = "idle"
  BY <1>1 DEF Init, Idle
<1>7. OpEarly /\ OpFinal /\ Synced /\ NoLag
  BY <1>3, <1>6 DEF OpEarly, OpFinal, Synced, NoLag, SameCurrent, EarlyPcs, FinalPcs
<1>8. HandleLag
  BY <1>1 DEF Init, HandleLag, FreeHandle
<1>9. QED
  BY <1>2, <1>3, <1>5, <1>7, <1>8 DEF IInv, Good

\* Types are preserved by every step.
LEMMA TypeOKStep == IInv /\ [Next]_vars => TypeOK'
<1> SUFFICES ASSUME IInv, [Next]_vars PROVE TypeOK'
  OBVIOUS
<1>t. /\ cache \in Images /\ flash \in Images /\ Good(cache) /\ Good(flash)
      /\ MaxGeneration \in Nat /\ TokenSpace \in Nat \ {0}
  BY ConstantTypes DEF IInv, TypeOK
<1>v. /\ Version(cache) \in Versions /\ Version(flash) \in Versions /\ TargetSlot(cache) \in Slots
      /\ RecoverStatus(cache) = "ok" => Newest(cache) \in Slots /\ OtherSlot(Newest(cache)) \in Slots
  BY <1>t, GoodFacts, CurrentFacts DEF OtherSlot, Slots
<1>e. op.pc \in EarlyPcs => op.generation \in Generations
  <2>1. op.pc \in EarlyPcs => op.generation = Version(cache).generation + 1
    BY DEF IInv, OpEarly
  <2>2. Version(cache).generation \in Nat /\ op.generation \in 0 .. MaxGeneration
    BY <1>v DEF Versions, IInv, TypeOK
  <2>3. QED
    BY <1>t, <2>1, <2>2 DEF Generations
<1>1. ASSUME NEW v \in Values, Put(v) PROVE TypeOK'
  <2>1. NextGeneration(cache) \in 0 .. MaxGeneration
    <3>1. Version(cache).generation \in 0 .. MaxGeneration
      BY <1>v DEF Versions
    <3>2. CASE RecoverStatus(cache) = "not_found"
      BY <3>2, ConstantTypes DEF Version, NextGeneration
    <3>3. CASE Version(cache).generation < MaxGeneration
      BY <1>t, <3>1, <3>3 DEF NextGeneration
    <3>4. QED
      BY <1>1, <3>2, <3>3 DEF Put, NextStateOk
  <2>2. QED
    BY <1>1, <1>v, <2>1 DEF Put, IInv, TypeOK
<1>2. ASSUME Delete PROVE TypeOK'
  <2>1. NextGeneration(cache) \in 0 .. MaxGeneration
    BY <1>2, <1>t, <1>v DEF Versions, Delete, NextGeneration
  <2>2. QED
    BY <1>2, <1>v, <2>1 DEF Delete, IInv, TypeOK
<1>3. ASSUME RemoveCommit PROVE TypeOK'
  <2>1. cache' \in Images
    BY <1>3, <1>t DEF RemoveCommit, IInv, TypeOK, Images
  <2>2. QED
    BY <1>3, <2>1, ConstantTypes DEF RemoveCommit, IInv, TypeOK, Fail, Idle, Slots
<1>4. ASSUME RemoveRecord PROVE TypeOK'
  <2>1. cache' \in Images
    BY <1>4, <1>t DEF RemoveRecord, IInv, TypeOK, Images
  <2>2. QED
    BY <1>4, <2>1, ConstantTypes DEF RemoveRecord, IInv, TypeOK, Fail, Idle, Slots
<1>5. ASSUME WriteRecord PROVE TypeOK'
  <2>1. op.value \in Values /\ op.generation \in Generations /\ op.slot \in Slots
    BY <1>5, <1>e DEF WriteRecord, IInv, TypeOK, OpEarly, EarlyPcs
  <2>2. [generation |-> op.generation, value |-> op.value] \in Records
    BY <2>1 DEF Records
  <2>3. cache' \in Images
    BY <1>5, <1>t, <2>1, <2>2 DEF WriteRecord, Images
  <2>4. QED
    BY <1>5, <2>3, ConstantTypes DEF WriteRecord, IInv, TypeOK, Fail, Idle, Slots
<1>6. ASSUME WriteCommit PROVE TypeOK'
  <2>1. /\ op.generation \in Generations /\ op.slot \in Slots
        /\ op.kind # "delete" => op.value \in Values
    BY <1>6, <1>e DEF WriteCommit, IInv, TypeOK, OpEarly, EarlyPcs
  <2>2. CommitOf(op) \in Commits
    BY <2>1 DEF CommitOf, Commits, Records
  <2>3. cache' \in Images
    BY <1>6, <1>t, <2>1, <2>2 DEF WriteCommit, Images
  <2>4. QED
    BY <1>6, <2>3, ConstantTypes DEF WriteCommit, IInv, TypeOK, Fail, Idle, Slots
<1>7. ASSUME CommitSync PROVE TypeOK'
  BY <1>7 DEF CommitSync, IInv, TypeOK
<1>8. ASSUME SyncDone PROVE TypeOK'
  BY <1>8 DEF SyncDone, IInv, TypeOK
<1>9. ASSUME Return PROVE TypeOK'
  BY <1>9, ConstantTypes DEF Return, IInv, TypeOK, Idle, Slots
<1>10. ASSUME SyncTimeout PROVE TypeOK'
  BY <1>10, ConstantTypes DEF SyncTimeout, Fail, IInv, TypeOK, Idle, Slots
<1>11. ASSUME RequestCommit PROVE TypeOK'
  BY <1>11 DEF RequestCommit, IInv, TypeOK
<1>12. ASSUME NEW S \in Sectors, Drain(S) PROVE TypeOK'
  <2>1. flash' \in Images
    BY <1>12, <1>t DEF Drain, Drained, Images
  <2>2. (flash' # cache) \in BOOLEAN
    OBVIOUS
  <2>3. QED
    BY <1>12, <2>1, <2>2 DEF Drain, IInv, TypeOK
<1>13. ASSUME Crash PROVE TypeOK'
  BY <1>13, <1>v, BoundsFacts DEF Crash, IInv, TypeOK, Idle, Versions
<1>14. ASSUME NEW i \in 1 .. MaxHandles, NEW t \in 1 .. TokenSpace - 1, Open(i, t) PROVE TypeOK'
  <2>1. (t + 1) % TokenSpace \in 0 .. TokenSpace - 1
    BY <1>t
  <2>2. [token |-> t, slot |-> Newest(cache), generation |-> Version(cache).generation, value |-> Version(cache).value]
          \in [token : 0 .. TokenSpace - 1, slot : Slots, generation : 0 .. MaxGeneration, value : Values \cup {NoValue}]
    BY <1>14, <1>t, <1>v DEF Open, Versions
  <2>3. QED
    BY <1>14, <2>1, <2>2 DEF Open, IInv, TypeOK
<1>15. ASSUME NEW i \in 1 .. MaxHandles, Close(i) PROVE TypeOK'
  BY <1>15, ConstantTypes DEF Close, FreeHandle, IInv, TypeOK, Slots
<1>16. CASE UNCHANGED vars
  BY <1>16 DEF vars, IInv, TypeOK
<1>17. QED
  BY <1>1, <1>2, <1>3, <1>4, <1>5, <1>6, <1>7, <1>8, <1>9, <1>10, <1>11, <1>12, <1>13, <1>14, <1>15,
     <1>16 DEF Next

\* Two images with the same files are the same.
LEMMA ImageEq ==
    ASSUME NEW a \in Images, NEW b \in Images,
           \A s \in Slots : a.record[s] = b.record[s] /\ a.commit[s] = b.commit[s]
    PROVE  a = b
<1>1. a.record = b.record
  BY DEF Images
<1>2. a.commit = b.commit
  BY DEF Images
<1>3. QED
  BY <1>1, <1>2 DEF Images

\* Versions are ordered by their generation.
LEMMA LeqFacts ==
    /\ \A v \in Versions : Leq(v, v)
    /\ \A u, v, w \in Versions : Leq(u, v) /\ Leq(v, w) => Leq(u, w)
    /\ \A v, w \in Versions : w.generation = v.generation + 1 => Leq(v, w)
<1>1. \A v \in Versions : v.generation \in Nat
  BY ConstantTypes DEF Versions
<1>2. QED
  BY <1>1 DEF Leq

\* While an operation works on its target slot, before the commit, nothing a
\* reader or a reboot could tell changes.
LEMMA CacheEdit ==
    ASSUME IInv, TypeOK', op.pc \in EarlyPcs, UNCHANGED <<flash, handles, acked>>,
           cache'.commit[OtherSlot(op.slot)] = cache.commit[OtherSlot(op.slot)],
           cache'.record[OtherSlot(op.slot)] = cache.record[OtherSlot(op.slot)],
           cache'.commit[op.slot] \in {cache.commit[op.slot], Absent}
    PROVE  /\ Good(cache)' /\ Good(flash)'
           /\ Version(cache)' = Version(cache)
           /\ TargetSlot(cache)' = op.slot
           /\ Lag' /\ HandleLag'
           /\ MayTimeout = FALSE => SameCurrent'
<1>1. /\ cache \in Images /\ cache' \in Images /\ Good(cache) /\ Good(flash)
      /\ op.slot = TargetSlot(cache)
  BY DEF IInv, TypeOK, OpEarly
<1>2. /\ Good(cache')
      /\ Version(cache') = Version(cache)
      /\ TargetSlot(cache') = op.slot
      /\ Blank(cache) => Blank(cache')
      /\ \A c \in Slots : Current(cache, c) => Current(cache', c)
  BY <1>1, TargetEdit
<1>3. Good(flash') /\ Lag'
  BY <1>1, <1>2 DEF IInv, Lag
<1>4. HandleLag'
  BY <1>2 DEF IInv, HandleLag
<1>5. ASSUME MayTimeout = FALSE PROVE SameCurrent'
  <2>1. SameCurrent
    BY <1>5 DEF IInv, NoLag, EarlyPcs, FinalPcs
  <2>2. CASE Blank(cache) /\ Blank(flash)
    BY <1>2, <2>2 DEF SameCurrent
  <2>3. CASE ~(Blank(cache) /\ Blank(flash))
    <3>1. PICK c \in Slots : /\ Current(cache, c) /\ Current(flash, c)
                             /\ flash.commit[c] = cache.commit[c]
                             /\ flash.record[c] = cache.record[c]
      BY <2>1, <2>3 DEF SameCurrent
    <3>2. c = OtherSlot(op.slot)
      BY <1>1, <3>1, CurrentFacts DEF OtherSlot, Slots
    <3>3. QED
      BY <1>2, <3>1, <3>2 DEF SameCurrent
  <2>4. QED
    BY <2>2, <2>3
<1>6. QED
  BY <1>2, <1>3, <1>4, <1>5

\* An operation that returns with an error leaves the invariant as it is, as
\* long as the slot it was working on is not the current one.
LEMMA FailStep ==
    ASSUME IInv, TypeOK', op' = Idle,
           Good(cache)', Good(flash)', Lag', HandleLag',
           MayTimeout = FALSE => SameCurrent'
    PROVE  IInv'
BY DEF IInv, Idle, OpEarly, OpFinal, Synced, NoLag, EarlyPcs, FinalPcs

\* The steps up to the commit: remove the target slot's files, write its record.
LEMMA EarlyStep ==
    ASSUME IInv, TypeOK', RemoveCommit \/ RemoveRecord \/ WriteRecord
    PROVE  IInv' /\ Version(cache)' = Version(cache)
<1>t. /\ op.slot \in Slots /\ OtherSlot(op.slot) # op.slot /\ OtherSlot(op.slot) \in Slots
      /\ cache \in Images
      /\ op \in [pc : {"idle", "remove_commit", "remove_record", "write_record", "sync", "wait",
                       "write_commit", "final_sync", "final_wait"},
                 kind : {"none", "put", "delete"}, slot : Slots,
                 generation : 0 .. MaxGeneration, value : Values \cup {NoValue}]
  BY DEF IInv, TypeOK, Slots, OtherSlot
<1>p. op.pc \in {"remove_commit", "remove_record", "write_record"} /\ op.pc \in EarlyPcs
  BY DEF RemoveCommit, RemoveRecord, WriteRecord, EarlyPcs
<1>o. /\ op.kind \in {"put", "delete"}
      /\ op.kind = "put" => op.value \in Values
      /\ op.pc = "write_record" => op.kind = "put"
      /\ op.kind = "delete" => op.value = NoValue /\ Version(cache).value # NoValue
      /\ op.slot = TargetSlot(cache)
      /\ op.generation = Version(cache).generation + 1
      /\ op.pc # "remove_commit" => cache.commit[op.slot] = Absent
  BY <1>p DEF IInv, OpEarly
<1>c. /\ UNCHANGED <<flash, handles, acked>>
      /\ cache'.commit[OtherSlot(op.slot)] = cache.commit[OtherSlot(op.slot)]
      /\ cache'.record[OtherSlot(op.slot)] = cache.record[OtherSlot(op.slot)]
      /\ cache'.commit[op.slot] \in {cache.commit[op.slot], Absent}
  <2>1. CASE RemoveCommit
    BY <1>t, <2>1 DEF RemoveCommit, Images
  <2>2. CASE RemoveRecord
    BY <1>t, <2>2 DEF RemoveRecord, Images
  <2>3. CASE WriteRecord
    BY <1>t, <2>3 DEF WriteRecord, Images
  <2>4. QED
    BY <2>1, <2>2, <2>3
<1>e. /\ Good(cache)' /\ Good(flash)'
      /\ Version(cache)' = Version(cache)
      /\ TargetSlot(cache)' = op.slot
      /\ Lag' /\ HandleLag'
      /\ MayTimeout = FALSE => SameCurrent'
  BY <1>p, <1>c, CacheEdit
<1>1. CASE op' = Idle
  BY <1>1, <1>e, FailStep
<1>2. CASE op' # Idle
  <2>1. /\ op' = [op EXCEPT !.pc = op'.pc]
        /\ op'.pc \in {"remove_record", "write_record", "sync"}
        /\ op'.pc = "write_record" => op.kind = "put"
        /\ cache'.commit[op.slot] = Absent
        /\ op'.pc = "sync" /\ op.kind = "put" =>
              cache'.record[op.slot] = [generation |-> op.generation, value |-> op.value]
    <3>1. CASE RemoveCommit
      BY <1>t, <1>2, <3>1 DEF RemoveCommit, Fail, Images
    <3>2. CASE RemoveRecord
      BY <1>t, <1>o, <1>2, <3>2 DEF RemoveRecord, Fail, Images
    <3>3. CASE WriteRecord
      BY <1>t, <1>o, <1>2, <3>3 DEF WriteRecord, Fail, Images
    <3>4. QED
      BY <3>1, <3>2, <3>3
  <2>2. op'.kind = op.kind /\ op'.value = op.value /\ op'.slot = op.slot /\ op'.generation = op.generation
    BY <1>t, <2>1
  <2>3. OpEarly'
    BY <1>o, <1>e, <2>1, <2>2 DEF OpEarly
  <2>4. OpFinal' /\ Synced' /\ NoLag'
    BY <1>e, <2>1 DEF OpFinal, Synced, NoLag, FinalPcs
  <2>5. QED
    BY <1>e, <2>3, <2>4 DEF IInv
<1>3. QED
  BY <1>1, <1>2

\* The commit itself: one file write makes the new version current.
LEMMA WriteCommitStep ==
    ASSUME IInv, TypeOK', WriteCommit
    PROVE  /\ IInv'
           /\ \/ cache' = cache
              \/ Version(cache)' = [generation |-> op.generation, value |-> op.value]
<1>t. /\ op.slot \in Slots /\ OtherSlot(op.slot) # op.slot /\ OtherSlot(op.slot) \in Slots
      /\ cache \in Images /\ cache' \in Images /\ Good(cache) /\ flash = cache
      /\ flash' = flash /\ acked' = acked /\ handles' = handles
  BY DEF IInv, TypeOK, Slots, OtherSlot, WriteCommit, Synced
<1>o. /\ op.kind \in {"put", "delete"}
      /\ op.kind = "put" => op.value \in Values
      /\ op.kind = "delete" => op.value = NoValue
      /\ op.slot = TargetSlot(cache)
      /\ op.generation = Version(cache).generation + 1
      /\ cache.commit[op.slot] = Absent
      /\ op.kind = "put" => cache.record[op.slot] = [generation |-> op.generation, value |-> op.value]
  BY DEF IInv, OpEarly, WriteCommit, EarlyPcs
<1>1. CASE op' = Idle
  <2>1. cache' = cache
    BY <1>1 DEF WriteCommit, Idle, Fail
  <2>2. SameCurrent'
    BY <1>t, <2>1 DEF SameCurrent, Good
  <2>3. Good(cache)' /\ Good(flash)' /\ Lag' /\ HandleLag'
    BY <1>t, <2>1 DEF IInv, Lag, HandleLag
  <2>4. QED
    BY <1>1, <2>1, <2>2, <2>3, FailStep
<1>2. CASE op' # Idle
  <2>1. /\ cache' = [cache EXCEPT !.commit[op.slot] = CommitOf(op)]
        /\ op' = [op EXCEPT !.pc = "final_sync"]
    BY <1>2 DEF WriteCommit, Fail
  <2>2. /\ op'.pc = "final_sync" /\ op'.kind = op.kind /\ op'.value = op.value
        /\ op'.slot = op.slot /\ op'.generation = op.generation
    BY <2>1 DEF IInv, TypeOK
  <2>3. /\ cache'.commit[op.slot] = CommitOf(op)
        /\ cache'.commit[OtherSlot(op.slot)] = cache.commit[OtherSlot(op.slot)]
        /\ cache'.record = cache.record
    BY <1>t, <2>1 DEF Images
  <2>4. Version(cache) \in Versions /\ Version(cache).generation \in Nat
    BY <1>t, GoodFacts, ConstantTypes DEF Versions
  <2>5. cache.commit[OtherSlot(op.slot)] # Absent =>
           cache.commit[OtherSlot(op.slot)].generation = Version(cache).generation
    <3>1. CASE Blank(cache)
      BY <1>t, <3>1 DEF Blank
    <3>2. CASE \E c \in Slots : Current(cache, c)
      BY <1>t, <1>o, <3>2, CurrentFacts DEF OtherSlot, Slots
    <3>3. QED
      BY <1>t, <3>1, <3>2 DEF Good
  <2>6. /\ CommitOf(op).generation = op.generation
        /\ CommitOf(op).deleted <=> op.kind = "delete"
        /\ op.kind = "delete" => CommitOf(op).tag = NoTag
        /\ op.kind = "put" => CommitOf(op).tag = [generation |-> op.generation, value |-> op.value]
        /\ CommitOf(op).tag.value = op.value
    BY <1>o DEF CommitOf, NoTag
  <2>7. CommitOf(op) # Absent /\ CommitOf(op) \in Commits
    <3>1. op.generation \in Generations
      <4>1. op.generation \in 0 .. MaxGeneration
        BY DEF IInv, TypeOK
      <4>2. QED
        BY <1>o, <2>4, <4>1, ConstantTypes DEF Generations
    <3>2. CommitOf(op) \in Commits
      BY <1>o, <3>1 DEF CommitOf, Commits, Records
    <3>3. QED
      BY <3>2, AbsentIsNoContent
  <2>8. CommitShape(CommitOf(op)) /\ ParseCommit(cache', op.slot)
    BY <1>o, <1>t, <2>3, <2>6, <2>7, AbsentIsNoContent DEF CommitShape, ParseCommit, Images,
       Records, Commits
  <2>9. Current(cache', op.slot)
    BY <1>o, <2>3, <2>4, <2>5, <2>6, <2>8 DEF Current
  <2>10. Version(cache') = [generation |-> op.generation, value |-> op.value]
    BY <1>t, <2>3, <2>6, <2>9, CurrentFacts
  <2>11. Good(cache)' /\ Good(flash)'
    BY <1>t, <2>9 DEF Good
  <2>12. OpFinal'
    BY <1>t, <1>o, <2>2, <2>3, <2>9, <2>10 DEF OpFinal
  <2>13. OpEarly' /\ Synced' /\ NoLag'
    BY <2>2 DEF OpEarly, Synced, NoLag, EarlyPcs, FinalPcs
  <2>14. Leq(Version(cache), Version(cache'))
    BY <1>o, <2>4, <2>10 DEF Leq
  <2>15. Version(cache') \in Versions /\ acked \in Versions
    BY <1>t, <2>9, CurrentFacts DEF IInv, TypeOK, Versions
  <2>16. Lag'
    BY <1>t, <2>14 DEF Lag, IInv
  <2>17. HandleLag'
    <3>1. SUFFICES ASSUME NEW i \in 1 .. MaxHandles, handles[i].token # 0
                   PROVE  Leq([generation |-> handles[i].generation, value |-> handles[i].value], Version(cache'))
      BY <1>t DEF HandleLag
    <3>2. [generation |-> handles[i].generation, value |-> handles[i].value] \in Versions
      BY DEF IInv, TypeOK, Versions
    <3>3. Leq([generation |-> handles[i].generation, value |-> handles[i].value], Version(cache))
      BY <3>1 DEF IInv, HandleLag
    <3>4. QED
      BY <2>4, <2>14, <2>15, <3>2, <3>3, LeqFacts
  <2>18. QED
    BY <2>10, <2>11, <2>12, <2>13, <2>16, <2>17 DEF IInv
<1>3. QED
  BY <1>1, <1>2

\* Core 0 writes a sector out. Either the whole image goes at once, or no wait
\* ever times out and then flash lags only in the slot being written.
LEMMA DrainStep ==
    ASSUME IInv, TypeOK', NEW S \in Sectors, Drain(S)
    PROVE  IInv' /\ Version(flash)' \in {Version(flash), Version(cache)}
<1>t. /\ cache \in Images /\ flash \in Images /\ flash' \in Images
      /\ cache' = cache /\ op' = op /\ handles' = handles /\ acked' = acked
      /\ Good(cache) /\ Good(flash)
      /\ op.slot \in Slots
      /\ flash_available' = (flash' # cache)
  BY DEF IInv, TypeOK, Drain
<1>d. \A s \in Slots : /\ flash'.record[s] \in {flash.record[s], cache.record[s]}
                       /\ flash'.commit[s] \in {flash.commit[s], cache.commit[s]}
  BY DEF Drain, Drained
<1>v. Version(cache) \in Versions /\ Version(flash) \in Versions /\ acked \in Versions
  BY <1>t, GoodFacts DEF IInv, TypeOK, Versions
<1>l. Leq(acked, Version(flash)) /\ Leq(Version(flash), Version(cache)) /\ Leq(acked, Version(cache))
  BY <1>v, LeqFacts DEF IInv, Lag
<1>c. flash = cache => flash' = cache
  BY <1>t, <1>d, ImageEq
<1>k. OpEarly' /\ HandleLag' /\ Synced'
  <2>1. OpEarly' /\ HandleLag'
    BY <1>t DEF IInv, OpEarly, HandleLag
  <2>2. Synced'
    BY <1>t, <1>c DEF IInv, Synced
  <2>3. QED
    BY <2>1, <2>2
<1>1. CASE flash' = cache
  <2>1. Good(cache)' /\ Good(flash)' /\ Lag'
    BY <1>1, <1>t, <1>v, <1>l, LeqFacts DEF Lag
  <2>2. OpFinal'
    BY <1>1, <1>t DEF IInv, OpFinal
  <2>3. NoLag'
    BY <1>1, <1>t DEF NoLag, SameCurrent, Good
  <2>4. QED
    BY <1>1, <1>k, <2>1, <2>2, <2>3 DEF IInv
<1>2. CASE flash' # cache /\ op.pc \in FinalPcs
  <2>1. /\ flash.record = cache.record
        /\ flash.commit[OtherSlot(op.slot)] = cache.commit[OtherSlot(op.slot)]
        /\ flash.commit[op.slot] \in {Absent, cache.commit[op.slot]}
    BY <1>2 DEF IInv, OpFinal
  <2>2. \A s \in Slots : s = op.slot \/ s = OtherSlot(op.slot)
    BY <1>t DEF Slots, OtherSlot
  <2>3. flash' = cache \/ flash' = flash
    <3>1. CASE flash'.commit[op.slot] = cache.commit[op.slot]
      BY <1>t, <1>d, <2>1, <2>2, <3>1, ImageEq
    <3>2. CASE flash'.commit[op.slot] = flash.commit[op.slot]
      BY <1>t, <1>d, <2>1, <2>2, <3>2, ImageEq
    <3>3. QED
      BY <1>t, <1>d, <3>1, <3>2
  <2>4. QED
    BY <1>2, <1>t, <1>k, <2>3 DEF IInv, OpFinal, NoLag, Lag
<1>3. CASE flash' # cache /\ op.pc \notin FinalPcs
  <2>1. MayTimeout = FALSE
    <3>1. CASE Sectors = {Files}
      <4>1. \A s \in Slots : flash'.record[s] = cache.record[s] /\ flash'.commit[s] = cache.commit[s]
        BY <3>1 DEF Drain, Drained, Files
      <4>2. QED
        BY <1>3, <1>t, <4>1, ImageEq
    <3>2. QED
      BY <3>1, DrainAssumption
  <2>2. SameCurrent
    BY <1>3, <2>1 DEF IInv, NoLag
  <2>3. SameCurrent' /\ Good(flash') /\ Version(flash') = Version(cache)
    <3>1. CASE Blank(cache) /\ Blank(flash)
      <4>1. Blank(flash')
        BY <1>d, <3>1 DEF Blank
      <4>2. QED
        BY <1>t, <3>1, <4>1, BlankFacts DEF SameCurrent, Good
    <3>2. CASE ~(Blank(cache) /\ Blank(flash))
      <4>1. PICK c \in Slots : /\ Current(cache, c) /\ Current(flash, c)
                               /\ flash.commit[c] = cache.commit[c]
                               /\ flash.record[c] = cache.record[c]
        BY <2>2, <3>2 DEF SameCurrent
      <4>2. OtherSlot(c) \in Slots
        BY DEF Slots, OtherSlot
      <4>3. flash'.commit[c] = cache.commit[c] /\ flash'.record[c] = cache.record[c]
        BY <1>d, <4>1
      <4>4. flash'.commit[OtherSlot(c)] # Absent =>
              flash'.commit[OtherSlot(c)].generation < flash'.commit[c].generation
        BY <1>d, <4>1, <4>2, <4>3 DEF Current
      <4>5. Current(flash', c)
        BY <4>1, <4>3, <4>4 DEF Current, ParseCommit
      <4>6. Version(flash') = Version(cache)
        BY <1>t, <4>1, <4>3, <4>5, CurrentFacts
      <4>7. QED
        BY <1>t, <4>1, <4>3, <4>5, <4>6 DEF SameCurrent, Good
    <3>3. QED
      BY <3>1, <3>2
  <2>4. Good(cache)' /\ Good(flash)' /\ Lag' /\ NoLag' /\ OpFinal'
    BY <1>3, <1>t, <1>v, <1>l, <2>3, LeqFacts DEF Lag, NoLag, OpFinal
  <2>5. QED
    BY <1>t, <1>k, <2>3, <2>4 DEF IInv
<1>4. QED
  BY <1>1, <1>2, <1>3

\* A reboot starts from flash, which holds a good image of its own.
LEMMA CrashStep ==
    ASSUME IInv, TypeOK', Crash
    PROVE  IInv'
<1>1. cache' = flash /\ flash' = flash /\ acked' = Version(flash) /\ op' = Idle /\ Good(flash) /\ flash \in Images
  BY DEF IInv, TypeOK, Crash
<1>2. Version(flash) \in Versions
  BY <1>1, GoodFacts
<1>3. Good(cache)' /\ Good(flash)' /\ Lag'
  BY <1>1, <1>2, LeqFacts DEF Lag
<1>4. HandleLag'
  BY DEF Crash, HandleLag, FreeHandle
<1>5. SameCurrent'
  BY <1>1 DEF SameCurrent, Good
<1>6. QED
  BY <1>1, <1>3, <1>4, <1>5, FailStep

\* The steps that touch neither image.
LEMMA ControlStep ==
    ASSUME IInv, TypeOK',
           \/ \E v \in Values : Put(v)
           \/ Delete
           \/ CommitSync
           \/ SyncDone
           \/ Return
           \/ SyncTimeout
           \/ RequestCommit
           \/ \E i \in 1 .. MaxHandles, t \in 1 .. TokenSpace - 1 : Open(i, t)
           \/ \E i \in 1 .. MaxHandles : Close(i)
    PROVE  IInv'
<1>u. cache' = cache /\ flash' = flash
  BY DEF Put, Delete, CommitSync, SyncDone, Return, SyncTimeout, RequestCommit, Open, Close
<1>t. /\ cache \in Images /\ flash \in Images /\ Good(cache) /\ Good(flash)
      /\ Version(cache) \in Versions /\ Version(flash) \in Versions /\ acked \in Versions
      /\ Good(cache)' /\ Good(flash)'
  BY <1>u, GoodFacts DEF IInv, TypeOK, Versions
<1>1. ASSUME NEW v \in Values, Put(v) PROVE IInv'
  <2>1. op.pc = "idle" /\ handles' = handles /\ acked' = acked
    BY <1>1 DEF Put, Idle
  <2>2. OpEarly' /\ OpFinal' /\ Synced'
    BY <1>1, <1>u DEF Put, NextGeneration, OpEarly, OpFinal, Synced, EarlyPcs, FinalPcs
  <2>3. NoLag' /\ Lag' /\ HandleLag'
    BY <1>u, <2>1 DEF IInv, NoLag, SameCurrent, Lag, HandleLag, FinalPcs
  <2>4. QED
    BY <1>t, <2>2, <2>3 DEF IInv
<1>2. ASSUME Delete PROVE IInv'
  <2>1. op.pc = "idle" /\ handles' = handles /\ acked' = acked
    BY <1>2 DEF Delete, Idle
  <2>2. OpEarly' /\ OpFinal' /\ Synced'
    BY <1>2, <1>u DEF Delete, NextGeneration, TargetSlot, OpEarly, OpFinal, Synced, EarlyPcs, FinalPcs
  <2>3. NoLag' /\ Lag' /\ HandleLag'
    BY <1>u, <2>1 DEF IInv, NoLag, SameCurrent, Lag, HandleLag, FinalPcs
  <2>4. QED
    BY <1>t, <2>2, <2>3 DEF IInv
<1>3. ASSUME CommitSync PROVE IInv'
  <2>1. /\ \/ op.pc = "sync" /\ op'.pc = "wait"
           \/ op.pc = "final_sync" /\ op'.pc = "final_wait"
        /\ op'.kind = op.kind /\ op'.value = op.value /\ op'.slot = op.slot /\ op'.generation = op.generation
        /\ flash_available' = TRUE /\ handles' = handles /\ acked' = acked
    BY <1>3 DEF CommitSync, IInv, TypeOK
  <2>2. OpEarly'
    BY <1>u, <2>1 DEF IInv, OpEarly, EarlyPcs
  <2>3. OpFinal'
    BY <1>u, <2>1 DEF IInv, OpFinal, FinalPcs
  <2>4. Synced' /\ NoLag' /\ Lag' /\ HandleLag'
    BY <1>u, <2>1 DEF IInv, Synced, NoLag, SameCurrent, Lag, HandleLag, FinalPcs
  <2>5. QED
    BY <1>t, <2>2, <2>3, <2>4 DEF IInv
<1>4. ASSUME SyncDone PROVE IInv'
  <2>1. /\ op.pc = "wait" /\ op'.pc = "write_commit" /\ ~flash_available
        /\ op'.kind = op.kind /\ op'.value = op.value /\ op'.slot = op.slot /\ op'.generation = op.generation
        /\ handles' = handles /\ acked' = acked
    BY <1>4 DEF SyncDone, IInv, TypeOK
  <2>2. OpEarly'
    BY <1>u, <2>1 DEF IInv, OpEarly, EarlyPcs
  <2>3. OpFinal' /\ Synced' /\ NoLag' /\ Lag' /\ HandleLag'
    BY <1>u, <2>1 DEF IInv, OpFinal, Synced, NoLag, SameCurrent, Lag, HandleLag, FinalPcs
  <2>4. QED
    BY <1>t, <2>2, <2>3 DEF IInv
<1>5. ASSUME Return PROVE IInv'
  <2>1. /\ op.pc = "final_wait" /\ op' = Idle /\ flash = cache /\ handles' = handles
        /\ acked' = [generation |-> op.generation, value |-> op.value]
    BY <1>5 DEF Return, IInv, Synced
  <2>2. Version(cache) = acked'
    BY <2>1 DEF IInv, OpFinal, FinalPcs
  <2>3. Lag' /\ HandleLag'
    BY <1>u, <1>t, <2>1, <2>2, LeqFacts DEF IInv, Lag, HandleLag
  <2>4. SameCurrent'
    BY <1>u, <1>t, <2>1 DEF SameCurrent, Good
  <2>5. QED
    BY <1>t, <2>1, <2>3, <2>4, FailStep
<1>6. ASSUME SyncTimeout PROVE IInv'
  <2>1. MayTimeout /\ op' = Idle /\ handles' = handles /\ acked' = acked
    BY <1>6 DEF SyncTimeout, Fail
  <2>2. Lag' /\ HandleLag'
    BY <1>u, <2>1 DEF IInv, Lag, HandleLag
  <2>3. QED
    BY <1>t, <2>1, <2>2, FailStep
<1>7. ASSUME RequestCommit PROVE IInv'
  <2>1. op' = op /\ handles' = handles /\ acked' = acked /\ flash_available' = TRUE
    BY <1>7 DEF RequestCommit
  <2>2. OpEarly' /\ OpFinal'
    BY <1>u, <2>1 DEF IInv, OpEarly, OpFinal
  <2>3. Synced' /\ NoLag' /\ Lag' /\ HandleLag'
    BY <1>u, <2>1 DEF IInv, Synced, NoLag, SameCurrent, Lag, HandleLag
  <2>4. QED
    BY <1>t, <2>2, <2>3 DEF IInv
<1>8. ASSUME NEW i \in 1 .. MaxHandles, NEW t \in 1 .. TokenSpace - 1, Open(i, t) PROVE IInv'
  <2>1. op' = op /\ acked' = acked /\ flash_available' = flash_available
    BY <1>8 DEF Open
  <2>2. OpEarly' /\ OpFinal'
    BY <1>u, <2>1 DEF IInv, OpEarly, OpFinal
  <2>3. Synced' /\ NoLag' /\ Lag'
    BY <1>u, <2>1 DEF IInv, Synced, NoLag, SameCurrent, Lag
  <2>4. [generation |-> Version(cache).generation, value |-> Version(cache).value] = Version(cache)
    BY <1>t DEF Versions
  <2>5. HandleLag'
    <3>1. /\ handles'[i].generation = Version(cache).generation /\ handles'[i].value = Version(cache).value
          /\ \A j \in 1 .. MaxHandles : j # i => handles'[j] = handles[j]
      BY <1>8 DEF Open, IInv, TypeOK
    <3>2. Leq(Version(cache), Version(cache))
      BY <1>t, LeqFacts
    <3>3. QED
      BY <1>u, <2>4, <3>1, <3>2 DEF IInv, HandleLag
  <2>6. QED
    BY <1>t, <2>2, <2>3, <2>5 DEF IInv
<1>9. ASSUME NEW i \in 1 .. MaxHandles, Close(i) PROVE IInv'
  <2>1. op' = op /\ acked' = acked /\ flash_available' = flash_available
    BY <1>9 DEF Close
  <2>2. OpEarly' /\ OpFinal'
    BY <1>u, <2>1 DEF IInv, OpEarly, OpFinal
  <2>3. Synced' /\ NoLag' /\ Lag'
    BY <1>u, <2>1 DEF IInv, Synced, NoLag, SameCurrent, Lag
  <2>4. HandleLag'
    BY <1>9, <1>u DEF Close, FreeHandle, IInv, TypeOK, HandleLag
  <2>5. QED
    BY <1>t, <2>2, <2>3, <2>4 DEF IInv
<1>10. QED
  BY <1>1, <1>2, <1>3, <1>4, <1>5, <1>6, <1>7, <1>8, <1>9

\* Every step keeps the inductive invariant.
LEMMA IInvStep == IInv /\ [Next]_vars => IInv'
<1> SUFFICES ASSUME IInv, [Next]_vars PROVE IInv'
  OBVIOUS
<1>1. TypeOK'
  BY TypeOKStep
<1>2. CASE RemoveCommit \/ RemoveRecord \/ WriteRecord
  BY <1>1, <1>2, EarlyStep
<1>3. CASE WriteCommit
  BY <1>1, <1>3, WriteCommitStep
<1>4. CASE \E S \in Sectors : Drain(S)
  BY <1>1, <1>4, DrainStep
<1>5. CASE Crash
  BY <1>1, <1>5, CrashStep
<1>6. CASE UNCHANGED vars
  <2>1. Good(cache)' /\ Good(flash)' /\ OpEarly' /\ OpFinal' /\ Synced'
    BY <1>6 DEF vars, IInv, OpEarly, OpFinal, Synced
  <2>2. NoLag' /\ Lag' /\ HandleLag'
    BY <1>6 DEF vars, IInv, NoLag, SameCurrent, Lag, HandleLag
  <2>3. QED
    BY <1>1, <2>1, <2>2 DEF IInv
<1>7. QED
  BY <1>1, <1>2, <1>3, <1>4, <1>5, <1>6, ControlStep DEF Next

-----------------------------------------------------------------------------
\* The inductive invariant holds in every reachable state.
THEOREM Invariance == Spec => []IInv
  BY InitIInv, IInvStep, PTL DEF Spec

\* Types: in particular the generation counter never leaves its range.
THEOREM TypeCorrect == Spec => []TypeOK
<1>1. IInv => TypeOK
  BY DEF IInv
<1>2. QED
  BY Invariance, <1>1, PTL

\* recover never reports WRONG_DATA: neither image ever holds two valid commits
\* of the same generation.
THEOREM NeverAmbiguous == Spec => []Unambiguous
<1>1. IInv => Unambiguous
  BY GoodFacts DEF IInv, TypeOK, Unambiguous
<1>2. QED
  BY Invariance, <1>1, PTL

\* What put and delete reported as stored, a reboot at any later point finds,
\* or something newer.
THEOREM AckedSurvives == Spec => []AckedSurvivesPowerLoss
<1>1. IInv => AckedSurvivesPowerLoss
  <2>1. SUFFICES ASSUME IInv PROVE AckedSurvivesPowerLoss
    OBVIOUS
  <2>2. Leq(acked, Version(flash)) /\ Version(flash) \in Versions /\ acked \in Versions
    BY <2>1, GoodFacts DEF IInv, Lag, TypeOK, Versions
  <2>3. QED
    BY <2>2, ConstantTypes DEF Leq, AckedSurvivesPowerLoss, Versions
<1>2. QED
  BY Invariance, <1>1, PTL

\* A handle that resolves reads the payload it was opened on.
THEOREM HandlesReadTheirVersion == Spec => []HandleReadsItsVersion
<1>1. IInv => HandleReadsItsVersion
  <2>1. SUFFICES ASSUME IInv, NEW i \in 1 .. MaxHandles, Resolves(handles[i])
                 PROVE  ReadAt(handles[i]) = handles[i].value
    BY DEF HandleReadsItsVersion
  <2>2. cache \in Images /\ Good(cache) /\ RecoverStatus(cache) = "ok"
    BY <2>1 DEF IInv, TypeOK, Resolves
  <2>3. PICK c \in Slots : Current(cache, c)
    BY <2>2, GoodFacts
  <2>4. /\ Newest(cache) = c /\ handles[i].slot = c
        /\ Version(cache).value = cache.commit[c].tag.value
        /\ ~cache.commit[c].deleted
        /\ Version(cache).generation \in Generations
    BY <2>1, <2>2, <2>3, CurrentFacts DEF Resolves
  <2>5. ReadAt(handles[i]) = Version(cache).value
    BY <2>3, <2>4 DEF Current, ParseCommit, ReadAt
  <2>6. Leq([generation |-> handles[i].generation, value |-> handles[i].value], Version(cache))
    BY <2>1 DEF IInv, HandleLag, Resolves
  <2>7. handles[i].generation = Version(cache).generation
    BY <2>1 DEF Resolves
  <2>8. handles[i].value = Version(cache).value
    BY <2>4, <2>6, <2>7, ConstantTypes DEF Leq, Generations
  <2>9. QED
    BY <2>5, <2>8
<1>2. QED
  BY Invariance, <1>1, PTL

\* Open handles have different tokens, whatever the counter has wrapped to.
THEOREM TokensDistinct == Spec => []OpenTokensDistinct
<1>1. Init => OpenTokensDistinct
  BY DEF Init, OpenTokensDistinct, FreeHandle
<1>2. TypeOK /\ OpenTokensDistinct /\ [Next]_vars => OpenTokensDistinct'
  <2> SUFFICES ASSUME TypeOK, OpenTokensDistinct, [Next]_vars PROVE OpenTokensDistinct'
    OBVIOUS
  <2>1. CASE UNCHANGED handles
    BY <2>1 DEF OpenTokensDistinct
  <2>2. ASSUME NEW i \in 1 .. MaxHandles, NEW t \in 1 .. TokenSpace - 1, Open(i, t) PROVE OpenTokensDistinct'
    <3>1. \A j \in 1 .. MaxHandles : handles[j].token # t
      BY <2>2 DEF Open, AllocateToken, Tokens
    <3>2. /\ handles'[i].token = t
          /\ \A j \in 1 .. MaxHandles : j # i => handles'[j] = handles[j]
      BY <2>2 DEF Open, TypeOK
    <3>3. QED
      BY <3>1, <3>2 DEF OpenTokensDistinct
  <2>3. ASSUME NEW i \in 1 .. MaxHandles, Close(i) PROVE OpenTokensDistinct'
    <3>1. /\ handles'[i].token = 0
          /\ \A j \in 1 .. MaxHandles : j # i => handles'[j] = handles[j]
      BY <2>3 DEF Close, TypeOK, FreeHandle
    <3>2. QED
      BY <3>1 DEF OpenTokensDistinct
  <2>4. CASE Crash
    BY <2>4 DEF Crash, OpenTokensDistinct, FreeHandle
  <2>5. QED
    BY <2>1, <2>2, <2>3, <2>4 DEF Next, vars, Put, Delete, RemoveCommit, RemoveRecord, WriteRecord,
       WriteCommit, CommitSync, SyncDone, Return, SyncTimeout, RequestCommit, Drain
<1>3. QED
  BY <1>1, <1>2, TypeCorrect, PTL DEF Spec

\* A step seen from outside: nothing changes, or the commit makes the next
\* version visible, or flash catches up, or success is reported for a version
\* that is already durable, or the power fails.
LEMMA AbstractStep == IInv /\ [Next]_vars => [Abstract!ANext]_(Abstract!avars)
<1> SUFFICES ASSUME IInv, [Next]_vars PROVE [Abstract!ANext]_(Abstract!avars)
  OBVIOUS
<1>1. TypeOK'
  BY TypeOKStep
<1>t. /\ cache \in Images /\ flash \in Images /\ Good(cache) /\ Good(flash)
      /\ Version(cache) \in Versions /\ Version(flash) \in Versions
  BY GoodFacts DEF IInv, TypeOK
<1>2. CASE RemoveCommit \/ RemoveRecord \/ WriteRecord
  <2>1. Version(cache)' = Version(cache)
    BY <1>1, <1>2, EarlyStep
  <2>2. flash' = flash /\ acked' = acked
    BY <1>2 DEF RemoveCommit, RemoveRecord, WriteRecord
  <2>3. QED
    BY <2>1, <2>2 DEF Abstract!avars
<1>3. CASE WriteCommit
  <2>1. flash' = flash /\ acked' = acked
    BY <1>3 DEF WriteCommit
  <2>2. \/ cache' = cache
        \/ Version(cache)' = [generation |-> op.generation, value |-> op.value]
    BY <1>1, <1>3, WriteCommitStep
  <2>3. CASE cache' = cache
    BY <2>1, <2>3 DEF Abstract!avars
  <2>4. CASE Version(cache)' = [generation |-> op.generation, value |-> op.value]
    <3>1. /\ op.generation = Version(cache).generation + 1
          /\ \/ op.value \in Values
             \/ op.value = NoValue /\ Version(cache).value # NoValue
      BY <1>3 DEF IInv, OpEarly, EarlyPcs, WriteCommit
    <3>2. op.generation \in 0 .. MaxGeneration /\ Version(cache).generation \in 0 .. MaxGeneration
      BY <1>t DEF IInv, TypeOK, Versions
    <3>3. Version(cache).generation < MaxGeneration
      BY <3>1, <3>2, ConstantTypes
    <3>4. Abstract!Update(op.value)
      BY <2>1, <2>4, <3>1, <3>3 DEF Abstract!Update
    <3>5. QED
      BY <3>1, <3>4 DEF Abstract!ANext, Abstract!Remove
  <2>5. QED
    BY <2>2, <2>3, <2>4
<1>4. CASE \E S \in Sectors : Drain(S)
  <2>1. Version(flash)' \in {Version(flash), Version(cache)}
    BY <1>1, <1>4, DrainStep
  <2>2. cache' = cache /\ acked' = acked
    BY <1>4 DEF Drain
  <2>3. QED
    BY <2>1, <2>2 DEF Abstract!ANext, Abstract!Persist, Abstract!avars
<1>5. CASE Crash
  BY <1>5 DEF Crash, Abstract!ANext, Abstract!LosePower
<1>6. CASE Return
  <2>1. /\ op.pc = "final_wait" /\ flash = cache /\ flash' = flash /\ cache' = cache
        /\ acked' = [generation |-> op.generation, value |-> op.value]
    BY <1>6 DEF Return, IInv, Synced
  <2>2. Version(cache) = acked'
    BY <2>1 DEF IInv, OpFinal, FinalPcs
  <2>3. QED
    BY <2>1, <2>2 DEF Abstract!ANext, Abstract!Acknowledge
<1>7. CASE cache' = cache /\ flash' = flash /\ acked' = acked
  BY <1>7 DEF Abstract!avars
<1>8. QED
  <2>1. CASE UNCHANGED vars
    BY <2>1, <1>7 DEF vars
  <2>2. CASE Next
    BY <2>2, <1>2, <1>3, <1>4, <1>5, <1>6, <1>7
       DEF Next, Put, Delete, CommitSync, SyncDone, SyncTimeout, RequestCommit, Open, Close
  <2>3. QED
    BY <2>1, <2>2

\* The store implements the atomic object, whatever the schedule of the two
\* cores, the failures and the power losses.
THEOREM Refinement == Spec => ImplementsAtomicObject
<1>1. Init => Abstract!AInit
  <2>1. SUFFICES ASSUME Init PROVE Abstract!AInit
    OBVIOUS
  <2>2. cache \in Images /\ flash \in Images /\ Blank(cache) /\ Blank(flash)
    BY <2>1 DEF Init, EmptyImage, Images, Blank
  <2>3. QED
    BY <2>1, <2>2, BlankFacts DEF Init, Abstract!AInit, Abstract!NeverWritten
<1>2. QED
  BY <1>1, Invariance, AbstractStep, PTL DEF Spec, ImplementsAtomicObject, Abstract!ASpec

\* The visible generation never skips and never goes back except to what flash
\* holds when the power fails.
THEOREM GenerationsMonotone == Spec => GenerationsAdvance
<1>1. ASSUME IInv, [Next]_vars
      PROVE  [\/ Version(cache)' = Version(cache)
              \/ Version(cache)'.generation = Version(cache).generation + 1
              \/ cache' = flash]_vars
  <2>1. TypeOK'
    BY <1>1, TypeOKStep
  <2>2. CASE RemoveCommit \/ RemoveRecord \/ WriteRecord
    BY <1>1, <2>1, <2>2, EarlyStep
  <2>3. CASE WriteCommit
    <3>1. op.generation = Version(cache).generation + 1
      BY <1>1, <2>3 DEF IInv, OpEarly, EarlyPcs, WriteCommit
    <3>2. \/ cache' = cache
          \/ Version(cache)' = [generation |-> op.generation, value |-> op.value]
      BY <1>1, <2>1, <2>3, WriteCommitStep
    <3>3. QED
      BY <3>1, <3>2
  <2>4. CASE Crash
    BY <2>4 DEF Crash
  <2>5. CASE cache' = cache
    BY <2>5
  <2>6. QED
    BY <1>1, <2>2, <2>3, <2>4, <2>5
       DEF Next, vars, Put, Delete, CommitSync, SyncDone, Return, SyncTimeout, RequestCommit, Drain, Open, Close
<1>2. QED
  BY <1>1, Invariance, PTL DEF Spec, GenerationsAdvance

=============================================================================
