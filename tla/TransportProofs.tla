--------------------------- MODULE TransportProofs ----------------------------
(***************************************************************************)
(* Proofs for UsbCard as MCTransport runs it, for any clients, any traffic *)
(* and any size of the queues: a touch goes to the request that asked for  *)
(* it, a response never crosses interfaces, a confirmed reboot is not lost *)
(* and, with CTAP2 clients only, a wait for the touch is not forgotten.    *)
(* And for Apdu with one host on a CCID interface, for any sizes of the    *)
(* buffers: commands reach the applet whole, responses reach the host.     *)
(***************************************************************************)
EXTENDS MCTransport, SequenceTheorems, TLAPS

Clients == Cids \cup SessionCids
AllJobs == [kind : Messages \cup {"none"}, from : Clients \cup {"ccid"}]
AllEvents == [ev : UsbEvents, job : AllJobs]
Threads == {"apdu_thread", "cbor_thread"}

Types ==
    /\ core0 \in {"loop", "ack", "rebooted"}
    /\ worker \in {"off", "idle", "exec", "wait", "done"}
    /\ armed \in BOOLEAN
    /\ locked \in {NoLock} \cup {LockFor(k) : k \in Messages}
    /\ resume \in AllJobs /\ job \in AllJobs
    /\ buffer \in [Threads -> AllJobs]
    /\ toCard \in Seq(CardEvents) /\ toUsb \in Seq(AllEvents)

\* Where a request for the touch, or its answer, can be
Presses == {i \in 1 .. Len(toUsb) : toUsb[i].ev = "press"}
Replies == {i \in 1 .. Len(toCard) : toCard[i] \in Answers}

\* One request for the touch is under way at most: as an event, as the armed button or as an answer.
Presence ==
    core0 # "rebooted" =>
        /\ armed => worker = "wait"
        /\ \A i \in Presses : worker = "wait" /\ ~armed /\ Replies = {}
        /\ \A i \in Replies : worker = "wait" /\ ~armed
        /\ \A i, j \in Presses : i = j
        /\ \A i, j \in Replies : i = j

\* EXIT and its acknowledgement are there only while core 0 waits; the acknowledgement is the last
\* thing a worker does.
Exiting ==
    /\ core0 = "rebooted" => worker = "off"
    /\ core0 = "loop" => \A i \in 1 .. Len(toCard) : toCard[i] # "exit"
    /\ \A i \in 1 .. Len(toUsb) :
          toUsb[i].ev = "exit_ack" => core0 # "loop" /\ worker = "off" /\ i = Len(toUsb)

\* What the worker reads, runs and has answered is of the interface that is locked, while core 0 is
\* in its loop.
Serving ==
    /\ locked = NoLock => worker = "off"
    /\ core0 = "loop" =>
          /\ locked = NoLock => toUsb = <<>>
          /\ locked # NoLock => Itf(buffer[locked.func].kind) = locked.itf
          /\ worker \in {"exec", "wait", "done"} => Itf(job.kind) = locked.itf
          /\ \A i \in 1 .. Len(toUsb) : toUsb[i].ev = "finished" => Itf(toUsb[i].job.kind) = locked.itf
    /\ core0 = "ack" => resume.kind = "init" \/ /\ resume.kind \in Messages
                                                /\ Itf(buffer[Func(resume.kind)].kind) = Itf(resume.kind)

CardInv == Types /\ Presence /\ Exiting /\ Serving

\* The last event of card_to_usb_q, behind the acknowledgement of the command
LastIs(e) ==
    /\ Len(toUsb) \in 1 .. 2
    /\ toUsb[Len(toUsb)].ev = e
    /\ Len(toUsb) = 2 => toUsb[1].ev = "ack"

\* How far a CBOR request is
Phase ==
    \/ worker = "idle" /\ toCard = <<"cmd">> /\ toUsb = <<>> /\ ~armed
    \/ /\ worker = "exec" /\ job.kind \in CborKinds /\ toCard = <<>> /\ ~armed
       /\ toUsb = <<>> \/ (Len(toUsb) = 1 /\ toUsb[1].ev = "ack")
    \/ worker = "wait" /\ job.kind \in CborKinds /\ toCard = <<>> /\ LastIs("press") /\ ~armed
    \/ worker = "wait" /\ job.kind \in CborKinds /\ toCard = <<>> /\ toUsb = <<>> /\ armed
    \/ /\ worker = "wait" /\ job.kind \in CborKinds /\ toUsb = <<>> /\ ~armed
       /\ Len(toCard) = 1 /\ toCard[1] \in Answers
    \/ worker = "done" /\ toCard = <<>> /\ toUsb = <<>> /\ ~armed
    \/ worker = "idle" /\ toCard = <<>> /\ LastIs("finished") /\ ~armed

\* With CTAP2 clients only: hid_cbor_active says that a request is under way, and INIT stops idle
\* workers only.
SessionInv ==
    /\ locked \in {NoLock, LockFor("cbor")}
    /\ buffer["cbor_thread"].kind \in CborKinds \cup {"none"}
    /\ cborActive \in BOOLEAN /\ core0 # "rebooted"
    /\ core0 = "ack" => /\ ~cborActive /\ ~armed /\ resume.kind = "init"
                        /\ \/ worker = "idle" /\ toCard = <<"exit">> /\ toUsb = <<>>
                           \/ worker = "off" /\ toCard = <<>> /\ Len(toUsb) = 1 /\ toUsb[1].ev = "exit_ack"
    /\ core0 = "loop" /\ ~cborActive => ~armed /\ toCard = <<>> /\ toUsb = <<>> /\ worker \in {"off", "idle"}
    /\ core0 = "loop" /\ worker = "off" => locked = NoLock
    /\ cborActive => busy /\ locked = LockFor("cbor") /\ buffer["cbor_thread"].kind \in CborKinds /\ Phase

-----------------------------------------------------------------------------
(* Steps *)

\* The steps of MCTransport that are not those of Apdu, whatever the traffic
CardStep ==
    \/ \E k \in CcidKinds : XfrBlock(k)
    \/ \E k \in MsgKinds \cup CborKinds \cup {"init"}, c \in Clients : HidRequest(k, c)
    \/ \E c \in Clients : HidCancel(c)
    \/ \E s \in Clients \cup {"ccid"} : GiveUp(s)
    \/ Core0 \/ Core1 \/ Restart

\* What a queue holds after something was put in
LEMMA QueueAdd ==
    ASSUME NEW E, NEW q \in Seq(E), NEW e \in E
    PROVE  /\ Append(q, e) \in Seq(E) /\ Len(Append(q, e)) = Len(q) + 1 /\ Len(q) \in Nat
           /\ \A i \in 1 .. Len(q) : Append(q, e)[i] = q[i]
           /\ Append(q, e)[Len(q) + 1] = e
           /\ \A i \in 1 .. Len(Append(q, e)) :
                 \/ i = Len(q) + 1 /\ Append(q, e)[i] = e
                 \/ i \in 1 .. Len(q) /\ Append(q, e)[i] = q[i]
<1>1. Len(q) \in Nat /\ Len(Append(q, e)) = Len(q) + 1
  OBVIOUS
<1>2. \A i \in 1 .. Len(q) + 1 : i = Len(q) + 1 \/ i \in 1 .. Len(q)
  BY <1>1
<1>3. (\A i \in 1 .. Len(q) : Append(q, e)[i] = q[i]) /\ Append(q, e)[Len(q) + 1] = e
  OBVIOUS
<1> QED BY <1>1, <1>2, <1>3

\* What a queue holds after its first element was taken
LEMMA QueueRemove ==
    ASSUME NEW E, NEW q \in Seq(E), q # <<>>
    PROVE  /\ Tail(q) \in Seq(E) /\ Len(q) \in Nat \ {0} /\ Len(Tail(q)) = Len(q) - 1
           /\ \A i \in 1 .. Len(q) - 1 : Tail(q)[i] = q[i + 1]
           /\ Head(q) = q[1] /\ Head(q) \in E
OBVIOUS

\* An empty queue
LEMMA QueueEmpty ==
    ASSUME NEW E
    PROVE  <<>> \in Seq(E) /\ Len(<<>>) = 0
OBVIOUS

\* The invariant holds when the device starts.
LEMMA CardInit == Init => CardInv
<1> SUFFICES ASSUME Init PROVE CardInv
  OBVIOUS
<1>1. None \in AllJobs
  BY DEF None, AllJobs
<1>2. Types
  <2>1. buffer \in [Threads -> AllJobs]
    BY <1>1 DEF Init, EmptyBuffer, Threads
  <2>2. toCard \in Seq(CardEvents) /\ toUsb \in Seq(AllEvents)
    BY DEF Init
  <2> QED BY <1>1, <2>1, <2>2 DEF Init, Types
<1>3. Presence /\ Exiting /\ Serving
  BY DEF Init, Presence, Presses, Replies, Exiting, Serving
<1> QED BY <1>2, <1>3 DEF CardInv

\* A request is put in its buffer, and launched or kept until the worker has stopped.
LEMMA StartKeeps ==
    ASSUME CardInv, core0 = "loop", NEW m \in AllJobs, m.kind \in Messages, Start(m),
           buffer' \in [Threads -> AllJobs],
           Itf(buffer'[Func(m.kind)].kind) = Itf(m.kind),
           UNCHANGED <<toUsb, job, armed>>
    PROVE  CardInv'
<1> USE DEF CardInv
<1>0. m.kind # "init" => LockFor(m.kind) # NoLock
  BY DEF LockFor, NoLock, Itf
<1>1. CASE NeedsExit(m)
  <2>1. /\ core0' = "ack" /\ resume' = m /\ toCard' = Append(toCard, "exit")
        /\ UNCHANGED <<locked, worker>>
    BY <1>1 DEF Start
  <2>2. Types'
    BY <2>1, QueueAdd DEF Types, CardEvents
  <2>3. Presence'
    BY <2>1, QueueAdd DEF Types, CardEvents, Presence, Presses, Replies, Answers
  <2>4. Exiting'
    BY <2>1 DEF Exiting
  <2>5. Serving'
    BY <2>1 DEF Serving
  <2> QED BY <2>2, <2>3, <2>4, <2>5
<1>2. CASE ~NeedsExit(m) /\ m.kind = "init"
  <2>1. locked = NoLock /\ UNCHANGED <<core0, resume, locked, toCard, worker>>
    BY <1>2 DEF Start, Launch, NeedsExit
  <2>2. Types'
    BY <2>1 DEF Types
  <2>3. Presence' /\ Exiting' /\ Serving'
    BY <2>1 DEF Presence, Presses, Replies, Exiting, Serving, NoLock
  <2> QED BY <2>2, <2>3
<1>3. CASE ~NeedsExit(m) /\ m.kind # "init"
  <2>1. /\ locked' = LockFor(m.kind) /\ toCard' = Append(toCard, "cmd") /\ UNCHANGED <<core0, resume>>
        /\ worker' = IF locked = LockFor(m.kind) THEN worker ELSE "idle"
        /\ locked = NoLock \/ locked = LockFor(m.kind)
    BY <1>3 DEF Start, Launch, NeedsExit
  <2>2. Types'
    BY <2>1, QueueAdd DEF Types, CardEvents
  <2>3. Presence'
    BY <1>0, <2>1, QueueAdd DEF Types, CardEvents, Presence, Presses, Replies, Answers, Serving
  <2>4. Exiting'
    BY <2>1, QueueAdd DEF Types, CardEvents, Exiting, Serving
  <2>5. Serving'
    BY <1>0, <2>1, QueueEmpty DEF Serving, LockFor
  <2> QED BY <2>2, <2>3, <2>4, <2>5
<1> QED BY <1>1, <1>2, <1>3

\* Every step of the two cores and the hosts keeps the invariant.
LEMMA CardNext == CardInv /\ CardStep => CardInv'
<1> SUFFICES ASSUME CardInv, CardStep PROVE CardInv'
  OBVIOUS
<1> USE DEF CardInv
<1>0. None \in AllJobs /\ Event("exit_ack", None) \in AllEvents /\ Event("ack", None) \in AllEvents
  BY DEF None, AllJobs, AllEvents, Event, UsbEvents
<1>1. ASSUME NEW k \in CcidKinds, XfrBlock(k) PROVE CardInv'
  <2> DEFINE m == [kind |-> k, from |-> "ccid"]
  <2>1. m \in AllJobs /\ m.kind \in Messages /\ Func(m.kind) = "apdu_thread"
    BY DEF AllJobs, Messages, CcidKinds, CborKinds, Func
  <2>2. /\ core0 = "loop" /\ Start(m) /\ UNCHANGED <<toUsb, job, armed>>
        /\ buffer' = [buffer EXCEPT !["apdu_thread"] = m]
    BY <1>1 DEF XfrBlock
  <2>3. buffer' \in [Threads -> AllJobs] /\ buffer'["apdu_thread"] = m
    BY <2>1, <2>2 DEF Types, Threads
  <2> HIDE DEF m
  <2> QED BY <2>1, <2>2, <2>3, StartKeeps
<1>2. ASSUME NEW k \in MsgKinds \cup CborKinds \cup {"init"}, NEW c \in Clients, HidRequest(k, c) PROVE CardInv'
  <2> DEFINE m == [kind |-> k, from |-> c]
  <2>1. m \in AllJobs /\ m.kind = k /\ k \in Messages /\ Func(k) \in Threads
        /\ (Func(k) = "cbor_thread" => k \in CborKinds)
    BY DEF AllJobs, Messages, MsgKinds, CborKinds, Func, Threads
  <2>2. /\ core0 = "loop" /\ Start(m) /\ UNCHANGED <<toUsb, job, armed>>
        /\ buffer' = [f \in DOMAIN buffer |->
                        IF f = "apdu_thread" \/ k \in CborKinds THEN m ELSE buffer[f]]
    BY <1>2 DEF HidRequest
  <2>3. buffer' \in [Threads -> AllJobs] /\ buffer'[Func(k)] = m
    BY <2>1, <2>2 DEF Types, Threads
  <2> HIDE DEF m
  <2> QED BY <2>1, <2>2, <2>3, StartKeeps
<1>3. ASSUME UNCHANGED <<core0, resume, locked, toCard, toUsb, buffer, worker, job, armed>> PROVE CardInv'
  BY <1>3 DEF Types, Presence, Presses, Replies, Exiting, Serving
<1>4. ASSUME NEW c \in Clients, HidCancel(c) PROVE CardInv'
  BY <1>3, <1>4 DEF HidCancel
<1>5. ASSUME NEW s \in Clients \cup {"ccid"}, GiveUp(s) PROVE CardInv'
  BY <1>3, <1>5 DEF GiveUp
<1>6. ASSUME SecureReboot PROVE CardInv'
  <2>1. core0' = "rebooted" /\ worker' = "off" /\ UNCHANGED <<resume, locked, toCard, toUsb, buffer, job, armed>>
    BY <1>6 DEF SecureReboot
  <2> QED BY <2>1 DEF Types, Presence, Exiting, Serving
<1>7. ASSUME toUsb # <<>>, toUsb' = Tail(toUsb), toUsb[1].ev # "press",
             UNCHANGED <<core0, resume, locked, toCard, buffer, worker, job, armed>>
      PROVE  CardInv'
  <2>1. Types'
    BY <1>7, QueueRemove DEF Types
  <2>2. (\A i \in Presses' : i + 1 \in Presses) /\ Replies' = Replies
    BY <1>7, QueueRemove DEF Types, Presses, Replies
  <2>3. Presses' \subseteq Nat
    BY <1>7, QueueRemove DEF Types, Presses
  <2>4. Presence'
    BY <1>7, <2>2, <2>3 DEF Presence
  <2>5. Exiting' /\ Serving'
    BY <1>7, QueueRemove DEF Types, Exiting, Serving
  <2> QED BY <2>1, <2>4, <2>5
<1>press. ASSUME toUsb # <<>>, toUsb' = Tail(toUsb), toUsb[1].ev = "press", core0 # "rebooted",
              UNCHANGED <<core0, resume, locked, buffer, worker, job>>,
              toCard' \in Seq(CardEvents),
              \/ UNCHANGED <<toCard, armed>>
              \/ armed' = TRUE /\ UNCHANGED toCard
              \/ toCard' = Append(toCard, "pressed") /\ UNCHANGED armed
       PROVE  CardInv'
  <2>1. armed' \in BOOLEAN
    BY <1>press DEF Types
  <2>2. Types'
    BY <1>press, <2>1, QueueRemove DEF Types
  <2>3. 1 \in Presses /\ Presses' = {}
    <3>1. 1 \in Presses
      BY <1>press, QueueRemove DEF Types, Presses
    <3>2. \A i \in Presses' : i \in 1 .. Len(toUsb) - 1 /\ i + 1 \in Presses
      BY <1>press, QueueRemove DEF Types, Presses
    <3> QED BY <1>press, <3>1, <3>2 DEF Presence
  <2>4. worker = "wait" /\ ~armed /\ Replies = {}
    BY <1>press, <2>3 DEF Presence
  <2>5. \/ Replies' = {}
        \/ Replies' = {Len(toCard) + 1} /\ ~armed'
    <3>1. CASE UNCHANGED toCard
      BY <2>4, <3>1 DEF Replies
    <3>2. CASE toCard' = Append(toCard, "pressed") /\ UNCHANGED armed
      <4>1. /\ Len(toCard') = Len(toCard) + 1 /\ Len(toCard) \in Nat /\ toCard'[Len(toCard) + 1] = "pressed"
            /\ \A i \in 1 .. Len(toCard) : toCard'[i] = toCard[i]
        BY <3>2, QueueAdd DEF Types, CardEvents, Answers
      <4> QED BY <2>4, <3>2, <4>1 DEF Replies, Answers
    <3> QED BY <1>press, <3>1, <3>2
  <2>6. Presence'
    BY <1>press, <2>3, <2>4, <2>5 DEF Presence
  <2>7. Exiting'
    <3>1. \A i \in 1 .. Len(toCard') : toCard'[i] = "pressed" \/ (i \in 1 .. Len(toCard) /\ toCard'[i] = toCard[i])
      <4>1. CASE UNCHANGED toCard
        BY <4>1
      <4>2. CASE toCard' = Append(toCard, "pressed")
        BY <4>2, QueueAdd DEF Types, CardEvents, Answers
      <4> QED BY <1>press, <4>1, <4>2
    <3> QED BY <1>press, <3>1, QueueRemove DEF Types, Exiting
  <2>8. Serving'
    BY <1>press, QueueRemove DEF Types, Serving
  <2> QED BY <2>2, <2>6, <2>7, <2>8
<1>8. ASSUME AwaitAck PROVE CardInv'
  <2>1. core0 = "ack" /\ toUsb # <<>> /\ Head(toUsb) = toUsb[1]
    BY <1>8, QueueRemove DEF AwaitAck, Types
  <2>2. CASE toUsb[1].ev = "reset"
    BY <1>6, <1>8, <2>1, <2>2 DEF AwaitAck
  <2>3. CASE toUsb[1].ev = "exit_ack"
    <3>1. /\ toUsb' = <<>> /\ core0' = "loop" /\ resume' = None /\ UNCHANGED <<buffer, job, armed>>
          /\ Launch(resume, NoLock, <<>>)
      BY <1>8, <2>1, <2>3 DEF AwaitAck
    <3>2. worker = "off" /\ ~armed
      BY <2>1, <2>3, QueueRemove DEF Types, Exiting, Presence
    <3>3. CASE resume.kind = "init"
      <4>1. locked' = NoLock /\ toCard' = <<>> /\ UNCHANGED worker
        BY <3>1, <3>3 DEF Launch
      <4>2. Types'
        BY <1>0, <3>1, <4>1, QueueEmpty DEF Types
      <4>3. Presence' /\ Exiting' /\ Serving'
        BY <3>1, <3>2, <4>1, QueueEmpty DEF Presence, Presses, Replies, Exiting, Serving
      <4> QED BY <4>2, <4>3
    <3>4. CASE resume.kind # "init"
      <4>1. /\ locked' = LockFor(resume.kind) /\ toCard' = Append(<<>>, "cmd")
            /\ resume.kind \in Messages /\ Itf(buffer[Func(resume.kind)].kind) = Itf(resume.kind)
        BY <2>1, <3>1, <3>4 DEF Launch, Serving
      <4>2. LockFor(resume.kind) # NoLock /\ worker' = "idle"
        BY <3>1, <3>4 DEF Launch, LockFor, NoLock, Itf
      <4>3. Len(toCard') = 1 /\ toCard'[1] = "cmd" /\ toCard' \in Seq(CardEvents)
        BY <4>1 DEF CardEvents
      <4>4. Types'
        BY <1>0, <3>1, <4>1, <4>2, <4>3, QueueEmpty DEF Types
      <4>5. Presence' /\ Exiting'
        BY <3>1, <3>2, <4>2, <4>3, QueueEmpty DEF Presence, Presses, Replies, Answers, Exiting
      <4>6. Serving'
        BY <3>1, <4>1, <4>2, QueueEmpty DEF Serving, LockFor
      <4> QED BY <4>4, <4>5, <4>6
    <3> QED BY <3>3, <3>4
  <2>4. CASE toUsb[1].ev \notin {"reset", "exit_ack"}
    <3>1. toUsb' = Tail(toUsb) /\ UNCHANGED <<core0, resume, locked, toCard, buffer, worker, job, armed>>
      BY <1>8, <2>1, <2>4 DEF AwaitAck
    <3>2. CASE toUsb[1].ev # "press"
      BY <1>7, <2>1, <3>1, <3>2
    <3>3. CASE toUsb[1].ev = "press"
      BY <1>press, <2>1, <3>1, <3>3 DEF Types
    <3> QED BY <3>2, <3>3
  <2> QED BY <2>2, <2>3, <2>4
<1>9. ASSUME CardStatus PROVE CardInv'
  <2>1. core0 = "loop" /\ toUsb # <<>> /\ Head(toUsb) = toUsb[1]
    BY <1>9, QueueRemove DEF CardStatus, Types
  <2>2. CASE toUsb[1].ev = "reset"
    BY <1>6, <1>9, <2>1, <2>2 DEF CardStatus
  <2>3. CASE toUsb[1].ev = "press"
    <3>1. /\ toUsb' = Tail(toUsb) /\ UNCHANGED <<core0, resume, locked, buffer, worker, job>>
          /\ ButtonWaitStart(toUsb[1].job.kind)
      BY <1>9, <2>1, <2>3 DEF CardStatus
    <3>2. \/ UNCHANGED <<toCard, armed>>
          \/ armed' = TRUE /\ UNCHANGED toCard
          \/ toCard' = Append(toCard, "pressed") /\ UNCHANGED armed
      BY <3>1 DEF ButtonWaitStart, TryAdd
    <3>3. toCard' \in Seq(CardEvents)
      BY <3>2, QueueAdd DEF Types, CardEvents, Answers
    <3> QED BY <1>press, <2>1, <2>3, <3>1, <3>2, <3>3
  <2>4. CASE toUsb[1].ev \notin {"reset", "press"}
    <3>1. toUsb' = Tail(toUsb) /\ UNCHANGED <<core0, resume, locked, toCard, buffer, worker, job, armed>>
      BY <1>9, <2>1, <2>4 DEF CardStatus
    <3> QED BY <1>7, <2>1, <2>4, <3>1
  <2> QED BY <2>2, <2>3, <2>4
<1>10. ASSUME ButtonPoll PROVE CardInv'
  <2>1. /\ core0 = "loop" /\ armed /\ armed' = FALSE /\ UNCHANGED <<core0, resume, locked, toUsb, buffer, worker, job>>
        /\ \/ UNCHANGED toCard
           \/ \E r \in Answers : toCard' = Append(toCard, r)
    BY <1>10 DEF ButtonPoll, TryAdd, Types
  <2>2. worker = "wait" /\ Presses = {} /\ Replies = {}
    BY <2>1 DEF Presence
  <2>3. CASE UNCHANGED toCard
    <3>1. Types'
      BY <2>1, <2>3 DEF Types
    <3>2. Presses' = {} /\ Replies' = {}
      BY <2>1, <2>2, <2>3 DEF Presses, Replies
    <3>3. Presence' /\ Exiting' /\ Serving'
      BY <2>1, <2>3, <3>2 DEF Presence, Exiting, Serving
    <3> QED BY <3>1, <3>3
  <2>4. ASSUME NEW r \in Answers, toCard' = Append(toCard, r) PROVE CardInv'
    <3>1. /\ Len(toCard') = Len(toCard) + 1 /\ Len(toCard) \in Nat /\ toCard'[Len(toCard) + 1] = r
          /\ \A i \in 1 .. Len(toCard) : toCard'[i] = toCard[i]
          /\ toCard' \in Seq(CardEvents)
      BY <2>4, QueueAdd DEF Types, CardEvents
    <3>2. Replies' = {Len(toCard) + 1} /\ Presses' = {}
      BY <2>1, <2>2, <3>1 DEF Replies, Presses
    <3>3. Types'
      BY <2>1, <3>1 DEF Types
    <3>4. Presence'
      BY <2>1, <2>2, <3>2 DEF Presence
    <3>5. Exiting'
      BY <2>1, <3>1 DEF Exiting, Answers
    <3>6. Serving'
      BY <2>1 DEF Serving
    <3> QED BY <3>3, <3>4, <3>5, <3>6
  <2> QED BY <2>1, <2>3, <2>4
<1>11. ASSUME Fetch PROVE CardInv'
  <2>1. /\ worker = "idle" /\ toCard # <<>> /\ toCard' = Tail(toCard)
        /\ UNCHANGED <<core0, resume, locked, buffer, armed>>
    BY <1>11 DEF Fetch, WorkerOnly
  <2>2. core0 # "rebooted" /\ ~armed /\ Presses = {} /\ Replies = {}
    BY <2>1 DEF Exiting, Presence
  <2>3. /\ toCard' \in Seq(CardEvents) /\ Head(toCard) = toCard[1] /\ 1 \in 1 .. Len(toCard)
        /\ \A i \in 1 .. Len(toCard') : i + 1 \in 1 .. Len(toCard) /\ toCard'[i] = toCard[i + 1]
    BY <2>1, QueueRemove DEF Types
  <2>4. Replies' = {}
    BY <2>2, <2>3 DEF Replies
  <2>5. CASE toCard[1] = "exit"
    <3>1. worker' = "off" /\ job' = None /\ toUsb' = Append(toUsb, Event("exit_ack", None))
      BY <1>11, <2>3, <2>5 DEF Fetch, Acks, Ack
    <3>2. core0 = "ack"
      BY <2>2, <2>3, <2>5 DEF Types, Exiting
    <3>3. /\ toUsb' \in Seq(AllEvents) /\ Len(toUsb') = Len(toUsb) + 1 /\ Len(toUsb) \in Nat
          /\ toUsb'[Len(toUsb) + 1].ev = "exit_ack"
          /\ \A i \in 1 .. Len(toUsb) : toUsb'[i] = toUsb[i]
      BY <1>0, <3>1, QueueAdd DEF Types, Event
    <3>4. Presses' = {}
      BY <2>2, <3>3 DEF Presses
    <3>5. Types'
      BY <1>0, <2>1, <2>3, <3>1, <3>3 DEF Types
    <3>6. Presence' /\ Serving'
      BY <2>1, <2>2, <2>4, <3>2, <3>4 DEF Presence, Serving
    <3>7. Exiting'
      BY <2>1, <3>1, <3>2, <3>3 DEF Exiting
    <3> QED BY <3>5, <3>6, <3>7
  <2>6. CASE toCard[1] # "exit"
    <3>1. worker' = "exec" /\ job' = buffer[locked.func]
      BY <1>11, <2>3, <2>6 DEF Fetch
    <3>2. \/ UNCHANGED toUsb
          \/ toUsb' = Append(toUsb, Event("ack", None))
      BY <1>11, <2>3, <2>6 DEF Fetch, Ack
    <3>3. /\ toUsb' \in Seq(AllEvents)
          /\ \A i \in 1 .. Len(toUsb') : toUsb'[i].ev = "ack" \/ (i \in 1 .. Len(toUsb) /\ toUsb'[i] = toUsb[i])
      <4>1. CASE UNCHANGED toUsb
        BY <4>1 DEF Types
      <4>2. CASE toUsb' = Append(toUsb, Event("ack", None))
        BY <1>0, <4>2, QueueAdd DEF Types, Event
      <4> QED BY <3>2, <4>1, <4>2
    <3>4. Presses' = {}
      BY <2>2, <3>3 DEF Presses
    <3>5. locked # NoLock
      BY <2>1 DEF Serving
    <3>6. buffer[locked.func] \in AllJobs
      BY <3>5 DEF Types, LockFor, Func, Threads
    <3>7. Types'
      BY <2>1, <2>3, <3>1, <3>3, <3>6 DEF Types
    <3>8. Presence'
      BY <2>1, <2>2, <2>4, <3>4 DEF Presence
    <3>9. Exiting'
      BY <2>1, <2>2, <2>3, <3>1, <3>3 DEF Exiting
    <3>10. Serving'
      BY <2>1, <3>1, <3>3, <3>5 DEF Serving
    <3> QED BY <3>7, <3>8, <3>9, <3>10
  <2> QED BY <2>5, <2>6
<1>12. ASSUME Ask PROVE CardInv'
  <2>1. /\ worker = "exec" /\ worker' = "wait" /\ toUsb' = TryAdd(toUsb, Event("press", job))
        /\ UNCHANGED <<core0, resume, locked, buffer, armed, toCard, job>>
    BY <1>12 DEF Ask, WorkerOnly
  <2>2. core0 # "rebooted" /\ ~armed /\ Presses = {} /\ Replies = {}
    BY <2>1 DEF Exiting, Presence
  <2>3. Event("press", job) \in AllEvents /\ Event("press", job).ev = "press"
    BY DEF Event, AllEvents, UsbEvents, Types
  <2>4. /\ toUsb' \in Seq(AllEvents)
        /\ \A i \in 1 .. Len(toUsb') : \/ i = Len(toUsb) + 1 /\ toUsb'[i].ev = "press"
                                       \/ (i \in 1 .. Len(toUsb) /\ toUsb'[i] = toUsb[i])
    BY <2>1, <2>3, QueueAdd DEF TryAdd, Types
  <2>5. Replies' = {} /\ \A i \in Presses' : i = Len(toUsb) + 1
    BY <2>1, <2>2, <2>4 DEF Presses, Replies
  <2>6. Types'
    BY <2>1, <2>4 DEF Types
  <2>7. Presence'
    BY <2>1, <2>2, <2>5 DEF Presence
  <2>8. Exiting'
    BY <2>1, <2>4 DEF Exiting
  <2>9. Serving'
    BY <2>1, <2>2, <2>4 DEF Serving
  <2> QED BY <2>6, <2>7, <2>8, <2>9
<1>13. ASSUME Answer PROVE CardInv'
  <2>1. /\ worker = "wait" /\ toCard # <<>> /\ toCard' = Tail(toCard)
        /\ worker' = IF Accepts(job.kind, Head(toCard)) THEN "done" ELSE "wait"
        /\ UNCHANGED <<core0, resume, locked, buffer, armed, job>>
        /\ UNCHANGED toUsb \/ toUsb' = Append(toUsb, Event("reset", job))
    BY <1>13 DEF Answer, WorkerOnly
  <2>2. /\ toCard' \in Seq(CardEvents) /\ Head(toCard) = toCard[1] /\ 1 \in 1 .. Len(toCard)
        /\ \A i \in 1 .. Len(toCard') : i \in Nat \ {0} /\ i + 1 \in 1 .. Len(toCard) /\ toCard'[i] = toCard[i + 1]
    BY <2>1, QueueRemove DEF Types
  <2>3. Event("reset", job) \in AllEvents /\ Event("reset", job).ev = "reset"
    BY DEF Event, AllEvents, UsbEvents, Types
  <2>4. /\ toUsb' \in Seq(AllEvents)
        /\ \A i \in 1 .. Len(toUsb') : toUsb'[i].ev = "reset" \/ (i \in 1 .. Len(toUsb) /\ toUsb'[i] = toUsb[i])
    <3>1. CASE UNCHANGED toUsb
      BY <3>1 DEF Types
    <3>2. CASE toUsb' = Append(toUsb, Event("reset", job))
      BY <2>3, <3>2, QueueAdd DEF Types
    <3> QED BY <2>1, <3>1, <3>2
  <2>5. /\ Presses' \subseteq Presses /\ \A i \in Replies' : i \in Nat \ {0} /\ i + 1 \in Replies
    BY <2>2, <2>4 DEF Presses, Replies
  <2>6. core0 # "rebooted"
    BY <2>1 DEF Exiting
  <2>7. Presence'
    <3>1. CASE Accepts(job.kind, toCard[1])
      <4>1. 1 \in Replies
        BY <2>2, <3>1 DEF Accepts, Replies
      <4>2. Presses = {} /\ ~armed /\ \A i \in Replies : i = 1
        BY <2>6, <4>1 DEF Presence
      <4>3. Presses' = {} /\ Replies' = {}
        BY <2>5, <4>2
      <4> QED BY <2>1, <4>2, <4>3 DEF Presence
    <3>2. CASE ~Accepts(job.kind, toCard[1])
      BY <2>1, <2>2, <2>5, <3>2 DEF Presence
    <3> QED BY <3>1, <3>2
  <2>8. Types'
    BY <2>1, <2>2, <2>4 DEF Types
  <2>9. Exiting'
    BY <2>1, <2>2, <2>4, <2>6 DEF Exiting
  <2>10. Serving'
    BY <2>1, <2>4 DEF Serving
  <2> QED BY <2>7, <2>8, <2>9, <2>10
<1>14. ASSUME Finish PROVE CardInv'
  <2>1. /\ worker \in {"exec", "done"} /\ worker' = "idle" /\ toUsb' = Append(toUsb, Event("finished", job))
        /\ UNCHANGED <<core0, resume, locked, buffer, armed, toCard, job>>
    BY <1>14 DEF Finish, WorkerOnly
  <2>2. core0 # "rebooted" /\ ~armed /\ Presses = {} /\ Replies = {}
    BY <2>1 DEF Exiting, Presence
  <2>3. /\ Event("finished", job) \in AllEvents /\ Event("finished", job).ev = "finished"
        /\ Event("finished", job).job = job
    BY DEF Event, AllEvents, UsbEvents, Types
  <2>4. /\ toUsb' \in Seq(AllEvents)
        /\ \A i \in 1 .. Len(toUsb') : \/ toUsb'[i].ev = "finished" /\ toUsb'[i].job = job
                                       \/ (i \in 1 .. Len(toUsb) /\ toUsb'[i] = toUsb[i])
    BY <2>1, <2>3, QueueAdd DEF Types
  <2>5. Presses' = {} /\ Replies' = {}
    BY <2>1, <2>2, <2>4 DEF Presses, Replies
  <2>6. Types'
    BY <2>1, <2>4 DEF Types
  <2>7. Presence' /\ Exiting'
    BY <2>1, <2>2, <2>4, <2>5 DEF Presence, Exiting
  <2>8. Serving'
    BY <2>1, <2>4 DEF Serving
  <2> QED BY <2>6, <2>7, <2>8
<1>15. ASSUME Restart PROVE CardInv'
  <2>1. Init'
    BY <1>15 DEF Restart, Init
  <2> QED BY <2>1, CardInit, PTL
<1> QED BY <1>1, <1>2, <1>4, <1>5, <1>8, <1>9, <1>10, <1>11, <1>12, <1>13, <1>14, <1>15
           DEF CardStep, Core0, Core1

-----------------------------------------------------------------------------
(* CTAP2 clients only *)

\* The steps of the session part are steps as above, of a few kinds only: its instance of UsbCard
\* differs in the clients and in what they send.
LEMMA SessionStep ==
    S!Next => /\ CardStep
              /\ \/ \E k \in CborKinds \cup {"init"}, c \in SessionCids : HidRequest(k, c)
                 \/ \E c \in SessionCids : HidCancel(c)
                 \/ \E s \in SessionCids \cup {"ccid"} : GiveUp(s)
                 \/ Core0 \/ Core1 \/ Restart
<1>2. \A k, c : S!HidRequest(k, c) => HidRequest(k, c)
  BY DEF S!HidRequest, HidRequest, S!Start, Start, S!Launch, Launch, S!NeedsExit, NeedsExit,
     S!LockFor, LockFor, S!Itf, Itf, S!Func, Func, S!NoLock, NoLock, S!CcidKinds, CcidKinds,
     S!CborKinds, CborKinds
<1>3. \A c : S!HidCancel(c) => HidCancel(c)
  BY DEF S!HidCancel, HidCancel
<1>4. \A s : S!GiveUp(s) => GiveUp(s)
  BY DEF S!GiveUp, GiveUp, S!hidVars, hidVars
<1>5. S!AwaitAck => AwaitAck
  BY DEF S!AwaitAck, AwaitAck, S!SecureReboot, SecureReboot, S!hidVars, hidVars, S!None, None,
     S!Start, Start, S!Launch, Launch, S!NeedsExit, NeedsExit, S!LockFor, LockFor, S!Itf, Itf,
     S!Func, Func, S!NoLock, NoLock, S!CcidKinds, CcidKinds, S!CborKinds, CborKinds
<1>6. S!CardStatus => CardStatus
  BY DEF S!CardStatus, CardStatus, S!SecureReboot, SecureReboot, S!hidVars, hidVars, S!FinishHid,
     FinishHid, S!FinishCcid, FinishCcid, S!ButtonWaitStart, ButtonWaitStart, S!HasWindow,
     HasWindow, S!TryAdd, TryAdd, S!NoLock, NoLock
<1>7. S!ButtonPoll => ButtonPoll
  BY DEF S!ButtonPoll, ButtonPoll, S!ButtonResult, ButtonResult, S!TryAdd, TryAdd, S!Answers,
     Answers, S!hidVars, hidVars
<1>8. S!Fetch => Fetch
  BY DEF S!Fetch, Fetch, S!Acks, Acks, S!Ack, Ack, S!Event, Event, S!None, None, S!WorkerOnly,
     WorkerOnly, S!hidVars, hidVars
<1>9. S!Ask => Ask
  BY DEF S!Ask, Ask, S!Asks, Asks, S!TryAdd, TryAdd, S!Event, Event, S!WorkerOnly, WorkerOnly,
     S!hidVars, hidVars
<1>10. S!Answer => Answer
  BY DEF S!Answer, Answer, S!Accepts, Accepts, S!Answers, Answers, S!Event, Event, S!WorkerOnly,
     WorkerOnly, S!hidVars, hidVars
<1>11. S!Finish => Finish
  BY DEF S!Finish, Finish, S!Asks, Asks, S!Event, Event, S!WorkerOnly, WorkerOnly, S!hidVars, hidVars
<1>12. S!Restart => Restart
  BY DEF S!Restart, Restart, S!NoLock, NoLock, S!EmptyBuffer, EmptyBuffer, S!None, None
<1>13. /\ S!CcidKinds = CcidKinds /\ S!CborKinds = CborKinds /\ S!MsgKinds = MsgKinds
      /\ S!Senders = SessionCids \cup {"ccid"}
  BY DEF S!CcidKinds, S!CborKinds, S!MsgKinds, S!Senders, CcidKinds, CborKinds, MsgKinds
<1>14. /\ CcidKinds \cap SessionTraffic = {}
       /\ (MsgKinds \cup CborKinds \cup {"init"}) \cap SessionTraffic \subseteq CborKinds \cup {"init"}
  BY SessionAssumption DEF CcidKinds, CborKinds, MsgKinds
<1>15. S!Core0 => Core0
  BY <1>5, <1>6, <1>7 DEF S!Core0, Core0
<1>16. S!Core1 => Core1
  BY <1>8, <1>9, <1>10, <1>11 DEF S!Core1, Core1
<1>17. S!Host => \/ \E k \in CborKinds \cup {"init"}, c \in SessionCids : HidRequest(k, c)
                 \/ \E c \in SessionCids : HidCancel(c)
                 \/ \E s \in SessionCids \cup {"ccid"} : GiveUp(s)
  BY <1>2, <1>3, <1>4, <1>13, <1>14 DEF S!Host
<1> QED BY <1>12, <1>15, <1>16, <1>17 DEF S!Next, CardStep, Clients

\* With CTAP2 clients a request is under way exactly while hid_cbor_active is set.
LEMMA SessionNext == CardInv /\ SessionInv /\ S!Next => SessionInv'
<1> SUFFICES ASSUME CardInv, SessionInv, S!Next PROVE SessionInv'
  OBVIOUS
<1>0. /\ Types /\ toUsb \in Seq(AllEvents) /\ toCard \in Seq(CardEvents) /\ job \in AllJobs
      /\ QueueSize \in Nat /\ 2 <= QueueSize /\ Len(<<>>) = 0
  BY QueueAssumption, QueueSizeAssumption DEF CardInv, Types
<1>1. ASSUME NEW k \in CborKinds \cup {"init"}, NEW c \in SessionCids, HidRequest(k, c) PROVE SessionInv'
  <2> DEFINE m == [kind |-> k, from |-> c]
  <2>1. /\ core0 = "loop" /\ ~cborActive /\ Start(m) /\ UNCHANGED <<toUsb, job, armed>>
        /\ buffer' = [f \in DOMAIN buffer |->
                        IF f = "apdu_thread" \/ k \in CborKinds THEN m ELSE buffer[f]]
    BY <1>1 DEF HidRequest
  <2>2. ~armed /\ toCard = <<>> /\ toUsb = <<>> /\ worker \in {"off", "idle"}
        /\ (worker = "off" => locked = NoLock)
    BY <2>1 DEF SessionInv
  <2>3. buffer'["cbor_thread"].kind \in CborKinds \cup {"none"}
        /\ (k \in CborKinds => buffer'["cbor_thread"].kind \in CborKinds)
    BY <1>0, <2>1 DEF SessionInv, Types, Threads
  <2>4. CASE k = "init" /\ locked # NoLock
    <3>1. /\ core0' = "ack" /\ resume' = m /\ toCard' = Append(toCard, "exit")
          /\ UNCHANGED <<locked, worker, cborActive>>
      BY <2>1, <2>4 DEF Start, NeedsExit
    <3>2. worker = "idle" /\ toCard' = <<"exit">>
      BY <2>2, <2>4, <3>1 DEF CardInv, Serving
    <3>3. resume'.kind = "init"
      BY <2>4, <3>1
    <3> QED BY <2>1, <2>2, <2>3, <2>4, <3>1, <3>2, <3>3 DEF SessionInv
  <2>5. CASE k = "init" /\ locked = NoLock
    <3>1. UNCHANGED <<core0, resume, locked, toCard, worker, cborActive>>
      BY <2>1, <2>5 DEF Start, NeedsExit, Launch
    <3> QED BY <2>1, <2>2, <2>3, <3>1 DEF SessionInv
  <2>6. CASE k \in CborKinds
    <3>1. LockFor(k) = LockFor("cbor") /\ LockFor("cbor") # NoLock /\ k # "init"
      BY <2>6 DEF LockFor, Itf, Func, CborKinds, CcidKinds, NoLock
    <3>2. /\ locked' = LockFor("cbor") /\ toCard' = Append(toCard, "cmd") /\ busy' = TRUE
          /\ cborActive' = TRUE /\ UNCHANGED <<core0, resume>>
          /\ worker' = IF locked = LockFor("cbor") THEN worker ELSE "idle"
      BY <2>1, <2>6, <3>1 DEF Start, NeedsExit, Launch, SessionInv
    <3>3. worker' = "idle" /\ toCard' = <<"cmd">>
      BY <2>2, <3>1, <3>2 DEF SessionInv
    <3> QED BY <2>1, <2>2, <2>3, <2>6, <3>2, <3>3 DEF SessionInv, Phase
  <2> QED BY <2>4, <2>5, <2>6
<1>2. ASSUME UNCHANGED <<core0, resume, locked, toCard, toUsb, buffer, worker, job, armed, cborActive, busy>>
      PROVE  SessionInv'
  BY <1>2 DEF SessionInv, Phase, LastIs
<1>3. ASSUME NEW c \in SessionCids, HidCancel(c) PROVE SessionInv'
  BY <1>2, <1>3 DEF HidCancel
<1>4. ASSUME NEW s \in SessionCids \cup {"ccid"}, GiveUp(s) PROVE SessionInv'
  BY <1>2, <1>4 DEF GiveUp, hidVars
<1>5. ASSUME AwaitAck PROVE SessionInv'
  <2>1. core0 = "ack" /\ toUsb # <<>> /\ Head(toUsb) = toUsb[1]
    BY <1>0, <1>5, QueueRemove DEF AwaitAck
  <2>2. /\ ~cborActive /\ ~armed /\ resume.kind = "init" /\ worker = "off" /\ toCard = <<>>
        /\ toUsb[1].ev = "exit_ack"
    BY <2>1 DEF SessionInv
  <2>3. /\ toUsb' = <<>> /\ core0' = "loop" /\ UNCHANGED <<buffer, armed, worker, cborActive>>
        /\ locked' = NoLock /\ toCard' = <<>>
    BY <1>5, <2>1, <2>2 DEF AwaitAck, Launch
  <2> QED BY <2>2, <2>3 DEF SessionInv
<1>6. ASSUME CardStatus PROVE SessionInv'
  <2>1. core0 = "loop" /\ toUsb # <<>> /\ Head(toUsb) = toUsb[1]
    BY <1>0, <1>6, QueueRemove DEF CardStatus
  <2>2. cborActive /\ busy /\ locked = LockFor("cbor") /\ buffer["cbor_thread"].kind \in CborKinds /\ Phase
    BY <2>1 DEF SessionInv
  <2>3. CASE toUsb[1].ev = "ack"
    <3>1. toUsb' = Tail(toUsb) /\ UNCHANGED <<core0, resume, locked, toCard, buffer, worker, job, armed, cborActive, busy>>
      BY <1>6, <2>1, <2>3 DEF CardStatus, hidVars
    <3>2. /\ Len(toUsb) = 1 => toUsb' = <<>>
          /\ Len(toUsb) = 2 => Len(toUsb') = 1 /\ toUsb'[1] = toUsb[2]
      BY <1>0, <2>1, <3>1, QueueRemove
    <3>3. Len(toUsb) \in {1, 2}
      BY <2>1, <2>2 DEF Phase, LastIs
    <3>4. ASSUME Len(toUsb) = 1 PROVE Phase'
      BY <2>1, <2>2, <2>3, <3>1, <3>2, <3>4 DEF Phase, LastIs
    <3>5. ASSUME Len(toUsb) = 2 PROVE Phase'
      <4>1. /\ toCard = <<>> /\ ~armed
            /\ \/ worker = "wait" /\ job.kind \in CborKinds /\ LastIs("press")
               \/ worker = "idle" /\ LastIs("finished")
        BY <2>1, <2>2, <2>3, <3>5 DEF Phase
      <4>2. \A e : LastIs(e) => LastIs(e)'
        BY <3>2, <3>5 DEF LastIs
      <4> QED BY <3>1, <4>1, <4>2 DEF Phase
    <3>6. Phase'
      BY <3>3, <3>4, <3>5
    <3> QED BY <2>1, <2>2, <3>1, <3>6 DEF SessionInv
  <2>4. CASE toUsb[1].ev = "press"
    <3>1. /\ worker = "wait" /\ job.kind \in CborKinds /\ toCard = <<>> /\ ~armed /\ Len(toUsb) = 1
      BY <2>1, <2>2, <2>4 DEF Phase, LastIs
    <3>2. /\ toUsb' = Tail(toUsb) /\ UNCHANGED <<core0, resume, locked, buffer, worker, job, cborActive, busy>>
          /\ ButtonWaitStart(toUsb[1].job.kind)
      BY <1>6, <2>1, <2>4 DEF CardStatus
    <3>3. \/ toCard' = <<>> /\ armed' = TRUE
          \/ toCard' = <<"pressed">> /\ armed' = armed
      BY <1>0, <3>1, <3>2 DEF ButtonWaitStart, TryAdd
    <3>4. toUsb' = <<>>
      BY <1>0, <2>1, <3>1, <3>2, QueueRemove
    <3>5. Phase'
      BY <3>1, <3>2, <3>3, <3>4 DEF Phase, Answers
    <3> QED BY <2>1, <2>2, <3>2, <3>5 DEF SessionInv
  <2>5. CASE toUsb[1].ev = "finished"
    <3>1. worker = "idle" /\ toCard = <<>> /\ ~armed /\ Len(toUsb) = 1
      BY <2>1, <2>2, <2>5 DEF Phase, LastIs
    <3>2. toUsb' = Tail(toUsb) /\ UNCHANGED <<core0, resume, locked, toCard, buffer, worker, armed>>
      BY <1>6, <2>1, <2>5 DEF CardStatus
    <3>3. cborActive' = FALSE
      BY <1>6, <2>1, <2>2, <2>5 DEF CardStatus, FinishHid, LockFor, Itf, CcidKinds
    <3>4. toUsb' = <<>>
      BY <1>0, <2>1, <3>1, <3>2, QueueRemove
    <3> QED BY <2>1, <2>2, <3>1, <3>2, <3>3, <3>4 DEF SessionInv
  <2>6. toUsb[1].ev \in {"ack", "press", "finished"}
    BY <2>1, <2>2 DEF Phase, LastIs
  <2> QED BY <2>3, <2>4, <2>5, <2>6
<1>7. ASSUME ButtonPoll PROVE SessionInv'
  <2>1. core0 = "loop" /\ armed /\ armed' = FALSE
        /\ UNCHANGED <<core0, resume, locked, busy, toUsb, buffer, worker, job, cborActive>>
    BY <1>7 DEF ButtonPoll, hidVars
  <2>2. cborActive /\ worker = "wait" /\ job.kind \in CborKinds /\ toCard = <<>> /\ toUsb = <<>>
    BY <2>1 DEF SessionInv, Phase
  <2>3. PICK r \in Answers : toCard' = TryAdd(toCard, r)
    BY <1>7 DEF ButtonPoll
  <2>4. Len(toCard') = 1 /\ toCard'[1] = r
    BY <1>0, <2>2, <2>3 DEF TryAdd
  <2>5. Phase'
    BY <2>1, <2>2, <2>4 DEF Phase
  <2> QED BY <2>1, <2>2, <2>5 DEF SessionInv
<1>8. ASSUME Fetch PROVE SessionInv'
  <2>1. /\ worker = "idle" /\ toCard # <<>> /\ toCard' = Tail(toCard) /\ Head(toCard) = toCard[1]
        /\ UNCHANGED <<core0, resume, locked, busy, buffer, armed, cborActive>>
    BY <1>0, <1>8, QueueRemove DEF Fetch, WorkerOnly, hidVars
  <2>2. /\ toUsb = <<>> /\ ~armed
        /\ \/ core0 = "ack" /\ toCard = <<"exit">> /\ resume.kind = "init" /\ ~cborActive
           \/ core0 = "loop" /\ toCard = <<"cmd">> /\ cborActive
    BY <1>0, <2>1 DEF SessionInv, Phase, Types
  <2>3. toCard' = <<>>
    BY <1>0, <2>1, <2>2, QueueRemove
  <2>4. CASE core0 = "ack" /\ toCard = <<"exit">> /\ resume.kind = "init" /\ ~cborActive
    <3>1. worker' = "off" /\ toUsb' = Append(toUsb, Event("exit_ack", None))
      BY <1>8, <2>1, <2>4 DEF Fetch, Acks, Ack
    <3>2. Len(toUsb') = 1 /\ toUsb'[1].ev = "exit_ack"
      BY <2>2, <3>1 DEF Event
    <3> QED BY <2>1, <2>2, <2>3, <2>4, <3>1, <3>2 DEF SessionInv
  <2>5. CASE core0 = "loop" /\ toCard = <<"cmd">> /\ cborActive
    <3>1. locked = LockFor("cbor") /\ locked.func = "cbor_thread" /\ buffer["cbor_thread"].kind \in CborKinds
      BY <2>5 DEF SessionInv, LockFor, Func, CborKinds
    <3>2. worker' = "exec" /\ job' = buffer["cbor_thread"] /\ toUsb' = Append(toUsb, Event("ack", None))
      BY <1>8, <2>1, <2>5, <3>1 DEF Fetch, Acks, Ack
    <3>3. Len(toUsb') = 1 /\ toUsb'[1].ev = "ack"
      BY <2>2, <3>2 DEF Event
    <3>4. Phase'
      BY <2>1, <2>2, <2>3, <3>1, <3>2, <3>3 DEF Phase
    <3> QED BY <2>1, <2>2, <2>5, <3>1, <3>2, <3>4 DEF SessionInv
  <2> QED BY <2>2, <2>4, <2>5
<1>9. ASSUME Ask PROVE SessionInv'
  <2>1. /\ worker = "exec" /\ worker' = "wait" /\ toUsb' = TryAdd(toUsb, Event("press", job))
        /\ UNCHANGED <<core0, resume, locked, busy, buffer, armed, toCard, job, cborActive>>
    BY <1>9 DEF Ask, WorkerOnly, hidVars
  <2>2. /\ core0 = "loop" /\ cborActive /\ job.kind \in CborKinds /\ toCard = <<>> /\ ~armed
        /\ toUsb = <<>> \/ (Len(toUsb) = 1 /\ toUsb[1].ev = "ack")
    BY <1>0, <2>1 DEF SessionInv, Phase, Types
  <2>3. Event("press", job) \in AllEvents /\ Event("press", job).ev = "press"
    BY <1>0 DEF Event, AllEvents, UsbEvents
  <2>4. toUsb' = Append(toUsb, Event("press", job))
    <3>1. Len(toUsb) \in {0, 1}
      BY <2>2
    <3>2. \A n \in {0, 1} : n < QueueSize
      BY QueueAssumption, QueueSizeAssumption
    <3> QED BY <2>1, <3>1, <3>2 DEF TryAdd
  <2>5. LastIs("press")'
    BY <1>0, <2>2, <2>3, <2>4, QueueAdd DEF LastIs
  <2>6. Phase'
    BY <2>1, <2>2, <2>5 DEF Phase
  <2> QED BY <2>1, <2>2, <2>6 DEF SessionInv
<1>10. ASSUME Answer PROVE SessionInv'
  <2>1. /\ worker = "wait" /\ toCard # <<>> /\ toCard' = Tail(toCard) /\ Head(toCard) = toCard[1]
        /\ UNCHANGED <<core0, resume, locked, busy, buffer, armed, job, cborActive>>
    BY <1>0, <1>10, QueueRemove DEF Answer, WorkerOnly, hidVars
  <2>2. /\ core0 = "loop" /\ cborActive /\ job.kind \in CborKinds /\ toUsb = <<>> /\ ~armed
        /\ Len(toCard) = 1 /\ toCard[1] \in Answers
    BY <1>0, <2>1 DEF SessionInv, Phase, Types
  <2>3. Accepts(job.kind, toCard[1]) /\ job.kind # "boot"
    BY <2>2 DEF Accepts, CborKinds
  <2>4. worker' = "done" /\ toUsb' = toUsb
    BY <1>10, <2>1, <2>3 DEF Answer
  <2>5. toCard' = <<>>
    BY <1>0, <2>1, <2>2, QueueRemove
  <2>6. Phase'
    BY <2>1, <2>2, <2>4, <2>5 DEF Phase
  <2> QED BY <2>1, <2>2, <2>4, <2>6 DEF SessionInv
<1>11. ASSUME Finish PROVE SessionInv'
  <2>1. /\ worker \in {"exec", "done"} /\ worker' = "idle" /\ toUsb' = Append(toUsb, Event("finished", job))
        /\ UNCHANGED <<core0, resume, locked, busy, buffer, armed, toCard, cborActive>>
    BY <1>11 DEF Finish, WorkerOnly, hidVars
  <2>2. /\ core0 = "loop" /\ cborActive /\ toCard = <<>> /\ ~armed
        /\ toUsb = <<>> \/ (Len(toUsb) = 1 /\ toUsb[1].ev = "ack")
    BY <1>0, <2>1 DEF SessionInv, Phase, Types
  <2>3. Event("finished", job) \in AllEvents /\ Event("finished", job).ev = "finished"
    BY <1>0 DEF Event, AllEvents, UsbEvents
  <2>4. LastIs("finished")'
    BY <1>0, <2>1, <2>2, <2>3, QueueAdd DEF LastIs
  <2>5. Phase'
    BY <2>1, <2>2, <2>4 DEF Phase
  <2> QED BY <2>1, <2>2, <2>5 DEF SessionInv
<1>12. ~Restart
  BY DEF Restart, SessionInv
<1> QED
  BY <1>1, <1>3, <1>4, <1>5, <1>6, <1>7, <1>8, <1>9, <1>10, <1>11, <1>12, SessionStep DEF Core0, Core1

-----------------------------------------------------------------------------
(* Theorems *)

\* What every behaviour of MCTransport keeps
TransportInv == CardInv /\ (part = "session" => SessionInv)

\* It holds when the device starts.
LEMMA TransportInit == MCInit => TransportInv
<1> SUFFICES ASSUME MCInit PROVE TransportInv
  OBVIOUS
<1>1. CardInv
  BY CardInit DEF MCInit
<1>2. SessionInv
  BY DEF MCInit, Init, SessionInv, EmptyBuffer, None
<1> QED BY <1>1, <1>2 DEF TransportInv

\* Every step keeps it: those of Apdu change nothing UsbCard has.
LEMMA TransportNext == TransportInv /\ [MCNext]_allVars => TransportInv'
<1> SUFFICES ASSUME TransportInv, [MCNext]_allVars PROVE TransportInv'
  OBVIOUS
<1> USE DEF TransportInv
<1>1. CASE part = "session" /\ S!Next /\ UNCHANGED <<part, apduVars>>
  BY <1>1, SessionStep, CardNext, SessionNext
<1>2. CASE part = "all" /\ Next /\ UNCHANGED <<part, apduVars>>
  <2>1. CardStep
    BY <1>2 DEF Next, Host, CardStep, Clients, Senders
  <2> QED BY <1>2, <2>1, CardNext
<1>3. CASE UNCHANGED <<part, vars>>
  <2>1. UNCHANGED <<core0, resume, locked, toCard, toUsb, buffer, worker, job, armed, cborActive, busy>>
    BY <1>3 DEF vars
  <2>2. CardInv'
    BY <2>1 DEF CardInv, Types, Presence, Presses, Replies, Exiting, Serving
  <2>3. SessionInv => SessionInv'
    BY <2>1 DEF SessionInv, Phase, LastIs
  <2> QED BY <1>3, <2>2, <2>3
<1> QED BY <1>1, <1>2, <1>3 DEF MCNext, allVars

\* The two cores and their queues keep the invariant, whoever sends what.
THEOREM TransportInvariant == MCSpec => []TransportInv
BY TransportInit, TransportNext, PTL DEF MCSpec

\* A touch is given to the request that asked for it only, and a CTAP2 request that waits for the
\* touch is not forgotten (button_wait_start_timeout, wait_button_pressed_timeout).
THEOREM PresenceIsSound == MCSpec => []PresenceSound
<1>1. TransportInv => PresenceSound
  <2> SUFFICES ASSUME TransportInv PROVE PresenceSound
    OBVIOUS
  <2>1. Types /\ Presence
    BY DEF TransportInv, CardInv
  <2>2. DOMAIN toUsb = 1 .. Len(toUsb) /\ DOMAIN toCard = 1 .. Len(toCard)
    BY <2>1 DEF Types
  <2>3. PresenceBelongsToWaiter
    BY <2>1, <2>2 DEF Presence, Presses, Replies, PresenceBelongsToWaiter
  <2>4. ASSUME part = "session", worker = "wait", core0 = "loop"
        PROVE  \/ busy /\ \E i \in DOMAIN toUsb : toUsb[i].ev = "press"
               \/ armed
               \/ \E i \in DOMAIN toCard : Accepts(job.kind, toCard[i])
    <3>1. cborActive /\ busy /\ Phase /\ job.kind \in CborKinds
      BY <2>4 DEF TransportInv, SessionInv, Phase
    <3>2. \A a \in Answers : Accepts(job.kind, a)
      BY <3>1 DEF Accepts, CborKinds
    <3> QED BY <2>2, <2>4, <3>1, <3>2 DEF Phase, LastIs
  <2> QED BY <2>3, <2>4 DEF PresenceSound, PresenceWaitAlive
<1> QED BY <1>1, TransportInvariant, PTL

\* A response never crosses interfaces: card_exit waits for the old worker and empties the queues
\* before the lock moves (card_start, card_exit, card_status).
THEOREM ResponsesStay == MCSpec => []NoCrossTalk
<1>1. TransportInv => NoCrossTalk
  <2> SUFFICES ASSUME TransportInv PROVE NoCrossTalk
    OBVIOUS
  <2>1. DOMAIN toUsb = 1 .. Len(toUsb)
    BY DEF TransportInv, CardInv, Types
  <2> QED BY <2>1 DEF TransportInv, CardInv, Serving, NoCrossTalk
<1> QED BY <1>1, TransportInvariant, PTL

\* What a step does to card_to_usb_q: nothing, something is added at the end, or one event is
\* taken; the acknowledgement of EXIT is taken with all that is behind it, which is nothing.
LEMMA UsbQueueSteps ==
    CardInv /\ CardStep =>
        \/ UNCHANGED toUsb
        \/ \E e \in AllEvents : toUsb' = Append(toUsb, e)
        \/ toUsb # <<>> /\ toUsb' = Tail(toUsb) /\ toUsb[1].ev # "reset"
        \/ Len(toUsb) = 1 /\ toUsb[1].ev = "exit_ack"
        \/ core0 = "rebooted" \/ core0' = "rebooted"
<1> SUFFICES ASSUME CardInv, CardStep
             PROVE  \/ UNCHANGED toUsb
                    \/ \E e \in AllEvents : toUsb' = Append(toUsb, e)
                    \/ toUsb # <<>> /\ toUsb' = Tail(toUsb) /\ toUsb[1].ev # "reset"
                    \/ Len(toUsb) = 1 /\ toUsb[1].ev = "exit_ack"
                    \/ core0 = "rebooted" \/ core0' = "rebooted"
  OBVIOUS
<1>0. toUsb \in Seq(AllEvents) /\ \A e \in UsbEvents : Event(e, job) \in AllEvents /\ Event(e, None) \in AllEvents
  BY DEF CardInv, Types, Event, AllEvents, AllJobs, None
<1>1. CASE (\E k \in CcidKinds : XfrBlock(k)) \/ (\E c \in Clients : HidCancel(c))
  BY <1>1 DEF XfrBlock, HidCancel
<1>2. CASE \E k \in MsgKinds \cup CborKinds \cup {"init"}, c \in Clients : HidRequest(k, c)
  BY <1>2 DEF HidRequest
<1>3. CASE (\E s \in Clients \cup {"ccid"} : GiveUp(s)) \/ ButtonPoll \/ Restart
  BY <1>3 DEF GiveUp, ButtonPoll, Restart
<1>4. CASE AwaitAck
  <2>1. toUsb # <<>> /\ Head(toUsb) = toUsb[1] /\ 1 \in 1 .. Len(toUsb)
    BY <1>0, <1>4, QueueRemove DEF AwaitAck
  <2>2. toUsb[1].ev = "exit_ack" => Len(toUsb) = 1
    BY <2>1 DEF CardInv, Exiting
  <2> QED BY <1>4, <2>1, <2>2 DEF AwaitAck, SecureReboot
<1>5. CASE CardStatus
  <2>1. toUsb # <<>> /\ Head(toUsb) = toUsb[1]
    BY <1>0, <1>5, QueueRemove DEF CardStatus
  <2> QED BY <1>5, <2>1 DEF CardStatus, SecureReboot
<1>6. CASE Core1
  BY <1>0, <1>6 DEF Core1, Fetch, Ask, Answer, Finish, Ack, TryAdd, UsbEvents
<1> QED BY <1>1, <1>2, <1>3, <1>4, <1>5, <1>6 DEF CardStep, Core0

\* A confirmed reboot is never lost: EV_RESET leaves card_to_usb_q only by the reboot, whoever takes
\* it from the queue (handle_card_control_event, usb_send_event).
THEOREM RebootSurvives == MCSpec => ResetSurvives
<1> DEFINE Kept ==
      (\E i \in DOMAIN toUsb : toUsb[i].ev = "reset") /\ core0 # "rebooted"
         => \/ \E i \in DOMAIN toUsb' : toUsb'[i].ev = "reset"
            \/ core0' = "rebooted"
<1>1. TransportInv /\ [MCNext]_allVars => [Kept]_vars
  <2> SUFFICES ASSUME TransportInv, [MCNext]_allVars, ~UNCHANGED vars PROVE Kept
    OBVIOUS
  <2>1. CardInv /\ CardStep
    BY SessionStep DEF TransportInv, MCNext, allVars, Next, Host, CardStep, Clients, Senders
  <2>2. toUsb \in Seq(AllEvents) /\ DOMAIN toUsb = 1 .. Len(toUsb)
    BY <2>1 DEF CardInv, Types
  <2> SUFFICES ASSUME NEW i \in 1 .. Len(toUsb), toUsb[i].ev = "reset",
                      core0 # "rebooted", core0' # "rebooted"
               PROVE  \E j \in DOMAIN toUsb' : toUsb'[j].ev = "reset"
    BY <2>2
  <2>3. CASE UNCHANGED toUsb
    BY <2>2, <2>3
  <2>4. ASSUME NEW e \in AllEvents, toUsb' = Append(toUsb, e)
        PROVE  \E j \in DOMAIN toUsb' : toUsb'[j].ev = "reset"
    BY <2>2, <2>4, QueueAdd
  <2>5. CASE toUsb # <<>> /\ toUsb' = Tail(toUsb) /\ toUsb[1].ev # "reset"
    <3>1. i - 1 \in 1 .. Len(toUsb') /\ toUsb'[i - 1] = toUsb[i] /\ DOMAIN toUsb' = 1 .. Len(toUsb')
      BY <2>2, <2>5, QueueRemove
    <3> QED BY <3>1
  <2>6. ~(Len(toUsb) = 1 /\ toUsb[1].ev = "exit_ack")
    OBVIOUS
  <2> QED BY <2>1, <2>3, <2>4, <2>5, <2>6, UsbQueueSteps
<1> QED BY <1>1, TransportInvariant, PTL DEF MCSpec, ResetSurvives

-----------------------------------------------------------------------------
(* The APDU layer, with one host *)

HeaderNames == Headers \cup {Select, "none"}
PayloadNames == Payloads \cup {"none"}
Hosts == [sent : Seq(B!SegmentBytes), hdr : HeaderNames, name : PayloadNames, len : 0 .. MaxResponse,
          got : Seq(B!Byte), status : Seq(B!Byte)]
Responses == [itf : Itfs \cup {"none"}, gr : Nat, bk : B!Byte \X B!Byte, rlen : Nat, pending : BOOLEAN]

ApduTypes ==
    /\ is_chaining \in BOOLEAN
    /\ chain_header \in HeaderNames
    /\ chain_buf \in Seq(B!SegmentBytes) /\ Len(chain_buf) < ChainSize
    /\ resp \in Responses
    /\ \A i \in Itfs : tx[i] \in [B!Cells(i) -> B!Byte] /\ host[i] \in Hosts
    /\ DOMAIN tx = Itfs /\ DOMAIN host = Itfs

\* The chain is what its host has sent of the command.
Chaining(i) ==
    /\ is_chaining => /\ host[i].hdr = chain_header /\ chain_header # "none"
                      /\ host[i].sent = chain_buf
    /\ ~is_chaining => chain_buf = <<>> /\ host[i].hdr = "none" /\ host[i].sent = <<>>

\* The bytes of a response and its status
Whole(r, n, sw, k) == IF k <= n THEN <<r, k>> ELSE <<sw, k - n>>

\* The host has the first g bytes of the response; the ones that are left are behind them in the
\* buffer, two of them under the status.
Left(i, g) ==
    LET h == host[i] IN
    /\ h.status = <<B!More, B!Remaining(h.len - g)>>
    /\ g < h.len
    /\ resp.pending /\ resp.itf = i /\ resp.gr = CcidHeader + g /\ resp.rlen = h.len - g
    /\ \E sw \in {"ok", "error"} :
          /\ resp.bk = <<Whole(h.name, h.len, sw, g + 1), Whole(h.name, h.len, sw, g + 2)>>
          /\ \A k \in g + 3 .. h.len + 2 : tx[i][CcidHeader + k - 1] = Whole(h.name, h.len, sw, k)

Responding(i) ==
    LET h == host[i] IN
    \E g \in 0 .. h.len :
        /\ h.got = B!Payload(h.name, g)
        /\ \/ h.status = <<>> /\ g = h.len /\ ~resp.pending
           \/ h.status \in {B!StatusBytes("ok"), B!StatusBytes("error")} /\ g = h.len /\ ~resp.pending
           \/ Left(i, g)

ApduInv == ApduTypes /\ B!CommandWhole /\ \A i \in Itfs : Chaining(i) /\ Responding(i)

-----------------------------------------------------------------------------
\* What the constants are
LEMMA ApduNumbers ==
    /\ MaxResponse \in Nat /\ StatusRange \in Nat \ {0} /\ CcidHeader \in Nat /\ CcidMax \in Nat
    /\ MaxResponse + 2 <= CcidMax /\ Lengths \subseteq Nat /\ ChainSize \in Nat \ {0}
BY ApduConstants DEF B!ConstantTypes

\* The bytes the model is about are bytes.
LEMMA Bytes ==
    /\ B!Zero \in B!Byte /\ B!HeaderByte \in B!Byte /\ B!More \in B!Byte
    /\ \A n \in 0 .. MaxResponse : B!Remaining(n) \in B!Byte
    /\ \A r \in Payloads \cup {"none"}, n \in 0 .. MaxResponse, sw \in {"ok", "error"} :
          \A k \in 1 .. n + 2 : Whole(r, n, sw, k) \in B!Byte
<1> DEFINE Num == 0 .. MaxResponse + StatusRange + 2
           Tag == {"zero", "header", "stray", "61", "rest", "ok", "error", "none"} \cup Payloads
<1>1. 0 \in Num /\ (\A n \in 0 .. MaxResponse : n \in Num /\ (IF n >= StatusRange THEN 0 ELSE n) \in Num)
  BY ApduNumbers
<1>2. \A n \in 0 .. MaxResponse : \A k \in 1 .. n + 2 : k \in Num /\ (k > n => k - n \in Num)
  BY ApduNumbers
<1>3. B!Byte = Tag \X Num
  BY DEF B!Byte
<1>4. \A r \in Payloads \cup {"none"} : r \in Tag
  OBVIOUS
<1>5. \A r \in Tag, n \in Num : <<r, n>> \in B!Byte
  BY <1>3
<1>6. {"zero", "header", "61", "rest", "ok", "error"} \subseteq Tag
  OBVIOUS
<1> HIDE DEF Num, Tag
<1>7. \A n \in 0 .. MaxResponse : B!Remaining(n) \in B!Byte
  BY <1>1, <1>5, <1>6 DEF B!Remaining
<1>8. ASSUME NEW r \in Payloads \cup {"none"}, NEW n \in 0 .. MaxResponse, NEW sw \in {"ok", "error"},
             NEW k \in 1 .. n + 2
      PROVE  Whole(r, n, sw, k) \in B!Byte
  <2>1. CASE k <= n
    BY <1>2, <1>4, <1>5, <2>1 DEF Whole
  <2>2. CASE ~(k <= n)
    <3>1. k > n
      BY <2>2, ApduNumbers
    <3>2. k - n \in Num /\ sw \in Tag
      BY <1>2, <1>6, <3>1
    <3> QED BY <1>5, <2>2, <3>2 DEF Whole
  <2> QED BY <2>1, <2>2
<1> QED BY <1>1, <1>5, <1>6, <1>7, <1>8 DEF B!Zero, B!HeaderByte, B!More

\* The response an applet gives, byte by byte
LEMMA WholeResponse ==
    ASSUME NEW r, NEW n \in Nat, NEW sw
    PROVE  /\ \A k \in 1 .. n + 2 : (B!Payload(r, n) \o B!StatusBytes(sw))[k] = Whole(r, n, sw, k)
           /\ B!StatusBytes(sw) = <<Whole(r, n, sw, n + 1), Whole(r, n, sw, n + 2)>>
           /\ B!StatusBytes(sw)[1] = <<sw, 1>>
<1> DEFINE S1 == {<<r, k>> : k \in 1 .. n} \cup {<<sw, 1>>, <<sw, 2>>}
<1>1. B!Payload(r, n) \in Seq(S1) /\ Len(B!Payload(r, n)) = n /\ \A k \in 1 .. n : B!Payload(r, n)[k] = <<r, k>>
  BY DEF B!Payload
<1>2. B!StatusBytes(sw) \in Seq(S1) /\ Len(B!StatusBytes(sw)) = 2
      /\ B!StatusBytes(sw)[1] = <<sw, 1>> /\ B!StatusBytes(sw)[2] = <<sw, 2>>
  BY DEF B!StatusBytes
<1> HIDE DEF S1
<1>3. \A k \in 1 .. n + 2 : (B!Payload(r, n) \o B!StatusBytes(sw))[k] = IF k <= n THEN B!Payload(r, n)[k] ELSE B!StatusBytes(sw)[k - n]
  BY <1>1, <1>2, ConcatProperties
<1>4. \A k \in 1 .. n + 2 : k <= n \/ k = n + 1 \/ k = n + 2
  OBVIOUS
<1>5. \A k \in 1 .. n + 2 : k <= n => k \in 1 .. n
  OBVIOUS
<1>6. (n + 1) - n = 1 /\ (n + 2) - n = 2 /\ ~(n + 1 <= n) /\ ~(n + 2 <= n)
  OBVIOUS
<1>7. \A k \in 1 .. n + 2 : (B!Payload(r, n) \o B!StatusBytes(sw))[k] = Whole(r, n, sw, k)
  BY <1>1, <1>2, <1>3, <1>4, <1>5, <1>6 DEF Whole
<1>8. B!StatusBytes(sw) = <<Whole(r, n, sw, n + 1), Whole(r, n, sw, n + 2)>>
  BY <1>6 DEF B!StatusBytes, Whole
<1> QED BY <1>2, <1>7, <1>8

\* A function on 1 .. n is a sequence of length n.
LEMMA Listed ==
    ASSUME NEW E, NEW n \in Nat, NEW f \in [1 .. n -> E]
    PROVE  f \in Seq(E) /\ Len(f) = n
OBVIOUS

\* A part of m bytes of r and its status, in t from start on, for a host that has g bytes of it
Incoming(h, r, g, m, t, start) ==
    /\ h \in Hosts /\ g \in Nat /\ m \in Nat /\ start \in Int
    /\ h.got = B!Payload(r, g)
    /\ \A k \in 1 .. m + 2 : start + k - 1 \in DOMAIN t /\ t[start + k - 1] \in B!Byte
    /\ \A k \in 1 .. m : t[start + k - 1] = <<r, g + k>>

\* The host after it has taken a part
Takes(after, h, got, status) ==
    /\ after = [h EXCEPT !.got = got, !.status = status]
    /\ got \in Seq(B!Byte) /\ status \in Seq(B!Byte)

\* A part of m bytes and its status are received behind the g bytes before them.
LEMMA Reception ==
    ASSUME NEW h, NEW r, NEW g, NEW m, NEW t, NEW start, Incoming(h, r, g, m, t, start)
    PROVE  Takes(B!Received(h, B!Sent(t, start, m + 2)), h, B!Payload(r, g + m),
                 <<t[start + m], t[start + m + 1]>>)
<1> USE DEF Incoming
<1> DEFINE bytes == B!Sent(t, start, m + 2)
<1>0. m + 2 \in Nat
  OBVIOUS
<1>1. bytes \in Seq(B!Byte) /\ Len(bytes) = m + 2 /\ \A k \in 1 .. m + 2 : bytes[k] = t[start + k - 1]
  <2>1. bytes = [k \in 1 .. m + 2 |-> t[start + k - 1]]
    BY DEF B!Sent
  <2>2. bytes \in [1 .. m + 2 -> B!Byte]
    BY <2>1
  <2>3. bytes \in Seq(B!Byte) /\ Len(bytes) = m + 2
    BY <1>0, <2>2, Listed
  <2> QED BY <2>1, <2>3
<1> HIDE DEF bytes
<1>2. m + 2 - 2 = m /\ m + 1 \in 1 .. m + 3 /\ m \in 0 .. m + 2 /\ 1 \in 1 .. m + 3 /\ m + 2 \in 0 .. m + 2
  OBVIOUS
<1>3. /\ SubSeq(bytes, 1, m) \in Seq(B!Byte) /\ Len(SubSeq(bytes, 1, m)) = m
      /\ \A k \in 1 .. m : SubSeq(bytes, 1, m)[k] = bytes[k]
  BY <1>1, SubSeqProperties
<1>4. /\ SubSeq(bytes, m + 1, m + 2) \in Seq(B!Byte) /\ Len(SubSeq(bytes, m + 1, m + 2)) = 2
      /\ \A k \in 1 .. 2 : SubSeq(bytes, m + 1, m + 2)[k] = bytes[m + k]
  BY <1>1, SubSeqProperties
<1>5. bytes[m + 1] = t[start + m] /\ bytes[m + 2] = t[start + m + 1]
  BY <1>1
<1>6. SubSeq(bytes, m + 1, m + 2) = <<t[start + m], t[start + m + 1]>>
  <2> DEFINE x == t[start + m]
             y == t[start + m + 1]
             s == SubSeq(bytes, m + 1, m + 2)
  <2>1. s \in Seq(B!Byte) /\ Len(s) = 2 /\ s[1] = x /\ s[2] = y
    BY <1>4, <1>5
  <2>2. x \in B!Byte /\ y \in B!Byte
    <3>1. m + 1 \in 1 .. m + 2 /\ m + 2 \in 1 .. m + 2 /\ start + (m + 1) - 1 = start + m /\ start + (m + 2) - 1 = start + m + 1
      OBVIOUS
    <3> QED BY <3>1
  <2> HIDE DEF x, y, s
  <2>3. <<x, y>> \in Seq(B!Byte) /\ Len(<<x, y>>) = 2
    BY <2>2
  <2>4. \A k \in 1 .. 2 : s[k] = <<x, y>>[k]
    BY <2>1
  <2>5. s = <<x, y>>
    BY <2>1, <2>3, <2>4, SeqEqual
  <2> QED BY <2>5 DEF x, y, s
<1>7. h.got \in Seq(B!Byte) /\ Len(h.got) = g /\ \A k \in 1 .. g : h.got[k] = <<r, k>>
  <2>1. h.got \in Seq(B!Byte)
    BY DEF Hosts
  <2> QED BY <2>1 DEF B!Payload
<1>8. h.got \o SubSeq(bytes, 1, m) = B!Payload(r, g + m)
  <2> DEFINE u == h.got
             v == SubSeq(bytes, 1, m)
             s == u \o v
  <2>0. u \in Seq(B!Byte) /\ v \in Seq(B!Byte) /\ Len(u) = g /\ Len(v) = m
    BY <1>3, <1>7
  <2>8. \A k \in 1 .. g : u[k] = <<r, k>>
    BY <1>7
  <2>9. ASSUME NEW k \in 1 .. m PROVE v[k] = <<r, g + k>>
    <3>1. k \in 1 .. m + 2
      OBVIOUS
    <3> QED BY <1>1, <1>3, <3>1
  <2> HIDE DEF u, v
  <2>1. s \in Seq(B!Byte) /\ Len(s) = g + m /\ \A k \in 1 .. g + m : s[k] = IF k <= g THEN u[k] ELSE v[k - g]
    BY <2>0, ConcatProperties
  <2> HIDE DEF s
  <2>2. ASSUME NEW k \in 1 .. g + m PROVE s[k] = <<r, k>>
    <3>1. CASE k <= g
      BY <2>1, <2>8, <3>1
    <3>2. CASE ~(k <= g)
      <4>1. k - g \in 1 .. m /\ g + (k - g) = k
        BY <3>2
      <4>2. v[k - g] = <<r, g + (k - g)>>
        BY <2>9, <4>1
      <4> QED BY <2>1, <3>2, <4>1, <4>2
    <3> QED BY <3>1, <3>2
  <2>3. DOMAIN s = 1 .. g + m
    BY <2>1
  <2>4. s = [k \in 1 .. g + m |-> s[k]]
    BY <2>1, <2>3
  <2> QED BY <2>2, <2>4 DEF B!Payload, s, u, v
<1>9. h.got \o SubSeq(bytes, 1, m) \in Seq(B!Byte)
  BY <1>3, <1>7, ConcatProperties
<1>10. Len(bytes) - 2 = m /\ SubSeq(bytes, m + 1, m + 2) \in Seq(B!Byte)
  BY <1>1, <1>4
<1>11. B!Received(h, bytes) = [h EXCEPT !.got = h.got \o SubSeq(bytes, 1, m), !.status = SubSeq(bytes, m + 1, m + 2)]
  BY <1>10 DEF B!Received
<1> QED BY <1>6, <1>8, <1>9, <1>10, <1>11 DEF bytes, Takes

\* The driver's header in front of a part changes nothing behind it.
LEMMA FramedCells ==
    ASSUME NEW i \in {"ccid", "wcid"}, NEW t \in [B!Cells(i) -> B!Byte], NEW start \in Int
    PROVE  /\ B!Framed(i, t, start) \in [B!Cells(i) -> B!Byte]
           /\ \A c \in B!Cells(i) : c >= start => B!Framed(i, t, start)[c] = t[c]
<1>1. B!Base(i) \in Nat /\ B!Cells(i) \subseteq Int
  BY ApduNumbers DEF B!Base, B!Cells
<1>2. \A c \in B!Cells(i) : c >= start => c \notin start - B!Base(i) .. start - 1
  BY <1>1
<1> QED BY <1>2, Bytes DEF B!Framed

\* What the lemmas on a part of a response have in common: the response r, n with its status sw is in
\* the buffer t from its byte g + 1 on, and the host h has the bytes before.
Ready(i, t, h, r, n, sw, g) ==
    /\ t \in [B!Cells(i) -> B!Byte]
    /\ h \in Hosts /\ h.name = r /\ h.len = n /\ h.got = B!Payload(r, g)
    /\ \A k \in g + 1 .. n + 2 : t[CcidHeader + k - 1] = Whole(r, n, sw, k)

\* What they say
Delivered(i, h) ==
    /\ tx'[i] \in [B!Cells(i) -> B!Byte] /\ host'[i] \in Hosts
    /\ host'[i].hdr = h.hdr /\ host'[i].sent = h.sent
    /\ Responding(i)'

\* The rest of a response is sent.
LEMMA RestSent ==
    ASSUME NEW i \in {"ccid", "wcid"}, NEW t, NEW h, NEW r \in PayloadNames, NEW n \in 0 .. MaxResponse,
           NEW sw \in {"ok", "error"}, NEW g \in 0 .. n, NEW start, start = CcidHeader + g,
           Ready(i, t, h, r, n, sw, g),
           tx'[i] = B!Framed(i, t, start), ~resp'.pending,
           host'[i] = B!Received(h, B!Sent(t, start, n - g + 2))
    PROVE  Delivered(i, h)
<1> DEFINE H == CcidHeader
           M == MaxResponse
           m == n - g
<1>0. B!Base(i) = H /\ B!Cells(i) = 0 .. H + M + 1 /\ H \in Nat /\ n \in Nat /\ g \in Nat /\ m \in Nat
      /\ start \in Int /\ start = H + g /\ M \in Nat
  BY ApduNumbers DEF B!Base, B!Cells
<1>1. tx'[i] \in [B!Cells(i) -> B!Byte]
  BY <1>0, FramedCells DEF Ready
<1>2. ASSUME NEW k \in 1 .. m + 2
      PROVE  /\ start + k - 1 \in DOMAIN t /\ t[start + k - 1] \in B!Byte
             /\ t[start + k - 1] = Whole(r, n, sw, g + k)
  <2>1. start + k - 1 = H + (g + k) - 1 /\ g + k \in g + 1 .. n + 2 /\ start + k - 1 \in 0 .. H + M + 1
    BY <1>0
  <2> QED BY <1>0, <2>1 DEF Ready
<1>3. \A k \in 1 .. m : t[start + k - 1] = <<r, g + k>>
  <2> SUFFICES ASSUME NEW k \in 1 .. m PROVE t[start + k - 1] = <<r, g + k>>
    OBVIOUS
  <2>1. k \in 1 .. m + 2 /\ g + k <= n
    BY <1>0
  <2> QED BY <1>2, <2>1 DEF Whole
<1>4. <<t[start + m], t[start + m + 1]>> = B!StatusBytes(sw)
  <2>1. /\ m + 1 \in 1 .. m + 2 /\ m + 2 \in 1 .. m + 2 /\ g + (m + 1) = n + 1 /\ g + (m + 2) = n + 2
        /\ start + (m + 1) - 1 = start + m /\ start + (m + 2) - 1 = start + m + 1
    BY <1>0
  <2>2. t[start + m] = Whole(r, n, sw, n + 1) /\ t[start + m + 1] = Whole(r, n, sw, n + 2)
    BY <1>2, <2>1
  <2>3. B!StatusBytes(sw) = <<Whole(r, n, sw, n + 1), Whole(r, n, sw, n + 2)>>
    BY <1>0, WholeResponse
  <2> QED BY <2>2, <2>3
<1>5. g + m = n
  BY <1>0
<1> DEFINE got == B!Payload(r, n)
           st == B!StatusBytes(sw)
<1> HIDE DEF m
<1>6. host'[i] = [h EXCEPT !.got = got, !.status = st] /\ got \in Seq(B!Byte) /\ st \in Seq(B!Byte)
  <2>1. Incoming(h, r, g, m, t, start)
    BY <1>0, <1>2, <1>3 DEF Incoming, Ready
  <2>2. Takes(B!Received(h, B!Sent(t, start, m + 2)), h, B!Payload(r, g + m),
              <<t[start + m], t[start + m + 1]>>)
    BY <2>1, Reception
  <2> QED BY <1>4, <1>5, <2>2 DEF m, Takes
<1> HIDE DEF got, st
<1>7. host'[i] \in Hosts /\ host'[i].got = got /\ host'[i].status = st
      /\ host'[i].name = r /\ host'[i].len = n /\ host'[i].hdr = h.hdr /\ host'[i].sent = h.sent
  BY <1>6 DEF Ready, Hosts
<1>8. Responding(i)'
  BY <1>0, <1>7 DEF Responding, got, st
<1> QED BY <1>1, <1>7, <1>8 DEF Delivered

\* A part of ne bytes is cut off what is in t from start on, and sent.
SendsPart(i, t, h, rs, start, ne) ==
    LET c == B!Cut(t, rs, start, ne)
    IN  /\ tx'[i] = B!Framed(i, c.t, start) /\ resp' = c.r
        /\ host'[i] = B!Received(h, B!Sent(c.t, start, ne + 2))

\* The host gets the part, and the card keeps the rest.
LEMMA PartSent ==
    ASSUME NEW i \in {"ccid", "wcid"}, i \in Itfs, NEW t, NEW h, NEW r \in PayloadNames, NEW n \in 0 .. MaxResponse,
           NEW sw \in {"ok", "error"}, NEW g \in 0 .. n, Ready(i, t, h, r, n, sw, g),
           NEW start, start = CcidHeader + g,
           NEW ne \in Nat, ne < n - g, NEW rs \in Responses, rs.rlen = n - g, rs.itf = i,
           SendsPart(i, t, h, rs, start, ne)
    PROVE  Delivered(i, h) /\ resp' \in Responses
<1> DEFINE H == CcidHeader
           M == MaxResponse
           at == H + g + ne
           left == n - (g + ne)
           u == [t EXCEPT ![at] = B!More, ![at + 1] = B!Remaining(left)]
<1>0. /\ B!Base(i) = H /\ B!Cells(i) = 0 .. H + M + 1 /\ H \in Nat /\ n \in Nat /\ g \in Nat
      /\ start \in Int /\ start = H + g /\ M \in Nat /\ at \in Nat /\ at = H + (g + ne) /\ start + ne = at /\ left \in 0 .. M /\ left \in Nat /\ n - g - ne = left
      /\ at \in B!Cells(i) /\ at + 1 \in B!Cells(i) /\ g + ne \in 0 .. n /\ g + ne < n
  BY ApduNumbers DEF B!Base, B!Cells
<1>1. /\ tx'[i] = B!Framed(i, u, start)
      /\ resp' = [rs EXCEPT !.gr = at, !.bk = <<t[at], t[at + 1]>>, !.rlen = left, !.pending = TRUE]
      /\ host'[i] = B!Received(h, B!Sent(u, start, ne + 2))
  BY <1>0 DEF SendsPart, B!Cut, Responses
<1>2. u \in [B!Cells(i) -> B!Byte] /\ u[at] = B!More /\ u[at + 1] = B!Remaining(left)
      /\ \A c \in B!Cells(i) : c # at /\ c # at + 1 => u[c] = t[c]
  <2>1. t \in [B!Cells(i) -> B!Byte] /\ B!More \in B!Byte /\ B!Remaining(left) \in B!Byte /\ at # at + 1
    BY <1>0, Bytes DEF Ready
  <2> QED BY <1>0, <2>1
<1> HIDE DEF u
<1>3. /\ tx'[i] \in [B!Cells(i) -> B!Byte]
      /\ \A c \in B!Cells(i) : c >= start => tx'[i][c] = u[c]
  <2>1. /\ B!Framed(i, u, start) \in [B!Cells(i) -> B!Byte]
        /\ \A c \in B!Cells(i) : c >= start => B!Framed(i, u, start)[c] = u[c]
    BY <1>0, <1>2, FramedCells
  <2> QED BY <1>1, <2>1
<1>4. ASSUME NEW k \in 1 .. ne + 2
      PROVE  /\ start + k - 1 \in DOMAIN u /\ u[start + k - 1] \in B!Byte
  <2>1. start + k - 1 \in 0 .. H + M + 1
    BY <1>0
  <2> QED BY <1>0, <1>2, <2>1
<1>5. ASSUME NEW k \in 1 .. ne PROVE u[start + k - 1] = <<r, g + k>>
  <2>1. /\ start + k - 1 = H + (g + k) - 1 /\ g + k \in g + 1 .. n + 2 /\ start + k - 1 \in 0 .. H + M + 1
        /\ start + k - 1 # at /\ start + k - 1 # at + 1 /\ g + k <= n
    BY <1>0
  <2> QED BY <1>0, <1>2, <2>1 DEF Ready, Whole
<1> DEFINE got == B!Payload(r, g + ne)
           st == <<B!More, B!Remaining(left)>>
<1>6. host'[i] = [h EXCEPT !.got = got, !.status = st] /\ got \in Seq(B!Byte) /\ st \in Seq(B!Byte)
  <2>1. Incoming(h, r, g, ne, u, start)
    BY <1>0, <1>4, <1>5 DEF Incoming, Ready
  <2>2. Takes(B!Received(h, B!Sent(u, start, ne + 2)), h, B!Payload(r, g + ne),
              <<u[start + ne], u[start + ne + 1]>>)
    BY <2>1, Reception
  <2> QED BY <1>0, <1>1, <1>2, <2>2 DEF Takes
<1> HIDE DEF got, st
<1>7. host'[i] \in Hosts /\ host'[i].got = got /\ host'[i].status = st
      /\ host'[i].name = r /\ host'[i].len = n /\ host'[i].hdr = h.hdr /\ host'[i].sent = h.sent
  BY <1>6 DEF Ready, Hosts
<1>8. t[at] = Whole(r, n, sw, g + ne + 1) /\ t[at + 1] = Whole(r, n, sw, g + ne + 2)
  <2>1. /\ g + ne + 1 \in g + 1 .. n + 2 /\ g + ne + 2 \in g + 1 .. n + 2
        /\ H + (g + ne + 1) - 1 = at /\ H + (g + ne + 2) - 1 = at + 1
    BY <1>0
  <2> QED BY <2>1 DEF Ready
<1>9. t[at] \in B!Byte /\ t[at + 1] \in B!Byte
  BY <1>0 DEF Ready
<1>10. /\ resp' \in Responses /\ resp'.pending /\ resp'.itf = i /\ resp'.gr = H + (g + ne) /\ resp'.rlen = left
       /\ resp'.bk = <<Whole(r, n, sw, g + ne + 1), Whole(r, n, sw, g + ne + 2)>>
  <2> DEFINE bk == <<t[at], t[at + 1]>>
  <2>1. bk \in B!Byte \X B!Byte /\ bk = <<Whole(r, n, sw, g + ne + 1), Whole(r, n, sw, g + ne + 2)>>
    BY <1>8, <1>9
  <2> HIDE DEF bk
  <2>2. resp' = [rs EXCEPT !.gr = at, !.bk = bk, !.rlen = left, !.pending = TRUE]
    BY <1>1 DEF bk
  <2>3. resp' \in Responses /\ resp'.pending = TRUE /\ resp'.itf = i /\ resp'.gr = at /\ resp'.rlen = left /\ resp'.bk = bk
    BY <1>0, <2>1, <2>2 DEF Responses
  <2> QED BY <1>0, <2>1, <2>3
<1>11. ASSUME NEW k \in g + ne + 3 .. n + 2 PROVE tx'[i][H + k - 1] = Whole(r, n, sw, k)
  <2>1. /\ H + k - 1 \in 0 .. H + M + 1 /\ H + k - 1 >= start /\ H + k - 1 # at /\ H + k - 1 # at + 1
        /\ k \in g + 1 .. n + 2
    BY <1>0
  <2> QED BY <1>0, <1>2, <1>3, <2>1 DEF Ready
<1>12. Left(i, g + ne)'
  BY <1>0, <1>7, <1>10, <1>11 DEF Left, st
<1>13. Responding(i)'
  BY <1>0, <1>7, <1>12 DEF Responding, got
<1> QED BY <1>3, <1>7, <1>10, <1>13 DEF Delivered

\* An applet answers n bytes: the host receives all of them or the first ne, and the rest is kept.
LEMMA Answered ==
    ASSUME NEW i \in {"ccid", "wcid"}, Itfs = {i}, ApduTypes,
           NEW h \in Hosts, NEW ne \in Nat, NEW r \in PayloadNames, NEW n \in 0 .. MaxResponse,
           NEW sw \in {"ok", "error"}, B!Answer(i, h, ne, r, n, sw)
    PROVE  DOMAIN tx' = Itfs /\ DOMAIN host' = Itfs /\ resp' \in Responses /\ Delivered(i, h)
<1> DEFINE H == CcidHeader
           M == MaxResponse
           all == B!Payload(r, n) \o B!StatusBytes(sw)
           t0 == [c \in B!Cells(i) |-> IF c - H \in 0 .. n + 1 THEN all[c - H + 1] ELSE tx[i][c]]
           r0 == [itf |-> i, gr |-> H, bk |-> B!NoBytes, rlen |-> n, pending |-> FALSE]
           h0 == [h EXCEPT !.name = r, !.len = n, !.got = <<>>]
<1>0. B!Base(i) = H /\ B!Cells(i) = 0 .. H + M + 1 /\ B!Fresh(i) = tx[i]
  BY DEF B!Base, B!Cells, B!Fresh, ApduTypes
<1>1. \A k \in 1 .. n + 2 : all[k] = Whole(r, n, sw, k) /\ all[k] \in B!Byte
  <2>1. n \in Nat
    BY ApduNumbers
  <2>2. \A k \in 1 .. n + 2 : all[k] = Whole(r, n, sw, k)
    BY <2>1, WholeResponse
  <2> HIDE DEF all
  <2> QED BY <2>2, Bytes DEF PayloadNames
<1>2. t0 \in [B!Cells(i) -> B!Byte] /\ \A k \in 1 .. n + 2 : t0[H + k - 1] = Whole(r, n, sw, k) /\ H + k - 1 \in B!Cells(i)
  <2>1. ASSUME NEW c \in B!Cells(i), c - H \in 0 .. n + 1 PROVE c - H + 1 \in 1 .. n + 2
    BY <1>0, <2>1, ApduNumbers
  <2>2. t0 \in [B!Cells(i) -> B!Byte]
    BY <1>1, <2>1 DEF ApduTypes
  <2>3. ASSUME NEW k \in 1 .. n + 2
        PROVE H + k - 1 \in 0 .. H + M + 1 /\ (H + k - 1) - H \in 0 .. n + 1 /\ (H + k - 1) - H + 1 = k
    BY ApduNumbers
  <2>4. ASSUME NEW k \in 1 .. n + 2 PROVE t0[H + k - 1] = Whole(r, n, sw, k)
    BY <1>0, <1>1, <2>3
  <2> QED BY <1>0, <2>2, <2>3, <2>4
<1>3. h0 \in Hosts /\ h0.got = B!Payload(r, 0) /\ h0.name = r /\ h0.len = n /\ h0.hdr = h.hdr /\ h0.sent = h.sent
  <2>1. B!Payload(r, 0) = <<>> /\ <<>> \in Seq(B!Byte)
    BY DEF B!Payload
  <2> QED BY <2>1 DEF Hosts
<1>4. r0 \in Responses
  BY ApduNumbers, Bytes DEF Responses, B!NoBytes
<1> DEFINE p == B!Next_(t0, r0, i, ne)
<1>5. p.size <= n + 2 /\ B!Limited(p, i) = p
  <2>1. CASE n <= ne
    <3>1. p.size = n + 2 /\ n + 2 <= CcidMax
      BY <2>1, ApduNumbers DEF B!Next_
    <3> HIDE DEF p
    <3> QED BY <3>1 DEF B!Limited
  <2>2. CASE ~(n <= ne)
    <3>1. p.size = ne + 2
      BY <2>2 DEF B!Next_
    <3>2. ne + 2 <= n + 2 /\ ne + 2 <= CcidMax
      BY <2>2, ApduNumbers
    <3> QED BY <3>1, <3>2 DEF B!Limited
  <2> QED BY <2>1, <2>2
<1>6. /\ tx' = [tx EXCEPT ![i] = B!Framed(i, p.t, H)]
      /\ resp' = p.r
      /\ host' = [host EXCEPT ![i] = B!Received(h0, B!Sent(p.t, H, p.size))]
  BY <1>0, <1>5 DEF B!Answer
<1>7. /\ DOMAIN tx' = Itfs /\ DOMAIN host' = Itfs /\ tx'[i] = B!Framed(i, p.t, H)
      /\ host'[i] = B!Received(h0, B!Sent(p.t, H, p.size))
  BY <1>6 DEF ApduTypes
<1>8. r0.rlen = n /\ r0.itf = i
  OBVIOUS
<1> HIDE DEF t0, r0, h0
<1>9. Ready(i, t0, h0, r, n, sw, 0) /\ 0 \in 0 .. n /\ H = CcidHeader + 0 /\ n - 0 = n
  BY <1>2, <1>3, ApduNumbers DEF Ready
<1>10. CASE n <= ne
  <2>1. p.t = t0 /\ p.r = [r0 EXCEPT !.pending = FALSE] /\ p.size = n + 2
    BY <1>8, <1>10 DEF B!Next_
  <2>2. resp' \in Responses /\ ~resp'.pending
    BY <1>4, <1>6, <2>1 DEF Responses
  <2>3. tx'[i] = B!Framed(i, t0, H) /\ host'[i] = B!Received(h0, B!Sent(t0, H, n - 0 + 2))
    BY <1>7, <1>9, <2>1
  <2>4. Delivered(i, h0)
    BY <1>9, <2>2, <2>3, RestSent
  <2> QED BY <1>3, <1>7, <2>2, <2>4 DEF Delivered
<1>11. CASE ~(n <= ne)
  <2>1. p.t = B!Cut(t0, r0, H, ne).t /\ p.r = B!Cut(t0, r0, H, ne).r /\ p.size = ne + 2
    BY <1>0, <1>8, <1>11 DEF B!Next_
  <2>2. SendsPart(i, t0, h0, r0, H, ne)
    BY <1>6, <1>7, <2>1 DEF SendsPart
  <2>3. ne < n - 0
    BY <1>11, ApduNumbers
  <2>5. r0.rlen = n - 0 /\ i \in Itfs /\ H = CcidHeader + 0
    BY <1>8, <1>9
  <2>4. Delivered(i, h0) /\ resp' \in Responses
    BY <1>4, <1>8, <1>9, <2>2, <2>3, <2>5, PartSent
  <2> QED BY <1>3, <1>7, <2>4 DEF Delivered
<1> QED BY <1>10, <1>11

\* The invariant holds when the device starts.
LEMMA ApduInit == Itfs \in {{"ccid"}, {"wcid"}} /\ B!Init => ApduInv
<1> SUFFICES ASSUME NEW i \in {"ccid", "wcid"}, Itfs = {i}, B!Init PROVE ApduInv
  BY DEF ApduInv
<1>1. host[i] \in Hosts /\ host[i] = B!QuietHost /\ DOMAIN host = Itfs /\ host[i].got = B!Payload("none", 0)
  <2>1. B!Payload("none", 0) = <<>>
    BY DEF B!Payload
  <2> QED BY <2>1, ApduNumbers DEF B!Init, Hosts, HeaderNames, PayloadNames, B!QuietHost, B!NoHeader
<1>2. tx[i] \in [B!Cells(i) -> B!Byte] /\ DOMAIN tx = Itfs
  BY Bytes DEF B!Init
<1>3. resp \in Responses /\ ~resp.pending
  BY Bytes DEF B!Init, Responses, B!NoResponse, B!NoBytes
<1>4. ApduTypes
  <2>1. chain_buf = <<>> /\ <<>> \in Seq(B!SegmentBytes) /\ Len(<<>>) < ChainSize
    BY ApduNumbers DEF B!Init
  <2> QED BY <1>1, <1>2, <1>3, <2>1 DEF ApduTypes, B!Init, HeaderNames, B!NoHeader
<1>5. Chaining(i)
  BY <1>1 DEF Chaining, B!Init, B!QuietHost, B!NoHeader
<1>6. Responding(i)
  <2>1. 0 \in 0 .. host[i].len /\ host[i].len = 0 /\ host[i].status = <<>> /\ host[i].name = "none"
    BY <1>1 DEF B!QuietHost
  <2> QED BY <1>1, <1>3, <2>1 DEF Responding
<1> QED BY <1>4, <1>5, <1>6 DEF ApduInv, B!CommandWhole, B!Init

\* A command, or a segment of one: the host has what it said of its chain, and the response is right.
LEMMA ChainStep ==
    ASSUME NEW i \in {"ccid", "wcid"}, Itfs = {i}, ApduInv, NEW hh \in Headers \cup {Select}, NEW d \in Segments,
           \/ B!Segment(i, hh, d)
           \/ \E last \in BOOLEAN : B!Refused(i, hh, d, last)
           \/ \E ne \in Lengths, r \in Payloads, n \in 0 .. MaxResponse : B!Command(i, hh, d, ne, r, n)
    PROVE  ApduInv'
<1> DEFINE kept == B!ChainKept(i, hh, d)
           over == B!ChainOver(i)
<1>0. /\ hh # "none" /\ hh \in HeaderNames /\ d \in Seq(B!SegmentBytes) /\ 0 \in Nat /\ 0 \in 0 .. MaxResponse
      /\ "none" \in PayloadNames /\ Lengths \subseteq Nat /\ ChainSize \in Nat \ {0}
  BY ApduNumbers, ApduConstants DEF B!ConstantTypes, HeaderNames, PayloadNames
<1>1. ApduTypes /\ Chaining(i) /\ host[i] \in Hosts /\ chain_buf \in Seq(B!SegmentBytes)
  BY DEF ApduInv, ApduTypes
<1>2. chain_buf \o d \in Seq(B!SegmentBytes) /\ Len(chain_buf \o d) = Len(chain_buf) + Len(d)
  BY <1>0, <1>1, ConcatProperties
<1>3. B!HeadersMatch(hh) => B!HostData(i, hh, d) = chain_buf \o d
  <2>1. CASE is_chaining
    BY <1>1, <2>1 DEF Chaining, B!HostData, B!HeadersMatch
  <2>2. CASE ~is_chaining
    <3>1. chain_buf \o d = d
      BY <1>0, <1>1, <2>2, ConcatEmptySeq DEF Chaining
    <3> QED BY <1>0, <1>1, <2>2, <3>1 DEF Chaining, B!HostData
  <2> QED BY <2>1, <2>2
<1>4. over \in Hosts /\ over.hdr = "none" /\ over.sent = <<>>
  <2>1. <<>> \in Seq(B!SegmentBytes)
    OBVIOUS
  <2> QED BY <1>1, <2>1 DEF B!ChainOver, Hosts, B!NoHeader, HeaderNames
<1>5. ASSUME NEW h \in Hosts, NEW ne \in Nat, NEW r \in PayloadNames, NEW n \in 0 .. MaxResponse,
             NEW sw \in {"ok", "error"}, B!Answer(i, h, ne, r, n, sw),
             is_chaining' \in BOOLEAN, chain_header' \in HeaderNames,
             chain_buf' \in Seq(B!SegmentBytes), Len(chain_buf') < ChainSize,
             is_chaining' => h.hdr = chain_header' /\ chain_header' # "none" /\ h.sent = chain_buf',
             ~is_chaining' => chain_buf' = <<>> /\ h.hdr = "none" /\ h.sent = <<>>,
             B!CommandWhole'
      PROVE  ApduInv'
  <2>0. DOMAIN tx' = Itfs /\ DOMAIN host' = Itfs /\ resp' \in Responses /\ Delivered(i, h)
    BY <1>1, <1>5, Answered
  <2>1. /\ tx'[i] \in [B!Cells(i) -> B!Byte] /\ host'[i] \in Hosts
        /\ host'[i].hdr = h.hdr /\ host'[i].sent = h.sent
        /\ Responding(i)'
    BY <2>0 DEF Delivered
  <2>2. ApduTypes'
    BY <1>5, <2>0, <2>1 DEF ApduTypes, B!Cells, B!Base, B!Byte, B!SegmentBytes, Hosts, Responses,
       HeaderNames, PayloadNames
  <2>3. Chaining(i)'
    BY <1>5, <2>1 DEF Chaining
  <2> QED BY <1>5, <2>1, <2>2, <2>3 DEF ApduInv
<1>6. CASE B!Segment(i, hh, d)
  <2>1. kept \in Hosts /\ kept.hdr = hh /\ kept.sent = chain_buf \o d
    BY <1>0, <1>1, <1>2, <1>3, <1>6 DEF B!Segment, B!ChainKept, Hosts
  <2>2. /\ is_chaining' = TRUE /\ chain_buf' = chain_buf \o d /\ chain_header' = hh
        /\ B!Answer(i, kept, 0, "none", 0, "ok") /\ executed' = executed
    BY <1>6 DEF B!Segment, B!HeadersMatch
  <2>3. Len(chain_buf') < ChainSize
    BY <1>2, <1>6, <2>2 DEF B!Segment, B!FitsChain
  <2>4. B!CommandWhole'
    BY <2>2 DEF B!CommandWhole, ApduInv
  <2> HIDE DEF kept
  <2> QED BY <1>0, <1>2, <1>5, <2>1, <2>2, <2>3, <2>4
<1>7. CASE \E last \in BOOLEAN : B!Refused(i, hh, d, last)
  <2>1. /\ is_chaining' = FALSE /\ chain_buf' = <<>> /\ chain_header' = chain_header
        /\ B!Answer(i, over, 0, "none", 0, "error") /\ executed' = executed
    BY <1>7 DEF B!Refused, B!DropChain
  <2>2. B!CommandWhole' /\ Len(chain_buf') < ChainSize /\ chain_buf' \in Seq(B!SegmentBytes) /\ chain_header' \in HeaderNames
    BY <1>0, <1>1, <2>1 DEF B!CommandWhole, ApduInv, ApduTypes
  <2> HIDE DEF over
  <2> QED BY <1>0, <1>4, <1>5, <2>1, <2>2
<1>8. ASSUME NEW ne \in Lengths, NEW r \in Payloads, NEW n \in 0 .. MaxResponse, B!Command(i, hh, d, ne, r, n)
      PROVE  ApduInv'
  <2>1. /\ is_chaining' = FALSE /\ chain_buf' = <<>> /\ chain_header' = chain_header
        /\ B!Answer(i, over, ne, r, n, "ok") \/ (n = 0 /\ B!Answer(i, over, ne, r, n, "error"))
        /\ executed' = [given |-> B!Collected(hh, d), meant |-> IF hh = Select THEN d ELSE B!HostData(i, hh, d)]
    BY <1>8 DEF B!Command, B!DropChain
  <2>2. Len(chain_buf') < ChainSize /\ chain_buf' \in Seq(B!SegmentBytes) /\ chain_header' \in HeaderNames
    BY <1>0, <1>1, <2>1 DEF ApduTypes
  <2>3. B!Collected(hh, d) = IF hh = Select THEN d ELSE B!HostData(i, hh, d)
    <3>1. CASE hh = Select \/ ~is_chaining
      BY <1>0, <1>1, <3>1 DEF Chaining, B!Collected, B!HostData
    <3>2. CASE hh # Select /\ is_chaining
      BY <1>3, <1>8, <3>2 DEF B!Command, B!Collected
    <3> QED BY <3>1, <3>2
  <2>4. B!CommandWhole'
    BY <2>1, <2>3 DEF B!CommandWhole
  <2>5. ne \in Nat /\ r \in PayloadNames
    BY <1>0 DEF PayloadNames
  <2> HIDE DEF over
  <2> QED BY <1>0, <1>4, <1>5, <2>1, <2>2, <2>4, <2>5
<1> QED BY <1>6, <1>7, <1>8

\* GET RESPONSE: the host gets the next part, or the rest.
LEMMA ResponseStep ==
    ASSUME NEW i \in {"ccid", "wcid"}, Itfs = {i}, ApduInv, B!MorePending(host[i]),
           NEW ne \in Lengths, B!LastPart(i, ne) \/ B!NextPart(i, ne)
    PROVE  ApduInv'
<1> DEFINE H == CcidHeader
           h == host[i]
           n == host[i].len
           r == host[i].name
           t == B!Restored(tx[i])
<1>0. ApduTypes /\ Chaining(i) /\ Responding(i) /\ h \in Hosts /\ resp \in Responses /\ tx[i] \in [B!Cells(i) -> B!Byte]
      /\ DOMAIN tx = Itfs /\ DOMAIN host = Itfs
  BY DEF ApduInv, ApduTypes
<1>1. PICK g \in 0 .. n : h.got = B!Payload(r, g) /\ Left(i, g)
  <2>1. \A sw \in {"ok", "error"} : B!StatusBytes(sw)[1] # B!More
    BY DEF B!StatusBytes, B!More
  <2> QED BY <1>0, <2>1 DEF Responding, B!MorePending
<1>2. n \in 0 .. MaxResponse /\ r \in PayloadNames /\ ne \in Nat /\ H \in Nat /\ MaxResponse \in Nat /\ CcidMax \in Nat
      /\ MaxResponse + 2 <= CcidMax
  BY <1>0, ApduNumbers DEF Hosts
<1>3. /\ g < n /\ resp.gr = H + g /\ resp.rlen = n - g /\ resp.itf = i /\ resp.pending
  BY <1>1 DEF Left
<1>4. PICK sw \in {"ok", "error"} :
          /\ resp.bk = <<Whole(r, n, sw, g + 1), Whole(r, n, sw, g + 2)>>
          /\ \A k \in g + 3 .. n + 2 : tx[i][H + k - 1] = Whole(r, n, sw, k)
  BY <1>1 DEF Left
<1>5. B!Base(i) = H /\ B!Cells(i) = 0 .. H + MaxResponse + 1 /\ B!Fresh(i) = tx[i]
  BY <1>0 DEF B!Base, B!Cells, B!Fresh
<1>6. Ready(i, t, h, r, n, sw, g)
  <2>1. resp.bk[1] = Whole(r, n, sw, g + 1) /\ resp.bk[2] = Whole(r, n, sw, g + 2) /\ resp.bk[1] \in B!Byte /\ resp.bk[2] \in B!Byte
    BY <1>0, <1>4 DEF Responses
  <2>2. H + g \in B!Cells(i) /\ H + g + 1 \in B!Cells(i) /\ H + g # H + g + 1
    BY <1>2, <1>3, <1>5
  <2>3. t = [tx[i] EXCEPT ![H + g] = resp.bk[1], ![H + g + 1] = resp.bk[2]]
    BY <1>3 DEF B!Restored
  <2> HIDE DEF t
  <2>4. /\ t \in [B!Cells(i) -> B!Byte] /\ t[H + g] = resp.bk[1] /\ t[H + g + 1] = resp.bk[2]
        /\ \A c \in B!Cells(i) : c # H + g /\ c # H + g + 1 => t[c] = tx[i][c]
    BY <1>0, <2>1, <2>2, <2>3
  <2>5. ASSUME NEW k \in g + 1 .. n + 2 PROVE t[H + k - 1] = Whole(r, n, sw, k)
    <3>1. k = g + 1 \/ k = g + 2 \/ k \in g + 3 .. n + 2
      BY <1>2
    <3>2. CASE k = g + 1
      <4>1. H + k - 1 = H + g
        BY <1>2, <3>2
      <4> QED BY <2>1, <2>4, <3>2, <4>1
    <3>3. CASE k = g + 2
      <4>1. H + k - 1 = H + g + 1
        BY <1>2, <3>3
      <4> QED BY <2>1, <2>4, <3>3, <4>1
    <3>4. CASE k \in g + 3 .. n + 2
      <4>1. H + k - 1 \in 0 .. H + MaxResponse + 1 /\ H + k - 1 # H + g /\ H + k - 1 # H + g + 1
        BY <1>2, <3>4
      <4> QED BY <1>4, <1>5, <2>4, <3>4, <4>1
    <3> QED BY <3>1, <3>2, <3>3, <3>4
  <2> QED BY <1>0, <1>1, <2>4, <2>5 DEF Ready
<1>7. B!ContStart(i) = H + g
  BY <1>2, <1>3, <1>5 DEF B!ContStart
<1> DEFINE start == H + g
<1>8. start = CcidHeader + g /\ i \in Itfs
  OBVIOUS
<1> HIDE DEF t, start
<1>9. UNCHANGED <<is_chaining, chain_header, chain_buf, executed>>
  BY DEF B!LastPart, B!NextPart
<1>10. DOMAIN tx' = Itfs /\ DOMAIN host' = Itfs /\ resp' \in Responses /\ Delivered(i, h)
  <2>1. CASE B!LastPart(i, ne)
    <3>1. resp.rlen + 2 = n - g + 2 /\ resp.rlen + 2 <= CcidMax
      BY <1>2, <1>3
    <3>2. B!Continue(i, t, n - g + 2)
      BY <1>5, <2>1, <3>1 DEF B!LastPart, t
    <3>3. /\ tx' = [tx EXCEPT ![i] = B!Framed(i, t, start)]
          /\ host' = [host EXCEPT ![i] = B!Received(h, B!Sent(t, start, n - g + 2))]
      BY <1>7, <3>1, <3>2 DEF B!Continue, start
    <3>4. resp' = [resp EXCEPT !.rlen = 0, !.gr = H, !.bk = B!NoBytes, !.pending = FALSE]
      BY <1>5, <2>1 DEF B!LastPart
    <3>5. B!NoBytes \in B!Byte \X B!Byte
      BY Bytes DEF B!NoBytes
    <3>6. resp' \in Responses /\ ~resp'.pending
      BY <1>0, <1>2, <3>4, <3>5 DEF Responses
    <3>7. DOMAIN tx' = Itfs /\ DOMAIN host' = Itfs /\ tx'[i] = B!Framed(i, t, start)
          /\ host'[i] = B!Received(h, B!Sent(t, start, n - g + 2))
      BY <1>0, <3>3
    <3> QED BY <1>2, <1>6, <1>8, <3>6, <3>7, RestSent
  <2>2. CASE B!NextPart(i, ne)
    <3>1. ne < n - g /\ ne + 2 <= CcidMax
      BY <1>2, <1>3, <2>2 DEF B!NextPart
    <3>2. B!Continue(i, B!Cut(t, resp, start, ne).t, ne + 2) /\ resp' = B!Cut(t, resp, start, ne).r
      BY <1>3, <1>5, <2>2 DEF B!NextPart, t, start
    <3>3. /\ tx' = [tx EXCEPT ![i] = B!Framed(i, B!Cut(t, resp, start, ne).t, start)]
          /\ host' = [host EXCEPT ![i] = B!Received(h, B!Sent(B!Cut(t, resp, start, ne).t, start, ne + 2))]
      BY <1>7, <3>1, <3>2 DEF B!Continue, start
    <3>4. DOMAIN tx' = Itfs /\ DOMAIN host' = Itfs /\ SendsPart(i, t, h, resp, start, ne)
      BY <1>0, <3>2, <3>3 DEF SendsPart
    <3>5. resp.rlen = n - g /\ resp.itf = i /\ resp \in Responses
      BY <1>0, <1>3
    <3> HIDE DEF h, n, r
    <3> QED BY <1>2, <1>6, <1>8, <3>1, <3>4, <3>5, PartSent
  <2> QED BY <2>1, <2>2
<1>11. /\ tx'[i] \in [B!Cells(i) -> B!Byte] /\ host'[i] \in Hosts
       /\ host'[i].hdr = h.hdr /\ host'[i].sent = h.sent
       /\ Responding(i)'
  BY <1>10 DEF Delivered
<1>12. ApduTypes'
  BY <1>0, <1>9, <1>10, <1>11 DEF ApduTypes
<1>13. Chaining(i)'
  BY <1>0, <1>9, <1>11 DEF Chaining
<1>14. B!CommandWhole'
  BY <1>9 DEF B!CommandWhole, ApduInv
<1> QED BY <1>11, <1>12, <1>13, <1>14 DEF ApduInv

\* A step of the APDU layer keeps the invariant.
LEMMA ApduNext == Itfs \in {{"ccid"}, {"wcid"}} /\ ApduInv /\ [B!Next]_apduVars => ApduInv'
<1> SUFFICES ASSUME NEW i \in {"ccid", "wcid"}, Itfs = {i}, ApduInv, [B!Next]_apduVars PROVE ApduInv'
  OBVIOUS
<1>1. ASSUME NEW h \in Headers \cup {Select}, NEW d \in Segments,
             \/ B!Segment(i, h, d)
             \/ \E last \in BOOLEAN : B!Refused(i, h, d, last)
             \/ \E ne \in Lengths, r \in Payloads, n \in 0 .. MaxResponse : B!Command(i, h, d, ne, r, n)
      PROVE  ApduInv'
  BY <1>1, ChainStep
<1>2. CASE B!Malformed(i) \/ UNCHANGED apduVars
  <2>1. tx[i] \in [B!Cells(i) -> B!Byte] /\ B!Fresh(i) = tx[i] /\ DOMAIN tx = Itfs
    BY DEF ApduInv, ApduTypes, B!Fresh
  <2>2. DOMAIN tx' = Itfs /\ tx'[i] = tx[i] /\ UNCHANGED <<is_chaining, chain_header, chain_buf, resp, host, executed>>
    BY <1>2, <2>1 DEF B!Malformed, apduVars
  <2>3. ApduTypes' /\ Chaining(i)' /\ B!CommandWhole'
    BY <2>2 DEF ApduInv, ApduTypes, Chaining, B!CommandWhole
  <2>4. ASSUME NEW g, Left(i, g) PROVE Left(i, g)'
    BY <2>2, <2>4 DEF Left
  <2>5. Responding(i)'
    BY <2>2, <2>4 DEF ApduInv, Responding
  <2> QED BY <2>3, <2>5 DEF ApduInv
<1>3. ASSUME B!MorePending(host[i]), NEW ne \in Lengths, B!LastPart(i, ne) \/ B!NextPart(i, ne) PROVE ApduInv'
  BY <1>3, ResponseStep
<1> QED BY <1>1, <1>2, <1>3 DEF B!Next

\* With one host on a CCID interface, any headers, segments and buffer sizes, the applet is given
\* exactly the segments that were sent for its command (apdu_process).
THEOREM CommandsWhole == Itfs \in {{"ccid"}, {"wcid"}} => (MCSpec => []CommandWhole)
<1> SUFFICES ASSUME Itfs \in {{"ccid"}, {"wcid"}} PROVE MCSpec => []CommandWhole
  OBVIOUS
<1>1. ApduInv => CommandWhole
  <2> SUFFICES ASSUME NEW i \in {"ccid", "wcid"}, Itfs = {i}, ApduInv PROVE CommandWhole
    OBVIOUS
  <2>1. ASSUME resp.pending PROVE resp.gr + resp.rlen + 1 \in B!Cells(resp.itf)
    <3>1. PICK g \in 0 .. host[i].len : Left(i, g)
      BY <2>1 DEF ApduInv, Responding
    <3>2. host[i].len \in 0 .. MaxResponse
      BY DEF ApduInv, ApduTypes, Hosts
    <3>3. CcidHeader + g + (host[i].len - g) + 1 \in 0 .. CcidHeader + MaxResponse + 1
      BY <3>2, ApduNumbers
    <3> QED BY <3>1, <3>3 DEF Left, B!Cells, B!Base
  <2>2. B!TypeOK
    BY <2>1 DEF ApduInv, ApduTypes, B!TypeOK, HeaderNames, B!NoHeader
  <2> QED BY <2>2 DEF ApduInv, CommandWhole
<1>2. MCInit => ApduInv
  BY ApduInit DEF MCInit
<1>3. ApduInv /\ [MCNext]_allVars => ApduInv'
  BY ApduNext DEF MCNext, allVars, apduVars
<1> QED BY <1>1, <1>2, <1>3, PTL DEF MCSpec

\* The first bytes of a response are a prefix of it.
LEMMA PayloadPrefix ==
    ASSUME NEW r, NEW n \in Nat, NEW g \in Nat, g <= n
    PROVE  Len(B!Payload(r, g)) = g /\ B!IsPrefix(B!Payload(r, g), B!Payload(r, n))
<1> DEFINE E == {<<r, k>> : k \in 1 .. n}
           p == B!Payload(r, g)
           q == B!Payload(r, n)
<1>1. p \in [1 .. g -> E] /\ q \in [1 .. n -> E] /\ \A k \in 1 .. g : p[k] = q[k]
  BY DEF B!Payload
<1> HIDE DEF E, p, q
<1>2. p \in Seq(E) /\ Len(p) = g /\ q \in Seq(E) /\ Len(q) = n
  BY <1>1, Listed
<1>3. /\ SubSeq(p, 1, g) \in Seq(E) /\ Len(SubSeq(p, 1, g)) = g /\ \A k \in 1 .. g : SubSeq(p, 1, g)[k] = p[k]
      /\ SubSeq(q, 1, g) \in Seq(E) /\ Len(SubSeq(q, 1, g)) = g /\ \A k \in 1 .. g : SubSeq(q, 1, g)[k] = q[k]
  BY <1>2, SubSeqProperties
<1>4. SubSeq(p, 1, g) = SubSeq(q, 1, g)
  BY <1>1, <1>3, SeqEqual
<1> QED BY <1>2, <1>4 DEF B!IsPrefix, p, q

\* With one host on a CCID interface, any responses, lengths Le and buffer sizes, the parts a host
\* receives add up to the response of the applet, and 61xx tells how many bytes are left (apdu_next).
THEOREM ResponsesIntact == Itfs \in {{"ccid"}, {"wcid"}} => (MCSpec => []ResponseIntact)
<1> SUFFICES ASSUME Itfs \in {{"ccid"}, {"wcid"}} PROVE MCSpec => []ResponseIntact
  OBVIOUS
<1>1. ApduInv => ResponseIntact
  <2> SUFFICES ASSUME NEW i \in {"ccid", "wcid"}, Itfs = {i}, ApduInv PROVE ResponseIntact
    OBVIOUS
  <2> DEFINE h == host[i]
  <2>1. h \in Hosts /\ Responding(i)
    BY DEF ApduInv, ApduTypes
  <2>2. PICK g \in 0 .. h.len :
          /\ h.got = B!Payload(h.name, g)
          /\ \/ h.status = <<>> /\ g = h.len
             \/ h.status \in {B!StatusBytes("ok"), B!StatusBytes("error")} /\ g = h.len
             \/ Left(i, g)
    BY <2>1 DEF Responding
  <2>3. h.len \in Nat /\ g \in Nat /\ g <= h.len
    BY <2>1, ApduNumbers DEF Hosts
  <2>4. Left(i, g) => B!MorePending(h) /\ h.status = <<B!More, B!Remaining(h.len - g)>>
    BY DEF Left, B!MorePending
  <2>5. B!MorePending(h) => Left(i, g)
    <3>1. \A sw \in {"ok", "error"} : B!StatusBytes(sw)[1] # B!More
      BY DEF B!StatusBytes, B!More
    <3> QED BY <2>2, <3>1 DEF B!MorePending
  <2>6. Len(h.got) = g /\ B!IsPrefix(h.got, B!Payload(h.name, h.len))
    BY <2>2, <2>3, PayloadPrefix
  <2>7. B!ResponseIntact
    BY <2>2, <2>4, <2>6 DEF B!ResponseIntact
  <2>8. B!RemainingIsTold
    <3> SUFFICES ASSUME B!MorePending(h)
                 PROVE  h.status[2][2] = (IF h.len - Len(h.got) < StatusRange THEN h.len - Len(h.got) ELSE 0)
      BY DEF B!RemainingIsTold
    <3>1. h.status[2] = B!Remaining(h.len - g)
      BY <2>4, <2>5
    <3> QED BY <2>3, <2>6, <3>1, ApduNumbers DEF B!Remaining
  <2> QED BY <2>7, <2>8 DEF ResponseIntact
<1>2. MCInit => ApduInv
  BY ApduInit DEF MCInit
<1>3. ApduInv /\ [MCNext]_allVars => ApduInv'
  BY ApduNext DEF MCNext, allVars, apduVars
<1> QED BY <1>1, <1>2, <1>3, PTL DEF MCSpec
==============================================================================
