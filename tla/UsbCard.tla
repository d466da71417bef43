------------------------------ MODULE UsbCard ------------------------------
(***************************************************************************)
(* The two cores of the device and the two queues between them.  Core 0    *)
(* runs the USB drivers, the button and the flash drain; core 1 runs one    *)
(* worker (apdu_thread or cbor_thread) at a time, for one USB interface.   *)
(* A request for another interface or another worker makes core 0 stop the *)
(* current worker (card_exit) and wait for its acknowledgement; a worker   *)
(* that wants the user's touch asks core 0 for it and waits for the answer. *)
(* Modelled from usb.c, button.c, apdu.c, hid.c, ccid.c and fido/cbor.c.    *)
(*                                                                         *)
(* Abstracted: a request is its kind and its sender; multi-frame HID        *)
(* messages arrive whole; a request asks for presence at most once; LEDs,   *)
(* keep-alives and time extensions are left out.                            *)
(***************************************************************************)
EXTENDS Naturals, Sequences

CONSTANTS
    Cids,       \* CTAPHID channels, one client each
    Traffic,    \* what the hosts send in this instance: a subset of Messages
    UpButton,   \* whether phy_data.up_btn gives the button a window: the settings
                \* the device may have (the rescue applet changes it)
    QueueSize   \* elements of usb_to_card_q and of card_to_usb_q

(* What a host can send: APDUs over CCID ("plain", an OpenPGP key use that  *)
(* needs a touch, the rescue applet's reboot to BOOTSEL), U2F and CBOR      *)
(* requests over HID (with a touch or without), and CTAPHID INIT, CANCEL.   *)
CcidKinds == {"plain", "pgp", "boot"}
MsgKinds == {"version", "u2f"}
CborKinds == {"info", "cbor"}
Messages == CcidKinds \cup MsgKinds \cup CborKinds \cup {"init", "cancel"}

ASSUME TrafficAssumption == Traffic \subseteq Messages
ASSUME UpButtonAssumption == UpButton \subseteq BOOLEAN /\ UpButton # {}
ASSUME QueueAssumption == QueueSize \in Nat \ {0}
ASSUME CidsAssumption == "ccid" \notin Cids

VARIABLES
    core0,      \* "loop", "ack" (inside usb_send_event(EV_EXIT)), "rebooted"
    resume,     \* the message whose handler is inside that card_exit
    locked,     \* card_locked_itf and card_locked_func
    busy,       \* timeout > 0
    toCard,     \* usb_to_card_q
    toUsb,      \* card_to_usb_q
    buffer,     \* the requests in apdu and in cbor_request, shared by both cores
    worker,     \* core 1: "off", "idle", "exec", "wait" (for a touch), "done"
    job,        \* the request the worker read from the buffer
    cborActive, \* hid_cbor_active
    cancelled,  \* hid_cancel_pending
    cancelButton, \* cancel_button
    armed,      \* async_button_wait
    replyTo,    \* ctap_req->cid, the channel a HID answer is addressed to
    owed        \* senders whose request was accepted and has no answer yet

hidVars == <<cborActive, cancelled, cancelButton, replyTo>>
vars == <<core0, resume, locked, busy, toCard, toUsb, buffer, worker, job,
          cborActive, cancelled, cancelButton, armed, replyTo, owed>>

Senders == Cids \cup {"ccid"}
None == [kind |-> "none", from |-> "ccid"]
Jobs == {None} \cup [kind : Messages, from : Senders]
EmptyBuffer == [f \in {"apdu_thread", "cbor_thread"} |-> None]
NoLock == [itf |-> "none", func |-> "none"]

Itf(kind) == IF kind \in CcidKinds THEN "ccid" ELSE "hid"
Func(kind) == IF kind \in CborKinds THEN "cbor_thread" ELSE "apdu_thread"
LockFor(kind) == [itf |-> Itf(kind), func |-> Func(kind)]

(* Requests that need the user's touch.                                    *)
Asks(kind) == kind \in {"pgp", "boot", "u2f", "cbor"}

(* usb_to_card_q carries CMD_AVAILABLE, EXIT and the button's answers.  An *)
(* element of card_to_usb_q carries the job it belongs to.                 *)
Answers == {"pressed", "timeout", "cancelled"}
CardEvents == {"cmd", "exit"} \cup Answers
UsbEvents == {"press", "reset", "finished", "exit_ack", "ack"}
Event(e, j) == [ev |-> e, job |-> j]

TypeOK ==
    /\ core0 \in {"loop", "ack", "rebooted"}
    /\ resume \in Jobs
    /\ locked \in {NoLock} \cup {LockFor(k) : k \in Messages}
    /\ worker \in {"off", "idle", "exec", "wait", "done"}
    /\ {busy, cborActive, cancelled, cancelButton, armed} \subseteq BOOLEAN
    /\ toCard \in Seq(CardEvents) /\ Len(toCard) <= QueueSize
    /\ Len(toUsb) <= QueueSize
    /\ \A i \in DOMAIN toUsb : toUsb[i].ev \in UsbEvents /\ toUsb[i].job \in Jobs
    /\ buffer \in [{"apdu_thread", "cbor_thread"} -> Jobs]
    /\ job \in Jobs
    /\ replyTo \in Senders
    /\ owed \subseteq Senders
    /\ (locked = NoLock) => (worker = "off")

Init ==
    /\ core0 = "loop" /\ resume = None
    /\ locked = NoLock /\ busy = FALSE
    /\ toCard = <<>> /\ toUsb = <<>>
    /\ buffer = EmptyBuffer /\ job = None /\ worker = "off"
    /\ cborActive = FALSE /\ cancelled = FALSE
    /\ cancelButton = FALSE /\ armed = FALSE
    /\ replyTo = "ccid" /\ owed = {}

-----------------------------------------------------------------------------
(* Core 0: requests                                                        *)

(* queue_try_add: a full queue loses the element.                          *)
TryAdd(q, e) == IF Len(q) < QueueSize THEN Append(q, e) ELSE q

(* Mutant: timeout_start is forgotten, so card_status never looks.          *)
Launch_NoTimeout(m, oldLock, queue) ==
    IF m.kind = "init"
    THEN /\ locked' = NoLock
         /\ toCard' = queue
         /\ UNCHANGED <<worker, busy, cborActive, owed>>
    ELSE /\ locked' = LockFor(m.kind)
         /\ toCard' = Append(queue, "cmd")
         /\ worker' = IF oldLock = LockFor(m.kind) THEN worker ELSE "idle"
         /\ cborActive' = (cborActive \/ m.kind \in CborKinds)
         /\ owed' = owed \cup {m.from}
         /\ UNCHANGED busy

(* What the handler of message m does once card_start or card_exit has     *)
(* returned: INIT answers at once; a request launches its worker if the    *)
(* lock changed, raises hid_cbor_active for a CBOR request and enqueues    *)
(* CMD_AVAILABLE.  oldLock and queue are what card_exit left behind.       *)
Launch(m, oldLock, queue) ==
    IF m.kind = "init"
    THEN /\ locked' = NoLock
         /\ toCard' = queue
         /\ UNCHANGED <<worker, busy, cborActive, owed>>
    ELSE /\ locked' = LockFor(m.kind)
         /\ toCard' = Append(queue, "cmd")
         /\ worker' = IF oldLock = LockFor(m.kind) THEN worker ELSE "idle"
         /\ busy' = TRUE
         /\ cborActive' = (cborActive \/ m.kind \in CborKinds)
         /\ owed' = owed \cup {m.from}

(* card_start, and INIT's card_exit: a worker of another interface or      *)
(* function is sent EXIT, and core 0 stays in usb_send_event until the     *)
(* acknowledgement arrives.                                                *)
NeedsExit(m) == locked # NoLock /\ (m.kind = "init" \/ locked # LockFor(m.kind))

(* Mutant: the worker is replaced without waiting for it to stop.           *)
Start_NoAck(m) ==
    /\ Len(toCard) < QueueSize
    /\ m.kind = "init" => ~NeedsExit(m)
    /\ Launch(m, IF NeedsExit(m) THEN NoLock ELSE locked, toCard)
    /\ UNCHANGED <<core0, resume>>

Start(m) ==
    \/ /\ NeedsExit(m)
       /\ Len(toCard) < QueueSize
       /\ core0' = "ack"
       /\ resume' = m
       /\ toCard' = Append(toCard, "exit")
       /\ busy' = (busy \/ m.kind # "init")
       /\ UNCHANGED <<locked, worker, cborActive, owed>>
    \/ /\ ~NeedsExit(m)
       /\ Len(toCard) < QueueSize
       /\ Launch(m, locked, toCard)
       /\ UNCHANGED <<core0, resume>>

(* CCID XFR_BLOCK: apdu_process fills the shared apdu before card_start.   *)
(* A CCID host has one command outstanding.                                *)
XfrBlock(kind) ==
    /\ core0 = "loop"
    /\ "ccid" \notin owed
    /\ LET m == [kind |-> kind, from |-> "ccid"] IN
       /\ buffer' = [buffer EXCEPT !["apdu_thread"] = m]
       /\ Start(m)
    /\ UNCHANGED <<toUsb, job, cancelled, cancelButton, armed, replyTo>>

(* A complete CTAPHID request: MSG (apdu_thread), CBOR (cbor_thread) or     *)
(* INIT.  driver_init_hid points apdu.header at every such frame, and       *)
(* cbor_process copies a CBOR request, before the old worker is stopped.    *)
(* While hid_cbor_active, such a frame is answered CHANNEL_BUSY and changes *)
(* nothing here.                                                            *)
HidRequest(kind, cid) ==
    /\ core0 = "loop"
    /\ ~cborActive
    /\ kind # "init" => cid \notin owed
    /\ replyTo' = cid
    /\ cancelButton' = (cancelButton /\ kind \notin CborKinds)
    /\ LET m == [kind |-> kind, from |-> cid] IN
       /\ buffer' = [f \in DOMAIN buffer |->
                       IF f = "apdu_thread" \/ kind \in CborKinds THEN m ELSE buffer[f]]
       /\ Start(m)
    /\ UNCHANGED <<toUsb, job, cancelled, armed>>

(* CTAPHID CANCEL: only the channel of the active CBOR request is heard.    *)
(* The frame lands in the receive buffer ctap_req points to, unless the     *)
(* active request moved ctap_req to last_req.                               *)
HidCancel(cid) ==
    /\ core0 = "loop"
    /\ IF cborActive
       THEN /\ replyTo' = replyTo
            /\ cancelled' = (cancelled \/ cid = replyTo)
            /\ cancelButton' = (cancelButton \/ cid = replyTo)
       ELSE /\ replyTo' = cid
            /\ UNCHANGED <<cancelled, cancelButton>>
    /\ UNCHANGED <<core0, resume, locked, busy, toCard, toUsb, buffer, worker,
                   job, cborActive, armed, owed>>

(* A host whose interface is no longer served gets neither keep-alives nor *)
(* time extensions, and may give its request up.                           *)
GiveUp(s) ==
    /\ core0 = "loop"
    /\ s \in owed
    /\ locked.itf # (IF s = "ccid" THEN "ccid" ELSE "hid")
    /\ owed' = owed \ {s}
    /\ UNCHANGED <<core0, resume, locked, busy, toCard, toUsb, buffer, worker,
                   job, hidVars, armed>>

-----------------------------------------------------------------------------
(* Core 0: the ack loop of usb_send_event and the drain of card_exit       *)

(* usb_secure_reboot_now never returns and takes core 1 with it.           *)
SecureReboot ==
    /\ core0' = "rebooted"
    /\ worker' = "off"
    /\ UNCHANGED <<resume, locked, busy, toCard, toUsb, buffer, job, hidVars,
                   armed, owed>>

(* Mutant: the first event of any kind is taken for the acknowledgement.    *)
AwaitAck_AnyEvent ==
    /\ core0 = "ack"
    /\ toUsb # <<>>
    /\ toUsb' = <<>>
    /\ Launch(resume, NoLock, <<>>)
    /\ core0' = "loop"
    /\ resume' = None
    /\ UNCHANGED <<buffer, job, cancelled, cancelButton, armed, replyTo>>

(* Mutant: the loop ignores every event but the acknowledgement.            *)
AwaitAck_DropsReset ==
    /\ core0 = "ack"
    /\ toUsb # <<>>
    /\ IF Head(toUsb).ev = "exit_ack"
       THEN /\ toUsb' = <<>>
            /\ Launch(resume, NoLock, <<>>)
            /\ core0' = "loop"
            /\ resume' = None
            /\ UNCHANGED <<buffer, job, cancelled, cancelButton, armed, replyTo>>
       ELSE /\ toUsb' = Tail(toUsb)
            /\ UNCHANGED <<core0, resume, locked, busy, toCard, buffer, worker,
                           job, hidVars, armed, owed>>

(* One event consumed while waiting for the acknowledgement: a reset       *)
(* reboots, the acknowledgement ends the wait, anything else is lost.      *)
AwaitAck ==
    /\ core0 = "ack"
    /\ toUsb # <<>>
    /\ LET m == Head(toUsb).ev IN
       \/ m = "reset" /\ SecureReboot
       \/ /\ m = "exit_ack"
          /\ toUsb' = <<>>
          /\ Launch(resume, NoLock, <<>>)
          /\ core0' = "loop"
          /\ resume' = None
          /\ UNCHANGED <<buffer, job, cancelled, cancelButton, armed, replyTo>>
       \/ /\ m \notin {"reset", "exit_ack"}
          /\ toUsb' = Tail(toUsb)
          /\ UNCHANGED <<core0, resume, locked, busy, toCard, buffer, worker,
                         job, hidVars, armed, owed>>

-----------------------------------------------------------------------------
(* Core 0: card_status, polled by hid_task and ccid_task                   *)

(* Mutant: the cancelled branch returns before hid_cbor_active is cleared.  *)
FinishHid_CancelReturns ==
    /\ cancelled' = FALSE
    /\ cancelButton' = (cancelButton /\ ~cancelled)
    /\ cborActive' = (cborActive /\ cancelled)
    /\ owed' = owed \ {replyTo}

(* driver_exec_finished_hid: a pending CANCEL replaces the response; the   *)
(* answer goes to the channel ctap_req points to.                          *)
FinishHid ==
    /\ cancelled' = FALSE
    /\ cancelButton' = (cancelButton /\ ~cancelled)
    /\ cborActive' = FALSE
    /\ owed' = owed \ {replyTo}

FinishCcid ==
    /\ owed' = owed \ {"ccid"}
    /\ UNCHANGED <<cancelled, cancelButton, cborActive>>

(* The window in the upper byte of EV_PRESS_BUTTON is not zero: the rescue  *)
(* applet falls back to the default, FIDO sends the configured one, and     *)
(* wait_button_pressed_fid (like piv_button_wait) sends none.               *)
HasWindow(kind, up_btn) == kind = "boot" \/ (kind # "pgp" /\ up_btn)

(* button_wait_start_timeout: without a window the touch is granted at      *)
(* once (force_button_wait is never set in this build); otherwise the wait  *)
(* starts afresh, an earlier cancel included.                               *)
ButtonWaitStart(kind) ==
    \E up_btn \in UpButton :
       IF HasWindow(kind, up_btn)
       THEN /\ cancelButton' = FALSE
            /\ armed' = TRUE
            /\ UNCHANGED toCard
       ELSE /\ toCard' = TryAdd(toCard, "pressed")
            /\ UNCHANGED <<cancelButton, armed>>

(* One event taken by the poll of the locked interface.                    *)
CardStatus ==
    /\ core0 = "loop"
    /\ locked # NoLock
    /\ busy
    /\ toUsb # <<>>
    /\ LET m == Head(toUsb).ev IN
       \/ m = "reset" /\ SecureReboot
       \/ /\ m = "finished"
          /\ busy' = FALSE
          /\ toUsb' = Tail(toUsb)
          /\ IF locked.itf = "hid" THEN FinishHid ELSE FinishCcid
          /\ UNCHANGED <<core0, resume, locked, toCard, buffer, worker, job,
                         armed, replyTo>>
       \/ /\ m = "press"
          /\ toUsb' = Tail(toUsb)
          /\ ButtonWaitStart(Head(toUsb).job.kind)
          /\ UNCHANGED <<core0, resume, locked, busy, buffer, worker, job,
                         cborActive, cancelled, replyTo, owed>>
       \/ /\ m \notin {"reset", "finished", "press"}
          /\ toUsb' = Tail(toUsb)
          /\ UNCHANGED <<core0, resume, locked, busy, toCard, buffer, worker,
                         job, hidVars, armed, owed>>

(* button_wait_poll_state, once it has a result: a cancel wins, else the   *)
(* user pressed and released, or the window closed.                        *)
ButtonResult(r) == IF cancelButton THEN r = "cancelled"
                                   ELSE r \in {"pressed", "timeout"}

ButtonPoll ==
    /\ core0 = "loop"
    /\ armed
    /\ armed' = FALSE
    /\ \E r \in Answers : ButtonResult(r) /\ toCard' = TryAdd(toCard, r)
    /\ UNCHANGED <<core0, resume, locked, busy, toUsb, buffer, worker, job,
                   hidVars, owed>>

-----------------------------------------------------------------------------
(* Core 1: apdu_thread and cbor_thread                                     *)

WorkerOnly == UNCHANGED <<core0, resume, locked, busy, buffer, hidVars, armed, owed>>

(* Mutant: a thread ends without acknowledging EXIT.                        *)
Acks_NotExit(m) == m # "exit"

(* Whether the thread acknowledges an event: apdu_thread not its commands. *)
Acks(m) == m # "cmd" \/ locked.func = "cbor_thread"

(* The acknowledgement m + 1; core 0 only tells EXIT's from the others.    *)
Ack(m) == IF m = "exit" THEN "exit_ack" ELSE "ack"

(* queue_remove_blocking: EXIT ends the thread, anything else is a command. *)
Fetch ==
    /\ worker = "idle"
    /\ toCard # <<>>
    /\ Len(toUsb) < QueueSize
    /\ LET m == Head(toCard) IN
       /\ toCard' = Tail(toCard)
       /\ toUsb' = IF Acks(m) THEN Append(toUsb, Event(Ack(m), None)) ELSE toUsb
       /\ IF m = "exit"
          THEN worker' = "off" /\ job' = None
          ELSE worker' = "exec" /\ job' = buffer[locked.func]
    /\ WorkerOnly

(* wait_button_pressed_timeout, wait_button_pressed_fid and the rescue     *)
(* applet's presence event: ask core 0, then wait.                         *)
Ask ==
    /\ worker = "exec"
    /\ Asks(job.kind)
    /\ toUsb' = TryAdd(toUsb, Event("press", job))
    /\ worker' = "wait"
    /\ UNCHANGED <<toCard, job>>
    /\ WorkerOnly

(* Mutant: no waiting loop knows CANCELLED.                                 *)
Accepts_NoCancel(kind, m) == m \in {"pressed", "timeout"}

(* The events that end the wait; OpenPGP's loop does not know CANCELLED.   *)
Accepts(kind, m) == m \in Answers /\ (m = "cancelled" => kind # "pgp")

(* The worker takes an event: one that does not end its wait is dropped;   *)
(* a confirmed reboot request enqueues EV_RESET.                           *)
Answer ==
    /\ worker = "wait"
    /\ toCard # <<>>
    /\ Len(toUsb) < QueueSize
    /\ LET m == Head(toCard) IN
       /\ toCard' = Tail(toCard)
       /\ worker' = IF Accepts(job.kind, m) THEN "done" ELSE "wait"
       /\ toUsb' = IF job.kind = "boot" /\ m = "pressed"
                   THEN Append(toUsb, Event("reset", job)) ELSE toUsb
    /\ UNCHANGED job
    /\ WorkerOnly

Finish ==
    /\ worker = "done" \/ (worker = "exec" /\ ~Asks(job.kind))
    /\ Len(toUsb) < QueueSize
    /\ toUsb' = Append(toUsb, Event("finished", job))
    /\ worker' = "idle"
    /\ UNCHANGED <<toCard, job>>
    /\ WorkerOnly

(* After the reboot to BOOTSEL the device is started again.                *)
Restart ==
    /\ core0 = "rebooted"
    /\ core0' = "loop" /\ resume' = None
    /\ locked' = NoLock /\ busy' = FALSE
    /\ toCard' = <<>> /\ toUsb' = <<>>
    /\ buffer' = EmptyBuffer /\ job' = None /\ worker' = "off"
    /\ cborActive' = FALSE /\ cancelled' = FALSE
    /\ cancelButton' = FALSE /\ armed' = FALSE
    /\ replyTo' = "ccid" /\ owed' = {}

Host ==
    \/ \E k \in CcidKinds \cap Traffic : XfrBlock(k)
    \/ \E k \in (MsgKinds \cup CborKinds \cup {"init"}) \cap Traffic, c \in Cids :
           HidRequest(k, c)
    \/ \E c \in Cids : "cancel" \in Traffic /\ HidCancel(c)
    \/ \E s \in Senders : GiveUp(s)

Core0 == AwaitAck \/ CardStatus \/ ButtonPoll
Core1 == Fetch \/ Ask \/ Answer \/ Finish

Next == Host \/ Core0 \/ Core1 \/ Restart

Spec == Init /\ [][Next]_vars

(* Core 0's loop polls the queues and the button for ever, and the         *)
(* worker runs whenever it is not blocked on a queue.                      *)
FairSpec ==
    /\ Spec
    /\ WF_vars(AwaitAck) /\ WF_vars(CardStatus) /\ WF_vars(ButtonPoll)
    /\ WF_vars(Core1)

-----------------------------------------------------------------------------
(* Properties                                                              *)

(* A touch is only ever given to the request that asked for it: while the  *)
(* button is being waited for, or its answer is on the way, the worker is  *)
(* waiting, so no later request can find a stale confirmation in           *)
(* usb_to_card_q (wait_button_pressed_timeout takes the first one).         *)
PresenceBelongsToWaiter ==
    core0 # "rebooted" /\ (armed \/ \E i \in DOMAIN toCard : toCard[i] \in Answers)
        => worker = "wait"

(* A worker that waits for the touch is not forgotten: while core 0 is in   *)
(* its loop, the request is still in card_to_usb_q and card_status will     *)
(* look at it, or the button wait is armed, or an answer the worker         *)
(* accepts is in usb_to_card_q.                                             *)
PresenceWaitAlive ==
    worker = "wait" /\ core0 = "loop" =>
        \/ busy /\ \E i \in DOMAIN toUsb : toUsb[i].ev = "press"
        \/ armed
        \/ \E i \in DOMAIN toCard : Accepts(job.kind, toCard[i])

(* A response never crosses interfaces: what card_status finds finished was *)
(* a request of the interface it polls, because card_exit waits for the     *)
(* old worker and empties the queues before the lock moves.                 *)
NoCrossTalk ==
    core0 = "loop" =>
        \A i \in DOMAIN toUsb :
            toUsb[i].ev = "finished" => Itf(toUsb[i].job.kind) = locked.itf

(* A confirmed reboot is never lost: an EV_RESET leaves card_to_usb_q only  *)
(* by the reboot, whether card_status, the ack loop or the drain takes it.  *)
ResetSurvives ==
    [][(\E i \in DOMAIN toUsb : toUsb[i].ev = "reset") /\ core0 # "rebooted"
       => \/ \E i \in DOMAIN toUsb' : toUsb'[i].ev = "reset"
          \/ core0' = "rebooted"]_vars

(* Core 0 always comes back from stopping a worker.                         *)
Core0Returns == core0 = "ack" ~> core0 # "ack"

(* Every request the device accepted is answered.                           *)
RequestsAnswered == \A s \in Senders : s \in owed ~> s \notin owed

(* hid_cbor_active does not stay up for ever: HID is not left answering     *)
(* CHANNEL_BUSY.                                                            *)
HidBusyEnds == cborActive ~> ~cborActive

(* INIT does not stop a worker that is waiting on core 0 for the touch.     *)
InitSparesPresenceWait ==
    [][core0 = "loop" /\ core0' = "ack" /\ resume'.kind = "init"
       => worker # "wait"]_vars

(* A confirmation is the user's: EV_BUTTON_PRESSED is only ever enqueued by *)
(* a button wait, when the device has its button enabled.                   *)
TouchIsPhysical ==
    [][Len(toCard') > Len(toCard) /\ toCard'[Len(toCard')] = "pressed" => armed]_vars

(* A CANCEL that was heard is in force while the button is waited for.      *)
CancelKept == cancelled /\ armed => cancelButton

(* A finished HID request is answered on the channel that sent it.          *)
ReplyToItsChannel ==
    core0 = "loop" /\ locked.itf = "hid" =>
        \A i \in DOMAIN toUsb :
            toUsb[i].ev = "finished" => toUsb[i].job.from = replyTo

(* The worker runs requests of the interface it was started for only.       *)
WorkerServesItsInterface ==
    worker \in {"exec", "wait", "done"} => Itf(job.kind) = locked.itf
=============================================================================
