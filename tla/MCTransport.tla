----------------------------- MODULE MCTransport -----------------------------
(***************************************************************************)
(* The transport below the applets in one run: a behaviour is one of       *)
(* UsbCard, with the traffic of CTAP2 clients only ("session") or with     *)
(* every kind of request ("all"), or one of Apdu. The variables of the     *)
(* part that does not move keep their initial values, so the state spaces  *)
(* add up.                                                                 *)
(***************************************************************************)
EXTENDS UsbCard

CONSTANTS SessionTraffic, SessionCids,
          Itfs, Headers, Select, Segments, ChainSize, Payloads, MaxResponse, Lengths,
          StatusRange, CcidHeader, HidHeader, HidFrame, CcidMax

VARIABLES part, is_chaining, chain_header, chain_buf, tx, resp, host, executed

apduVars == <<is_chaining, chain_header, chain_buf, tx, resp, host, executed>>
allVars == <<part, vars, apduVars>>

S == INSTANCE UsbCard WITH Traffic <- SessionTraffic, Cids <- SessionCids
B == INSTANCE Apdu

\* CTAP2 clients send these, and usb_init makes the queues for more than one element.
ASSUME SessionAssumption ==
    SessionTraffic \subseteq CborKinds \cup {"init", "cancel"} /\ "ccid" \notin SessionCids
ASSUME QueueSizeAssumption == 2 <= QueueSize
ASSUME ApduConstants == B!ConstantTypes

MCSegments == {<<>>, <<"x">>}

MCInit == part \in {"session", "all", "apdu"} /\ Init /\ B!Init

MCNext ==
    \/ part = "session" /\ S!Next /\ UNCHANGED <<part, apduVars>>
    \/ part = "all" /\ Next /\ UNCHANGED <<part, apduVars>>
    \/ part = "apdu" /\ B!Next /\ UNCHANGED <<part, vars>>

\* The fairness of UsbCard!FairSpec
MCSpec ==
    /\ MCInit /\ [][MCNext]_allVars
    /\ WF_vars(part # "apdu" /\ AwaitAck /\ UNCHANGED <<part, apduVars>>)
    /\ WF_vars(part # "apdu" /\ CardStatus /\ UNCHANGED <<part, apduVars>>)
    /\ WF_vars(part # "apdu" /\ ButtonPoll /\ UNCHANGED <<part, apduVars>>)
    /\ WF_vars(part # "apdu" /\ Core1 /\ UNCHANGED <<part, apduVars>>)

-----------------------------------------------------------------------------
(* Properties *)

\* A touch is given to the request that asked for it only (wait_button_pressed_timeout), and with
\* CTAP2 clients only, a worker that waits for the touch is not forgotten (see UsbCard).
PresenceSound == PresenceBelongsToWaiter /\ (part = "session" => PresenceWaitAlive)

\* With CTAP2 clients that send requests, CANCEL and INIT in any order, every request that was
\* accepted is answered, core 0 comes back from stopping a worker, and HID does not stay busy
\* (card_status, usb_send_event, see UsbCard). With U2F requests core 0 may stop for good.
Served == part = "session" => S!RequestsAnswered /\ Core0Returns /\ HidBusyEnds

\* The parts a host has received add up to the response the applet gave, and 61xx tells how many
\* bytes are left (apdu_next, apdu_limit_response, see Apdu).
ResponseIntact == B!ResponseIntact /\ B!RemainingIsTold

\* The applet is given exactly the segments its host sent for this command, and the chain stays
\* inside chain_buf (apdu_process, see Apdu).
CommandWhole == B!CommandWhole /\ B!TypeOK
===============================================================================
