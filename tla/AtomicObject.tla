---------------------------- MODULE AtomicObject ----------------------------
(***************************************************************************)
(* What the transactional object store (object_store_txn.c) promises its   *)
(* callers, without slots, records, commits or handles: one object whose   *)
(* versions are numbered, a version the running firmware sees, a version a *)
(* power loss would leave behind, and the last version a caller was told   *)
(* is safe.                                                                *)
(***************************************************************************)
EXTENDS Naturals

CONSTANTS
    Values,         \* payloads
    NoValue,        \* the payload of an object that is absent or deleted
    MaxGeneration   \* UINT32_MAX in the code

VARIABLES
    visible,        \* the version every reader sees now
    durable,        \* the version a reboot would find
    acked           \* the newest version reported as stored

avars == <<visible, durable, acked>>

Version == [generation : 0 .. MaxGeneration, value : Values \cup {NoValue}]

NeverWritten == [generation |-> 0, value |-> NoValue]

AInit ==
    /\ visible = NeverWritten
    /\ durable = NeverWritten
    /\ acked = NeverWritten

\* A write or a deletion takes effect in one step and takes the next number.
Update(v) ==
    /\ visible.generation < MaxGeneration
    /\ visible' = [generation |-> visible.generation + 1, value |-> v]
    /\ UNCHANGED <<durable, acked>>

Remove ==
    /\ visible.value # NoValue
    /\ Update(NoValue)

\* What was visible becomes durable as a whole.
Persist ==
    /\ durable' = visible
    /\ UNCHANGED <<visible, acked>>

\* Success is reported only for a version that has reached flash.
Acknowledge ==
    /\ visible = durable
    /\ acked' = visible
    /\ UNCHANGED <<visible, durable>>

\* A power loss falls back to the durable version, which is then the past.
LosePower ==
    /\ visible' = durable
    /\ acked' = durable
    /\ UNCHANGED durable

ANext ==
    \/ \E v \in Values : Update(v)
    \/ Remove
    \/ Persist
    \/ Acknowledge
    \/ LosePower

ASpec == AInit /\ [][ANext]_avars

=============================================================================
