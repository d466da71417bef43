# Pico All: a TLA+ verification project

Pico All is the firmware of a USB security key on the RP2350: FIDO2/U2F, OATH,
OTP, OpenPGP, PIV and a smart-card HSM, on top of an SDK that provides flash
storage, the USB transports, the button and the two-core scheduling. This
project models the parts of it whose correctness depends on the order of
events: power loss, two cores that share buffers and queues, several USB
clients, retries and timeouts.

Paths below are relative to the repository root (`src/` in `PROJECT.json`);
`sdk/` stands for `pico-keys-sdk/src/`.

## 1. Inventory

| Component | State | Operations | Hard because |
|---|---|---|---|
| Transactional object store, `sdk/fs/object_store_txn.c` | two record files and two commit files, a handle table | open, get_info, read_at, close, put, delete, recover | power loss between any two file operations; syncs that time out; handles that outlive their version; counters that wrap |
| Flash cache and redo journal, `sdk/fs/low_flash.c` | six cached sectors, the write-out request, journal position and flags | program, commit, commit_sync (core 1); task (core 0); recover (boot) | two cores; torn sector writes; failed lockouts; a journal that moves when the data grows |
| File records, `sdk/fs/flash.c`, `sdk/fs/file.c` | a doubly linked list of records in flash, an index in RAM, the meta file | write (in place or by replacement), delete, scan, meta_add, meta_delete | a write-out may happen between any two fields; power loss |
| Object containers, `sdk/fs/object_container*.c` and the layouts of six users | two manifests, records, a marker, an id allocator | update, remove, delete, read, retire, roll back | several files change together; keys and nonces come from ids and generations |
| USB card layer, `sdk/usb/usb.c`, `sdk/main.c` | which interface and worker hold core 1, two queues of 64 events, a timeout | card_start, card_exit, usb_send_event, card_status, reboot | core 0 blocks on core 1 and core 1 on core 0 |
| User presence, `sdk/button.c` | the asynchronous wait, cancel flag | start, poll, cancel | answers that arrive late or for somebody else |
| CTAPHID, `sdk/usb/hid/hid.c` | reassembly buffer, last request, lock, cancel and busy flags | frames of many channels, keep-alives, responses | several clients; CANCEL and INIT at any time |
| CCID, `sdk/usb/ccid/ccid.c` | receive and transmit buffers, slot status | power on/off, XFR_BLOCK, parameters | shares the APDU with HID |
| APDU layer, `sdk/apdu.c` | current APDU, chain buffer, pending response | process, chaining, GET RESPONSE, select | state that crosses commands |
| FIDO PIN and tokens, `src/fido/cbor_client_pin.c` | PIN file, wrapped device key, two tokens | setPIN, changePIN, getToken, reset | a retry must be durable before the comparison; key and PIN are two files |
| FIDO credentials, `src/fido/credential.c`, `cbor_*.c` | resident credentials in two formats, index of relying parties, signature counter, lists that a command leaves to the next | makeCredential, getAssertion, getNextAssertion, credential management, config, U2F | lists and walks outlive the state they were made from; a delete is several writes |
| FIDO services, `src/fido/audit.c`, `cbor_large_blobs.c` | ring and epoch of the audit journal, the transfer of an array | events, switch, checkpoint, scrub; fragments | signed heads must stay true; two clients share a transfer |
| OATH and OTP, `src/fido/oath.c`, `otp.c` | credentials with counters, access code, PIN; two or four slots in a bank | their instruction sets, the button | a counter must be durable before its code is given |
| OpenPGP, `src/openpgp` | three references, each with verifier, wrapped data encryption key and counter; keys, touch flags | verify, change, unblock, KDF, terminate; keys, signatures | verifier and wrapped key are two files, bridged by a staged transaction |
| PIV, `src/openpgp/piv.c`, `src/piv` | references, management key, slots with policy and origin | authenticate, import, move, reset | key and policy are two writes |
| HSM, `src/hsm` | two PINs, two copies of the master key, shares, domains, public keys, keys with counters | initialise, verify, change, unblock, domains, challenge; generate, use, wrap, unwrap | access comes from PIN, quorum or both; counters must follow a key |
| Rescue, vault, phy, LED, OTP root key, RNG (`sdk/`) | configuration and keys | their commands | mostly sequential |

How they interact: an applet on core 1 writes files (`file.c`), which become
records (`flash.c`) in cached sectors (`low_flash.c`) that core 0 writes out.
USB frames arrive on core 0, are turned into a request in a shared buffer and
handed to the worker on core 1 through `usb_to_card_q`; answers, requests for
the touch and the reboot request come back through `card_to_usb_q`. Core 0
drains flash and polls the button in the same loop, so whatever blocks core 0
stops all three.

What makes each component correct, and the lines where it could go wrong, are
in `PROJECT.json` under `hazards`.

## 2. Modules

### AtomicObject, ObjectTxn, MCObjectTxn, ObjectTxnProofs

`AtomicObject` says what the store promises: one versioned object, updated or
removed as a whole, durable once acknowledged, which after a power loss is the
last durable version. `ObjectTxn` is `object_store_txn.c`: `Put` and `Delete`
are split at every call that touches a file (`RemoveCommit`, `RemoveRecord`,
`WriteRecord`, `CommitSync`, `SyncDone`, `WriteCommit`, `Return`), each of which
may fail; `Drain` is core 0, `Crash` a power loss at any point; `Open`, `Close`,
`Resolves` and `ReadAt` are the handle table. `ParseCommit`, `ValidSlots`,
`Newest`, `RecoverStatus`, `Version` are `recover`. MAC tags are modelled by the
content they authenticate; the record id equals the generation, as in the code.

### FlashJournal, MCFlashJournal, FlashProofs

`low_flash.c`: core 1 changes sectors in the cache under the mutex (`Write`,
the `Grow...` steps of a record that opens a new sector) and requests or awaits
write-outs; core 0 runs `low_flash_task` one flash operation at a time (`Check`,
`EraseJournal`, `EraseRedo`, `ProgramRedo`, `WriteEntry`, `MarkPending`,
`EraseTarget`, `ProgramTarget`, `AllWritten`, `MarkDone`) and leaves it wherever
a lockout fails; `PowerLoss` may hit inside an erase-program pair and inside
recovery (`CutShort`). `Recovered` is `low_flash_recover_journal`, including its choice of
the journal sector and its forced mode. Three constants select the environment:
`LockoutFails`, `QuietGrowth`, `PersistentWrites`. MCFlashJournal runs two
environments side by side: a quiet one and one with every fault enabled.

### FlashRecords, MCFlashRecords, FlashProofs

`flash.c` and the record part of `file.c` on a pool of a few units: allocation
in the first gap, publication, clearing, the final sync of a large record,
in-place writes and writes at an offset, delete, and the scan of a reboot. Every field
written is one step, a field that lies across two sectors too; `Drain` (all cached changes
become durable at once, which is what FlashJournal establishes for its assumptions) may fall
between any two. Each step may fail, as `flash_program_block` gives up when the six cached sectors are
dirty and core 0 does not write them out in time (`GivesUp`): `LengthFails` to `PublishFails`
are what `flash_write_data_to_file_internal` does then, which takes the new record back;
`ClearStepFails`, `ZeroFails` and `WipeFails` are the failures in `flash_clear_file`, of which
it reports only one. A write at an offset that grows the file takes the steps of a replacing
one; the part of the old payload that it copies is not told apart.
`FirstLife` holds up to the first power loss and the first failure that the code passes
over (`broken`): a timeout of the last sync of a large record, a header that cannot be written
over a stale length, and in `flash_clear_file` the unlinking of a published record, the zeroing
of a payload and the mending of a back link.
`MCFlashRecords` instantiates it as `R`, adds the symmetry of the files and joins the
four properties of `RecordsSafe`. `flash_available` is the name of one flag in
`low_flash.c` that both modules model; there it is called `write_requested`, so that one module
can prove about both.

### UsbCard

The two cores with the two queues: `Start`, `Launch`, `AwaitAck` are
`card_start`, `card_exit` and the loop of `usb_send_event`; `CardStatus` the
poll; `ButtonWaitStart`, `ButtonPoll` the button; `Fetch`, `Ask`, `Answer`,
`Finish` the worker threads; `XfrBlock`, `HidRequest`, `HidCancel` the hosts.
`Traffic` says which messages the hosts of an instance send, `UpButton` whether
the device's configuration gives the button a window. A host may give up a
request whose interface is not served any more (`GiveUp`), which is external.

### Apdu, MCTransport, TransportProofs

The buffers of `apdu.c` that live longer than one command: the chain buffer
(`Segment`, `Refused`, `Command` are the branches of `process_apdu`) and the
response that is sent in parts. The transmit buffer is modelled cell by cell,
because the code cuts a response in place: `Cut` saves the two cells after a
part and writes 61xx over them, `Restored` puts them back. `Framed`, `Fresh` and
`ContStart` are what the CCID and HID drivers put around a part. `host` is what
the other side of the cable has sent and received; the properties compare it
with what the applet was given and has answered. `MCTransport` runs UsbCard
twice, with the traffic of CTAP2 clients and with every kind of request, and
Apdu beside it.

### ClientPin, MCClientPin, ClientPinProofs

The PIN file and the device key it wraps. A handler of `cbor_client_pin.c` is
split at each file it writes: `Try` takes the retry, `Synced` and `SyncTimeout`
are the two results of `persist_pin_retry_counter`, `Mismatch` to `NotCompared`
the ways a comparison ends, `Token...` and `Change...` what follows the right
PIN. `Encrypted`, `EncryptF1`, `Loads` and `Loaded` are `check_keydev_encrypted`,
`encrypt_keydev_f1` and `load_keydev`. `Drain` (core 0 writes all cached changes
out) and `PowerLoss` may fall between any two steps. `PinData.wrong` is history:
the wrong PINs a file was compared with, kept beside the retries it still offers.
Every file write succeeds; the secret a vendor command may have decrypted
(`has_keydev_dec`) is left out.

### PinUvAuthToken

What an accepted PIN gives: the two tokens, whose values are files and whose
permissions are in memory, the commands that consume them, `setMinPINLength`, and
the reset. Of the values only one is told apart: any one token of a behaviour is
marked when it is made, and the properties say when the platform that was given
it may still use it.

### FidoCredentials, MCFidoCredentials, FidoCredentialsProofs

Resident credentials as older files and as containers, handles that only the
host keeps, and what commands leave for the next one: the list of
getNextAssertion (`ram.next`, forgotten by `Parsed` whenever another command is
parsed), the walks over relying parties and credentials. A command computes the
writes it makes (`StoreWrites`, `DeleteWrites`, `Bump`, ...), which are carried
out one at a time; any may fail, core 0 may write out and the power may fail
between two. A walk over credentials that finds nothing ahead frees the hash it goes by
(`NextCred`). The clock advances by `SetClock` only, as the device has none.

### FidoServices, Oath, Otp, MCFidoApps, FidoAppsProofs

`FidoServices` has the audit journal, a hash chain modelled by the list it
hashes, and the transfer of the large-blob array. `Oath` has every instruction
of `oath.c` that changes state; a list sent in pieces keeps its position in
`ram.chain`. `Otp` has the slots as older files and in the bank, and the usage and
session counters of a Yubico slot; when `init_otp` gives up because a write failed, the press that
called it goes on. `MCFidoApps` runs the three and PinUvAuthToken.

### OpenPgpPin, OpenPgpKeys, Piv, ObjectContainer, MCCards, CardsProofs

`OpenPgpPin`: verifiers, wrapped data encryption key, staged transactions, retry
counters and the KDF object; `Scan` is what selection repairs. The resetting code is taken
out in the code's order: the transaction (`RcTxn`, a synced operation of its own), the verifier
(`RcPin`), the copy and the tries (`RcWrap`). A write may fail in each command that replaces a
reference, in the clearing of the resetting code, in the migration of an old verifier, while
a KDF update is undone (there it is not counted against `MaxMishaps`, as it follows another)
and in TERMINATE; the file then keeps what it held, but for the case in which
FlashRecords loses it (`NothingLost`), and a transaction may have been staged or deleted all the same.
Not followed: failed writes of the defaults in the scan, of the retry counters and the
recovery in `check_pin`, and of the KDF file itself. `Unprotected` names the windows in which a
power loss or a failed write may cost a reference its copy, and which `KeysOpen` exempts:
- the migration of an old verifier (openpgp.c:1441-1512), TERMINATE, and the undoing of a KDF
  update, which deletes the transactions first and stops at the first file it cannot put back;
- a transaction that an earlier fault left and that is still needed, when the next command
  stages over it (openpgp.c:911) until the new verifier is there;
- such a transaction of the resetting code, deleted (openpgp.c:265) before the verifier is
  (openpgp.c:270): PUT DATA whose write of the copy fails, then the clearing of the code.

`OpenPgpKeys`:
which access, touch and counter each use of a key takes; its writes are atomic,
because what it asks does not depend on cuts. `Piv`: references, management key,
slots, policies in EF_META and RESET; where a handler does not look at the result of a write
it goes on after the failure (`PassedOver`). `ObjectContainer`: the manifests and
records below the applets; `Layout` has one record per user with what its
callbacks do (allocator, marker, rollback, retirement), read off the six
implementations. Sealing is modelled by the pair of key and nonce it uses.

### HsmSession, HsmKeys, MCHsm, HsmProofs

`HsmSession`: PIN and SO-PIN, the copies of the master key they open, key shares
and domains, public key authentication and its challenge, INITIALIZE and the secure
lock. When the key of a complete domain cannot be stored the last share is taken back, as
the command does (`TakenBack`). `HsmKeys`: keys in files and in containers with counter and
purposes, their use, wrapping and unwrapping, HD keys. DERIVE stores the key plus an offset
under a reference of the host's choice, with no metadata of its own: those that are there stay, and
where there are none the key serves everything, as often as one likes. With the offset zero it is an
uncounted copy. The model takes it for a key of its own (`hist.origin` says from which it comes),
made without counter and purposes. The kinds of keys (RSA, EC, AES), which restrict which
command takes which key, are left out.

### How the applet modules are built

All have `cache` (files as the firmware sees them), `flash` (as a power loss
would leave them), `ram` (session), `op` (the command that is running and the
writes it still has to make) and `hist` (bounds and what the properties need of
the past). `Drain` copies cache to flash, which is what the journal guarantees
in the quiet environment of MCFlashJournal; `PowerLoss` goes the other way.

A composite module (MCTransport, MCFidoApps, MCCards, MCHsm) asks for several
components that share no state: a behaviour is one of the first or one of the
second and so on, so the state spaces add up and do not multiply. Its properties
name the part they speak of.

The `VIEW` of these modules leaves out `flash` once no mishap (power loss, failed
write) is left to follow: nothing reads it from there on, neither an action nor a
property, so states that differ in it only have the same future.

## 3. Runs and what they show

Runs that pass:

| Run | Shows |
|---|---|
| MCObjectTxnJournaled | the store implements AtomicObject when the files reach flash in one piece, with failing steps, sync timeouts, power loss, wrapping handle counter |
| MCFlashJournal | when lockouts succeed, data grows over a clean cache and the persistent region is not written: all-or-nothing recovery of a batch and write-ahead (`JournalKept`), durability of synced data (`SyncIsDurable`), and a requested write-out completes (`WriteOutCompletes`); with every fault enabled, a journal slot programmed twice is never garbled (`JournalKept`) |
| MCFlashRecords | up to the first power loss or failure that the code passes over, and as that power loss leaves the flash, with a step that fails or a sync that times out anywhere, also with records larger than a sector: the scan accepts every record, other files are never harmed, files change atomically by replacement, links mirror each other and no two records overlap (`RecordsSafe`) |
| MCTransport | no response crosses interfaces, a touch only reaches the request that asked for it, a confirmed reboot is never lost; with CTAP2 clients every request is answered, HID does not stay busy and core 0 always returns (`Served`); over CCID a host gets each byte of a response once and is told how much is left, an applet is given exactly the segments of its command |
| MCClientPin | whatever write-outs and power losses come in between, a PIN file sees at most as many wrong PINs as it has retries, credentials never lose their device key, a session taken for unlocked can load the key, and the PIN unlocks the key unless the power fails in the middle of a change |
| MCFidoCredentials | one credential per user and relying party; no assertion against the protection level or by a credential that was removed; no signature counter given twice; walks that end are complete |
| MCFidoApps | no one-time password twice (`NoCodeTwice`); OTP PIN guesses bounded; OATH credentials gone before their code, lists whole (`Guarded`); OTP slots kept by a swap; revoked tokens dead; signed journal heads stay true, gaps are marked, the large-blob file is one array (`ServicesKept`) |
| MCHsm | some reference still opens the master key; a domain key is the XOR of the accepted shares; access is earned; counters and purposes follow a key (a key that DERIVE stored is another one, without rules) |
| MCCards | accepted OpenPGP references open the keys outside the windows of `Unprotected`, sessions follow changes, one signature per PIN; keys keep their policy; PIV can be administered or reset; containers change as a whole in six layouts, and HSM records never share key and nonce |

Runs that end in a counterexample; `PROJECT.json` describes each under
`findings`, with the lines and the sentence of the repository they contradict:

| Run | The disagreement |
|---|---|
| FlashJournalLockout | a batch retried after a failed lockout writes sectors its journal does not name |
| UsbCardInit | INIT, or a CCID command, during a U2F touch wait blocks both cores |
| HsmCombined | with combined authentication a wrong PIN leaves the access that needs the PIN |

### Counterexamples kept to run by hand

These configurations, too, end in a counterexample when TLC is run on them
(`tlc -config X.cfg M`, M being the module their name starts with, MCClientPin for
ClientPinCut). Where the table names a module, the constants not given are those of
the `.cfg` of its MC module (MCFlashRecords, MCTransport, MCCards); FlashRecords is run with its own
`Spec` and without the constraint `Followed`. They mark the borders of what the passing runs claim: each switches
on one behaviour that a passing run excludes.

| Configuration | What it shows |
|---|---|
| FlashJournalGrowth | `RecoversABatch`: an old DONE journal sector hides the PENDING one from recovery once the data has grown (low_flash.c looks for the journal from the end of the data) |
| FlashJournalFull | `DrainCompletes`: data that grows into the journal's place stops all write-outs |
| FlashJournalPersistent | `RecoversABatch`: a batch with a sector of the persistent region is not journaled |
| FlashRecords | `DeleteIsFinal`: after a cut rewrite (flash.c:256 before flash.c:263) two records of the file are in the list; a delete removes one, and the older content is back after the next reboot |
| FlashRecords with two contents | `FilesAtomic`: a rewrite in place is not atomic |
| FlashRecords | `ClearedUnlinked`: after a cut rewrite, a delete can leave a cleared record in the list |
| FlashRecords | `NothingLost`: `flash_clear_file` unlinks a record (file.c:771), then fails to zero it (file.c:776). A delete then reports an error and its file stays bound to a record that is in no list; a rewrite clears its new record as well (flash.c:264), and the file is lost |
| FlashRecords with `UnitsPerSector = 1` | `IndexFresh`: that failure, or a timeout of the last sync of a large record, leaves a file bound to a record that a scan would not find for it |
| FlashRecords with `Units = 6`, five files, `Lens = {1, 3}` | `NeverOverlap(ram)`: a power loss between the back link of a new record and its publication leaves a link to a record that is not in the list; a delete then follows it and cuts the list short, the units of the lost records are given out again, and a later delete links one of them back in, over the new record (TLC finds this from the state that the power loss leaves) |
| UsbCardPreempt | `HidBusyEnds`: a CCID command that replaces a CBOR worker leaves HID busy for ever |
| UsbCardTouch | `TouchIsPhysical`: the touch OpenPGP and PIV ask for has a window of zero, which button.c:118 takes for "no button" |
| UsbCardCancel | `CancelKept`: a CANCEL before the button wait starts is cleared by it (button.c:131) |
| UsbCardChannels | `ReplyToItsChannel`: a U2F answer goes to the channel of the last frame (hid.c:631) |
| MCTransport with `Itfs = {"ccid", "wcid"}` | `CommandWhole`: two interfaces share one chain buffer |
| MCTransport with `Itfs = {"hid"}` | `ResponseIntact`: over HID the parts of a response after the first start one header too early: apdu.c:188 passes an offset into the data, hid.c:690 takes it for one into the frame |
| ClientPinCut | `VerifiedPinUnlocks`: changePIN wraps the key with the new PIN (cbor_client_pin.c:745) before it stores the new PIN (line 759); a power loss when only the first is in flash leaves an old PIN that is accepted and unlocks nothing |
| PinUvAuthTokenCut | `RevokedForGood`: a power loss when the new PIN is in flash and the new persistent token is not (cbor_client_pin.c:759 and 772): the old one works again once a persistent token is asked for |
| Piv with `Slot18 = s2` | `KeysUsable`: the metadata of the key in retired slot 18 is kept under 0x93 (cmd_import_asym.c:123), MOVE KEY looks for it under the file's number |
| Piv with `Slot18 = s2`, `MaxCommands = 3` | `PolicyOfKey`: a key moved to slot 18 is used under the policy of the key that was there |
| Piv | `PolicyOfKeyTorn`: a power loss between a key and its metadata leaves it the policy of the key before |
| Piv with `MaxCommands = 3` | `ManageableAfterReset`: a RESET in which a deletion fails keeps both accesses (cmd_reset.c:96-98); SET RETRIES in that session takes the blocks back when the management key is gone |
| MCCards with `MoveMgm = TRUE` | `Manageable`: MOVE KEY accepts the management key as its source and deletes it (cmd_move_key.c:26) |

One more configuration passes and is kept for what it says about the assumptions:
`MCObjectTxnUnjournaled` (files reach flash one by one in any order: the two syncs
order the writes, as long as none times out).

The modules also state, beside the properties that hold, what holds only with an
exemption. These stronger forms are violated by what the code does:

| Property | Because |
|---|---|
| ObjectContainer `WholeInPlace` | where a record has one place per slot and object, a partial update writes over a record that the current manifest refers to (object_container_store.c:297-360) |
| ObjectContainer `NonceOnceEverywhere` | a slot-addressed container that is deleted and made again starts over with its generations (object_crypto_provider.c:171-205) |
| FidoServices `CheckpointsHoldExactly` | a silent assertion is counted in an entry that a checkpoint has signed (audit.c:101-113) |
| Oath `NamesUnique`, `PinGates` | RENAME does not look for the new name; VALIDATE without a code opens the applet without the OTP PIN |
| Otp `NoOtpTwiceEver` | `otp_status` marks the slots as scanned before `init_otp` has advanced their counters (otp.c:626-629) |
| FidoCredentials `NotAfterReset` | INS_RESET of the management applet erases the credentials and keeps the list that getNextAssertion signs from |
| HsmKeys `NamedKeyUsed`, `PurposeKeptTorn` | a derived HD key left over is used in place of the key named (cmd_cipher_sym.c:177); a key is stored before its metadata |
| HsmKeys `PurposeKeptDerived` | DERIVE stores the key plus an offset of the host's choice without metadata (cmd_derive_asym.c:93) |

### Bounds

ObjectTxn: two payloads, three generations (the maximum is reached and refused),
two handles and four tokens (the counter wraps past open handles).
FlashJournal: two or three cache pages, two journal slots (the sector fills up
and wraps), five to seven sectors, three changes with faults and four without: enough for two
batches, one of them cut and one after recovery. FlashRecords: two files, three
units, two to a sector, lengths one and two, one power loss, one step that fails: a file is rewritten in place,
moved, another one is placed in its gap, and a record may cross a sector.
UsbCard: two or three channels and the real queue size, which is never reached
because a client has one request outstanding.
Apdu: a chain buffer of three units, responses of up to four bytes, lengths
zero, one and three, a status byte with three values (so that more is left than
it can tell), headers of one byte: the cut of a response falls before, inside
and after its status.
ClientPin: two PINs, two device keys (a reset makes a new one), three retries and
a lock after two misses, so that a PIN is locked before it is blocked.
PinUvAuthToken: two PIN lengths, two relying parties, the permissions to make
credentials and to configure.
FidoCredentials: three slots, two relying parties and two users (a user is found
behind a free slot, and slots run out), three credentials ever made, two
signatures, two commands of administration besides.
FidoServices: a ring of two entries and four events, so that it drops entries and
a reset scrubs it; arrays of two fragments from two clients. Oath: two slots, three
credentials, two PINs, two tries, four commands. Otp: two slots, a session counter
that wraps at two, a usage counter up to five.
OpenPgpPin: the default and one other PIN, one derived by the KDF, one try, two data
encryption keys, two commands between the first selection and the end; new cards, and
cards of an old firmware without a resetting code (`OldCodes`): `check_pin` gives an old
resetting code a new verifier and no new copy of the data encryption key, so that the first
use of it leaves a code that is accepted and opens nothing. OpenPgpKeys: two
keys, two algorithms, two signatures. Piv: two slots, two challenges, two commands.
ObjectContainer: two objects, three operations, two mishaps.
HsmSession and HsmKeys: two PINs, two shares, two public keys and a quorum of two,
two keys, one slot in a container and one in a file, three uses.

`MaxMishaps` is the number of power losses and failed writes in a behaviour. One
is enough for most applets, because the properties speak of one interrupted command
and what follows it; two for ObjectContainer, where the second one hits the repair.
`MaxCommands` bounds the commands after the one that set up the case. Where a module
has several kinds of host (`hist.host`), each kind sends the commands of one
question only; what one kind does is not followed by another.

Runs over the applets do not check deadlock: their counters run out. The journal,
the records, the object store and ClientPin do.

### Fairness

`FlashJournal!FairSpec`, which MCFlashJournal repeats for the quiet environment:
weak fairness of core 0's task, which `core0_loop`
calls for ever and which core 1 cannot keep out of the mutex for longer than a
memory copy. `UsbCard!FairSpec`, which MCTransport repeats: weak fairness of the
polls of core 0 and of the worker; none for hosts and users (a button wait ends by
its own timeout).

## 4. Proofs

`ObjectTxnProofs` proves, for every set of values, every maximum generation,
every number of handles and tokens that satisfies the assumptions of
`ObjectTxn`: type correctness, `Unambiguous`, `AckedSurvivesPowerLoss`,
`HandleReadsItsVersion`, `OpenTokensDistinct` (open handles have distinct tokens,
also when the counter wraps; proved only), `GenerationsAdvance` and that
`Spec` implements `AtomicObject!ASpec`.

None of these is inductive. The invariant `IInv` adds what the code relies on
without saying so: where an operation stands (`op.pc`) determines what the
target slot holds in the cache; the other slot of the cache is untouched and
holds the current version; generations in the two slots differ and the target
slot, if valid, is the older one; flash is either the cache as of the last
drain or still holds the version that was acknowledged; handles in the table
were opened on a generation not above the current one, and a generation
determines its payload. `Init => IInv` and the preservation by each action give
`Invariance`; the other theorems follow from it, the refinement by showing that
each action changes the version of the cache or of flash the way one action of
`AtomicObject` does, or not at all.

Assumptions: `SectorsPartition`, `DrainAssumption` (the journal writes the files
in one piece, or no sync times out), `ConstantTypes`, `AbsentIsNoContent`.

`ClientPinProofs` proves, for any sets of PINs and keys and any number of retries
and misses: type correctness, `GuessesBounded`, `KeyOutlivesCredentials` and
`PinOpensKey`. Its invariant `IInv` has three parts beside the types. `Control` says
what a handler may rely on where it stands: a PIN file from the moment the retry is
taken, a device key until a reset has cleared it, a session that wraps. `Counting` is
the strengthening that `GuessesBounded` needs: while the write-out of the retry is
awaited the cache offers strictly less than the bound, and when the PIN is
compared the flash is the cache, so that counting the wrong PIN keeps the bound in
both. `Keyed` says that cache and flash each have the key of their credentials
and that a reset past its first step has no credentials left. `KeyInv` adds what
`PinOpensKey` needs: which session the key in each image is wrapped with, where the
handler that is changing it stands. Assumptions: `ConstantTypes` and `NoneIsNew`.

`FlashProofs` proves, for any number of sectors, pages, journal slots and
changes, the two safety properties of `MCFlashJournal`, each behaviour of which keeps to
one environment. `EntryInv` is inductive in every environment. It says that no slot of a
journal sector holds a garbled target and, because a slot may be programmed a second
time after a failed lockout, that of the sector in use the slots behind the current one
are free and the current one holds at most what the next attempt writes: the page that
was dirty then is still dirty, at the same place. `QuietInv` is inductive where lockouts
succeed, growth waits for a clean cache and the persistent region is left alone:
- `Control`: core 0 writes out on request only, and core 1 goes on when it is done.
- `Cached`, `Stored`: the record list as core 1 sees it ends at `last_base`, or one above
  while the data grows; the list in flash does too, or, while targets are written
  (`Critical`), needs the journal. A journal lies in one of the two sectors below the
  data; an entry left there PENDING by a growth that was cut is harmless (`Harmless`):
  it names only the sector that was to be added.
- `Journaled`, `Redone`: what the journal and the redo copies hold at each step of the
  task; from `MarkPending` on each target of the entry has a copy of what the cache holds
  for it, also for the pages that are written already.
- `Seen`: what recovery would find is one of `batches`, and none is older than `synced`.

`RecoveredData` then evaluates `low_flash_recover_journal` at any of these states, also
after a recovery that was itself cut short, and `JournalIsKept` and `SyncsAreDurable`
follow. Both have the three constants of the quiet environment as hypotheses: with any of
them otherwise the properties do not hold (section 3, `FlashJournalLockout`,
`FlashJournalGrowth`, `FlashJournalPersistent`). The invariants were checked by TLC first,
`QuietInv` in both the size of the run and one with five sectors, one slot and five
changes. Assumption: `ConstantTypes` (room for the journal and one batch beside the data).

It also proves `RecordsSafe` of FlashRecords, for any files, number of units, lengths of records and
sector size. `RecordsInv` says that the records of the cache are a list that fits the index and
the operation in progress, and that flash is `Recoverable`: a scan accepts all of it, finds what
`saved` says, and no two records overlap. The list is given by the set of its units (`ListOf`): each
record leads to the greatest one of the set below it (`Below`), is whole, and ends at or below
the next one above it; `BackTo` says the same of the back link, which names the next one above
(`Above`). `Fit` relates the set to the operation in progress, with one predicate for each stage:
between operations (`Resting`), a write in place (`Overwriting`), a new record that is being filled
in a gap and not in the list yet (`Placing`), an old one that is about to be unlinked (`Unlinking`),
one that is not in the list and is being cleared while a neighbour's back link may still
name it (`Clearing`), the last sync (`Ending`), and a step that failed, which is `Clearing` once
more: the new record was never in the list. While the old and the new record of a
file are both in the list a scan may find either, and both are contents that `saved` admits. A
write-out makes flash the cache, so each stage has to imply `Recoverable`. `Corrupted`, `Found` and
`Indexed` walk the list by recursion; that the walk visits the set and nothing else is shown
without induction over data, by a least counterexample in the set. The proof covers all payloads for the files that are not being written, for the links
and for the overlap (`OthersUnharmed`); `RecordsAreSafe`, which adds `FilesAtomic`, has the
hypothesis of the run that there is one payload, because a write in place of another
payload is torn by a power loss between the length and the bytes (section 3). The theorems cover
the failure of every program step but those that end `FirstLife` (section 2).
That is no simplification: after a power loss inside an allocation the
overlap is possible, and after a failure inside `flash_clear_file` a file may be lost
(section 3). Assumption: `RecordConstants`.

`FidoAppsProofs` proves, for any lengths, relying parties and permissions,
`RevokedTokensDead` of the PIN tokens. `TokenInv` says where the marked token can
still be found (the file, its flash image, the one in use) in each step of a command
that replaces it, and that a token that was revoked is in none of them unless the
command was cut.

It also proves `ServicesKept` of FidoServices, for any number of ring slots, fragments,
commands and mishaps. `ServiceInv` has four parts. `ServiceTypes` lists what a command may
still have to write. `Chained`: the chain on flash is a prefix of the chain in the cache and holds
what was waited for, and so is each signed head, unless entries were lost that nobody
waited for (`Grows` compares entry by entry, which needs no induction over the chain).
`Said`: a journal that is off ends with the entry that says so, in both images, and one
that is about to be switched off has that entry already (`GoesOff`), unless a write of the
journal failed. `Stored`: the large-blob file is empty or one array, in both images. Assumption:
`ServicesConstants` (there is a ring slot, and an array has a fragment).

And for any slots, names and number of tries, PINs, credentials and mishaps
`OtpGuessesBounded`, and the OATH half of `NoCodeTwice` (`OathCodesFresh`). `OathInv` has
three parts beside the types. `Guesses`: in both images the wrong values since the last right
one and the tries that are left add up to no more than all tries, and while a PIN is
compared one more try has been spent, in the flash too; without the second half a
power loss during the comparison would give the try back. `Counts`: the counter of a
credential is past every code given for it, in the flash past those that were settled,
and no two slots hold one credential (`Single`), without which storing the next counter
would leave a copy with the old one. `Todo` says of each write of a handler that was
cut off where it stands that carrying it out keeps this: a try that is spent, a PIN nobody
has guessed at, a new credential, one with its counter unchanged or moved on. It is
inductive only with the limits on which writes can share a list. Assumption:
`OathConstants` (finitely many slots, numbered from 0; `None` is no slot, PIN or credential).

`TransportProofs` has two invariants. `CardInv` is about the two cores, for any
channels, any traffic and queues of two events or more: it says which events each queue
can hold in which state of the handshake (an exit is acknowledged once, nothing of the
old worker is left when the next one starts, at most one request for the touch is
outstanding and the button or an answer stands for it). `NoCrossTalk`,
`PresenceBelongsToWaiter` and the action property `ResetSurvives` follow from it for
every kind of traffic; `PresenceWaitAlive` needs `SessionInv`, which restricts the
traffic to CTAP2 clients as the property does. `ApduInv` is about `Apdu`, for any
size of chain buffer, responses and parts of any length: cell by cell, what the
transmit buffer holds below, at and above the point where a response was cut, and that
the two saved cells are the ones the next part restores. `CommandsWhole` and
`ResponsesIntact` have the hypothesis that one CCID or WCID interface is used, because
with two, or over HID, the properties do not hold (section 3). Assumptions:
`ConstantTypes` of Apdu, `SessionAssumption` (the hosts of the session part are CTAP2
clients) and `QueueSizeAssumption` (the queues hold two events; in the code they hold 64).

`FidoCredentialsProofs` proves, for any relying parties, users, protection levels and
numbers of slots, commands and mishaps, `OneCredPerUser`, `SignCountFresh` and
`AssertionsAllowed`. `CredInv` has three parts. `Stored`: each slot, in both images of
the files, is empty or holds a known credential with the protection level it was made
with; no signature is ahead of the counter of its image (`Behind`); two slots are never
live for one user, where live also counts a credential past its expiration date, since
setting the clock brings it back. `Running`: what the handler has still to write
(`Pending`) keeps to that at each point where it may be cut: at most one slot is stored, and a
reset changes the device key before it sets the counter back; were it the other way
round, a power loss between the two would repeat counters. `Asserting`: the copies left
for getNextAssertion may still be shown, and nothing that is being written takes one of
them away without forgetting the copies. Assumption: `ConstantTypes` (slots are
numbered from 0, levels are 1 to 3).

`HsmProofs` proves, for any PINs, shares, public keys and quorum, `AccessIsEarned`, and
for any references, keys and any number of uses, commands and mishaps `KeyRulesKept`.
For the first, `AccessInv` adds to the types that the public keys that count as
authenticated are those that answered a challenge (`Answered`) and that public key
authentication is switched on in both images of the files for the hosts that use it, and
for no other (`QuorumSwitch`). For the second,
`KeyInv` says for each image of the files what each reference holds: no key, a key
made exempt by a mishap, a key whose metadata allow no more than it was made for and
whose counter and uses add up to no more than the counter it was made with and the
mishaps (`Fits`), or the key that the command in progress is at (`Kept`, `Left`). It is
inductive only together with: what a command still has to write, by kind of command
(`Storing`, `Erasing`, `Using`); that a key whose uses are bounded is in one
container and in no other reference (`Placed`), without which a counter could be
spent twice; and that keys are numbered as they are drawn (`Drawn`), so that a new
one is in no file and in no blob. A key that DERIVE stored was made for everything, so it
fits any metadata it finds; that its use is counted to the key it came from, and only
once, is a case of its own (`KeyDeriveKeeps`).

The other two theorems of the HSM are about its lists of writes, each of which may be
cut after any write or have one fail: `Sets`, `Ends` and `Spares` say which writes are
in the list, what it ends with and what it leaves alone.
- `SomeoneOpens` follows from `OpensInv`. In both images of the files some reference
  opens its copy (`BothSurvive`), in each step of CHANGE REFERENCE, RESET RETRY and
  INITIALIZE there is one copy that the rest of the list does not touch, or writes
  together with its PIN (`OneStays`), and a session was opened with the PIN that is in
  the file (`SessionsFit`). The hypotheses are at most one mishap, since two can each
  cost one reference its copy, and that SECURE LOCK is not used, since it masks both.
- `DkekIsTheShares` follows from `DomainInv`, for any number of mishaps and with SECURE
  LOCK or without. It says what the domain will be when the list in progress is written
  (`DomainEnds`): the shares that are in (`Given`) are those that its key was made of,
  and a complete one is wrapped or waits for a login (`DomainKept`). That needs, besides,
  that both references open the key throughout (`BothOpen`), that the sessions hold their
  PINs (`SessionsKept`), and that the flash holds a domain of this kind too, unless a
  command of the domain is not yet committed (`FlashKept`).

`SharelessInv` covers the other hosts, where no share is ever accepted.
Assumptions: `SessionConstants`, `KeyConstants`.

`CardsProofs` proves five properties of `MCCards`, for any keys and any number of
commands and mishaps. `OneSignaturePerPin` and the OpenPGP half of `PolicyOfKey` follow
from `KeysInv`: a command that waits for the button goes by the flag of its own key
(`Touched`), an access by PW1 has not been used up and a signature under way may be made
(`Signing`), the counter counts the signatures but for a key whose counter is being
reset (`Counting`). The PIV half of `PolicyOfKey` and `Manageable` follow from `PivInv`,
which says at every point of every list of writes what is still to be written and what
the files hold meanwhile, in the cache and in the flash:
- `Policy`: metadata fit their key everywhere but in the slot a command is at, and that
  command is deleting (`Clearing`) or has yet to write a pair that fits (`Filling`, by
  the tails of what GENERATE, IMPORT and MOVE write).
- `Using`: a key with the policy "always" is used after a verification that no other use
  has taken.
- `Managing`: the management key fits its metadata, or both references are blocked, or the
  data encryption key is gone, so that the next scan sets a new one. In between, the
  list is one that writes the management key with its metadata (`Mends`), one of RESET, which
  gives the tries back with its last write (`Resets`), or one that leaves both alone and
  gives no tries to a card without its management key (`Quiet`).

`KeysOpen` and `SessionsCurrent` follow from `PinInv`, which has three parts:
- `PinTypes`: besides the types, which handler can be at which point (`PinShaped`), which
  references are missing where the scan is (`Missing`) and which ones a KDF update has
  replaced (`Reseeded`).
- `FormInv`: as long as no power loss hit a KDF update and its undoing was not given up, the references in the flash and in the
  cache have the form the KDF object announces (`Agrees`), or the update that changes it
  is under way and can be undone from its snapshot (`Announced`, `Restoring`).
- `DekInv`: as long as no power loss or failed write hit one of the windows in `Unprotected`, the flash has
  no key yet (`Bare`) or is `Whole`: all that is wrapped is one data encryption key, and each
  verifier fits its copy, the old slot or the staged transaction (`Fitting`). In the cache, the
  scan is making the key (`Making`), TERMINATE is clearing the files (`Gone`), or the
  files stand (`Standing`): each reference fits but for the one that the handler is at
  (`Holding`), the new PIN is staged before it is put and put before it is wrapped
  (`Exchanging`), an access that is granted loads the key (`Granted`), and what a KDF
  update would put back is whole too (`Snapped`).

`KeysOpen` holds whatever writes failed outside those windows; `SessionsCurrent` supposes that none
did, since a command sets the session before it writes the files. `KeysOpen` alone is not inductive: the copy in the flash has to be as good as the one in the
cache, since a power loss exchanges them, and a transaction may be dropped only when the
verifier fits the copy without it.

`KeyPolicies` has the hypothesis that reference 93 is not among the slots,
`PivManageable` also that MOVE KEY is not sent for the management key, and
`PinsOpenKeys` and `SessionsLoadKeys` that cards of an old firmware have no resetting code:
without them the properties do not hold (section 3). Assumptions: `CardConstants` (`None` is
nothing else, and there is an algorithm) and `PinConstants` (the default is a PIN that is
typed, the initial value of the KDF object one that is derived, a key can be drawn, and
`None` is no PIN, key or copy). Looking for `PivInv` showed three gaps of
`Manageable` and `PolicyOfKey` that two commands do not reach; they are the exemptions
that the properties name.

Only model-checked: `AllFound` of the credentials (that a
walk is complete depends on the order in which the slots are listed, an induction over
that list), for the same reason `Guarded`, whose second half is that a list is whole, the OTP
half of `NoCodeTwice` and `SlotsKept`, the containers, and all liveness. Liveness under
fairness is beyond the proof system. The writes of `init_otp` are gathered by recursion over
the slots, again an induction; for the containers no inductive
invariant has been worked out yet.

## 5. Plan

Done: the store, journal, records, transports, ClientPIN, tokens, credentials, services, OATH,
OpenPGP, PIV and HSM with their proofs; OTP, containers.
Left, in this order:

1. Theorems: the OTP part of MCFidoApps, the containers.
2. ObjectTxn on FlashJournal instead of its assumption on `Drain`.
3. CTAPHID frames, CCID slots, the applet registry (the unload of an applet races the
   selection of the next, apdu.c:290).
4. The device lock of the FIDO vendor commands, XKEK creation of the HSM.

## 6. Not modelled

- Cryptography, which is modelled by what it guarantees: a MAC by the content, a
  wrapped key by the key that opens it, sealing by its key and nonce.
- Code that the device build leaves out: the ESP32 and RP2040 variants, host
  emulation with its OpenSSL shim, the LWIP transport, `ENABLE_ADMINLESS_MODE`.
- Vendored code and its configuration (`mbedtls_config.h`).
- Parsing and composing: TLV, CBOR, certificates, the composed data objects of
  `do.c`, attestation formats, certificate compression. A command that does not parse
  changes no state.
- Parts whose state is one record written as a whole (phy, rescue), output only (LED),
  written once (OTP fuses), or statistical (random numbers).
- The device lock (`cbor_config.c` and `cbor_vendor.c`), XKEK creation
  (`cmd_key_domain.c`), enrolment and backup of the vault: exchanges of one session
  above keys that are modelled.
- WRITE CONFIG of the management applet, whose two records (the configuration and phy)
  are written one after the other.
- The host script `firmware.py`.
