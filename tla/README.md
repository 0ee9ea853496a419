# A TLA+ verification of libsignal-service-rs

This directory holds TLA+ models of `libsignal-service-rs`: sends and decryptions
that interleave on one peer's Double Ratchet sessions, session repair driven by
the server's answers, what a send tells the account's other devices, the
dispatching websocket with its keepalive, the pipe that acknowledges envelopes,
the judgement of envelopes, a device's life from registration or linking through
pre-key refreshes, and the records and groups that devices and members share. TLC
checks the models on small instances. TLAPS proves all but two of their safety
properties for every size.

Paths below are relative to the repository (`src/sender.rs` is
`src/src/sender.rs` in `PROJECT.json`).

## The system: inventory

| Component | State it keeps | Operations | What makes it correct |
|---|---|---|---|
| Session locks (`session_lock.rs`) | a map from peer to a tokio mutex, shared by all clones | `lock` | one task at a time between load and store of a peer's records; a waiter that goes away does not block the queue |
| Message sender (`sender.rs`) | none of its own; the protocol store's sessions; per call: attempt, devices, messages, sealed or not | `try_send_content`, `create_encrypted_messages`, `create_encrypted_message`, `send_message`, `send_message_to_group`, uploads | no message key used twice; sessions repaired as the server asks, in the attempts there are; accepted at most once per call; in order per peer; nothing encrypted for oneself |
| Service cipher (`cipher.rs`) | the protocol store | `encrypt`, `decrypt`, `open_envelope` | the same, for decryptions |
| PNI initialization (`account_manager.rs`) | the same store | `pnp_initialize_devices` | the same |
| Websocket (`websocket/mod.rs`) | worker: table of pending requests, set of keepalives, pending responses, connection; facade: channel, request stream, disconnect reason | `request`, `take_request_stream`, `run`, `process_frame` | a response goes to its caller; no caller waits for ever; a dead connection is noticed |
| Message pipe (`messagepipe.rs`) | the request stream, a channel of capacity 1, the disconnect reason | `stream`, `run`, `process_request` | what is acknowledged is yielded; order; one `Disconnected`, last |
| Sending to people and groups (`sender.rs`) | per call: who was reached, whether others need to be told | `send_message`, `send_message_to_group`, `send_sync_message`, `send_contact_details`, `upload_attachment` | a transcript lists who was reached; the result is true; pointers lead to what was uploaded |
| CDN and receiver (`push_service/cdn.rs`, `receiver.rs`) | an upload's location and offset | resumable uploads, `get_attachment`, `retrieve_contacts` | the digest is that of the stored object; a contact list arrives as it was sent |
| Envelopes (`cipher.rs`, `envelope.rs`) | the protocol store's sessions, sender keys, identities | `decrypt`, `open_envelope` | what is returned was for us to read; a failure can be reported to its sender |
| Pre-keys (`pre_keys.rs`, `account_manager.rs`, `websocket/keys.rs`) | the store's keys and next ids, the server's bundle | `check_pre_keys`, `update_pre_key_bundle`, `replenish_pre_keys` | what the server serves, the store has; a refresh settles |
| Provisioning and registration (`provisioning/`, `websocket/registration.rs`) | the steps of a linking, a verification session | `ProvisioningPipe`, `link_device`, the session's calls, `submit_registration_request` | the application is told the truth; a failure links no device |
| Transfer archive (`push_service/linking.rs`, `cdn.rs`) | a deadline, a partial download | `get_transfer_archive`, `download_transfer_archive` | ends by its deadline; resumed downloads fit together |
| Storage service (`storage_service.rs`) | the account's manifest and items, each device's version | `manifest`, `manifest_if_changed`, `read_items`, `write_items` | no lost update between devices; manifest and items agree |
| Groups v2 (`groups_v2/`, `push_service/mod.rs`) | credential cache, a group's revisions | `get_authorization_for_today`, `create_group`, `fetch_encrypted_group`, `patch_group`, building and decoding changes | a credential that holds; a view is a revision; conflicts are told apart |
| Profiles, usernames, configuration, wire types | one request each, or none | | |

How they interact: a sender and a receiver own clones of one protocol store and
of one `SessionLocks`. A sender posts through the identified or unidentified
`SignalWebSocket`. Its worker is a task of its own, reached through a channel
and oneshot responders. The server's requests go from the worker through an
unbounded channel to the message pipe, whose responses go back through oneshots.
The pipe's runner is polled by the consumer of its stream only. The consumer
passes envelopes to the cipher, which takes the session lock of their sender.

What is hard: every `await` is a point where another task runs or where the
future is dropped; the peer's devices change during a call; answers are lost
with the connection; a connection can die without an error; the worker stops
with requests, responses and server requests in flight. `PROJECT.json` lists
these hazards line by line, with the property that would catch each.

## Modules

| Module | Contents |
|---|---|
| `AtomicSessions` | abstract specification: an encryption consumes the next key of a sending chain in one step; other session work keeps, deletes or replaces a chain |
| `MessageSender` | sends, decryptions, session locks, repair and retry, over one store; the server and its accounts as external parts |
| `MessageSenderProofs` | theorems about the sessions of `MessageSender`: types, refinement, message keys |
| `MessageDeliveryProofs` | theorems about its messages: once, in order, repaired within the attempts there are, none to oneself |
| `PnpInitialize` | `MessageSender` with tasks that run `pnp_initialize_devices` |
| `SignalWebSocket` | the facade, the worker, the network, the server |
| `MessagePipe` | `SignalWebSocket` with a pipe and its consumer |
| `MessagePipeProofs` | theorems about `SignalWebSocket` and `MessagePipe` |
| `Attachments` | uploads to CDN 2 and 3, downloads, the blob of contacts |
| `SendMessage` | `Attachments` with the public operations of the message sender, over an abstract `try_send_content` |
| `SendMessageProofs` | theorems about `SendMessage` |
| `Envelopes` | `decrypt` and `open_envelope` for both identities; senders and sessions external |
| `EnvelopesProofs` | theorems about `Envelopes` |
| `SharedRecords` | abstract specification: records to which edits are added one at a time |
| `StorageService` | devices that read, edit and write the encrypted storage; the server external |
| `StorageServiceProofs` | theorems about `StorageService` |
| `GroupOperations` | groups and changes, encrypted and decoded, as functions |
| `GroupsManager` | `GroupOperations` with clients, credentials, days and the group server |
| `GroupsManagerProofs` | theorems about `GroupsManager` |
| `PreKeys` | a device's pre-keys, their ids, upload and use |
| `Provisioning` | `PreKeys` with linking and registration |
| `TransferArchive` | polling for the archive and downloading it |
| `DeviceLife` | composes `Provisioning` and `TransferArchive` |
| `DeviceLifeProofs` | theorems about `DeviceLife` and the parts it is made of |
| `MC...` | the instances TLC checks |

Each module states its type invariant. Only `MessageSender`'s is part of a run,
because it is proved as well; the others describe the state.

Definitions marked "Mutant" are altered forms of the definition that follows
them, one for each property: with the altered form in its place TLC reports the
property violated. `PROJECT.json` pairs them.

### MessageSender and the code

A task runs one call of `try_send_content` (a member of `Senders`) or one
decryption (a member of `Receivers`). `pc` is the await it has reached.

| `pc` | Where in the code |
|---|---|
| `lock` | queued in `session_locks.lock(..).await` |
| `enumerate`, `device` | `create_encrypted_messages`: listing devices, its loop over them |
| `ensure`, `fetch`, `process` | `create_encrypted_message`: `load_session`, `get_pre_keys`, the loop over bundles |
| `load`, `store` | `ServiceCipher::encrypt`: the record is loaded, ratcheted, stored |
| `posted` | awaiting `send_messages` or `send_messages_unidentified` |
| `repair` | the loops over extra, missing and stale devices |
| `decrypt`, `write` | `message_decrypt_signal` or `message_decrypt_prekey`: load, then store |

`lock[p]` and `waiters[p]` are tokio's fair mutex of peer `p`. `sessions[p][d]`
is the store's record, abstracted to its sending chain, the index on it, the
remote registration id and whether `has_usable_sender_chain` holds. `srv[p][d]`
is the server's registration id of a device, 0 if there is none. `wire` holds
the senders whose last post the server has yet to handle: a dropped or cut-off
call leaves its message there, and the server may still accept it
(`LateArrival`). `order`, `delivered`, `used` and `chains` are histories.

The server is judged by how `websocket/sender.rs` maps its answers: 404 if the
account is gone, 409 if the devices addressed are not the account's (less the
sending one), 410 if they are and a registration id is out of date. 401 (to a
sealed message), 428 and other statuses can come at any time. The answer can be
lost at any time.

The own account has two ids, `Self` (its ACI) and `SelfPni`, and the code tells
them apart in one place and not in the other. `SenderDevice` is the exclusion of
this device in `create_encrypted_messages`, which compares both ids; `OwnBundle` is
the bundle `create_encrypted_message` passes over, which it does for the ACI only.
Sends to the own account are assumed not to be sealed: the server tells by the
authentication which device sends and so need not be addressed. That the devices of
the two ids are one set is not used: they change separately, which allows more than
can happen.

Left out of the data: message contents, timestamps, certificates and identity keys
(their absence is an error that may happen).

### SignalWebSocket and MessagePipe

One turn of the worker's `select!` is a step, and any branch that is ready may be
taken: a tick of the keepalive interval also while answers wait to be read.
`asked` is what was asked and whose answer the worker has not read; `inbox` is the
part of it the server has answered, the receive buffer. The server's own frames
(requests, a close) come to be when `ws.next()` yields them, since no property
depends on how long they waited; they come in any order the server may send them.
The run of `SignalWebSocket` leaves the server's requests to `MessagePipe`.
A send may block the worker on a live connection as well as on a broken one
(`blocked`). While it blocks, answers arrive and ticks are missed; afterwards there
may be room again (`SendResumes`), with the missed ticks coming one after the
other, or the send fails. After a keepalive went unanswered `ws.close` is awaited
(`closing`) before `run` returns. `Stop` is that return: it drops the pending
responders (their callers see `WsClosing`), the channel, the response futures and
what was not read. Ids that callers
chose and ids that are drawn are disjoint sets, and `next_request_id` never
draws one still in use: 64 random bits. The first rule keeps the model honest
about caller-chosen ids that coincide; `FreeIds`, a mutant, shows what the second
is worth.

In the pipe, `SinkSend` is `futures::mpsc` with capacity 1 and one sender: the
second item is put into the channel and parks the runner, so two items may be
buffered. `DropStream` drops the runner, the request stream and what is
buffered.

### SendMessage and Attachments

A task is one call. Between two sends it may be dropped, other devices may be
linked or unlinked, and other tasks run. One `try_send_content` is one step whose
`Outcomes` are those `MessageSender` has: reached or not, sealed or fallen back to
identified, sessions with the own devices repaired or left half way, and `Err`
with the message nevertheless accepted. `accepted[t]` is what the server took from
`t`, in order. Contents are sequences of tokens: a contact with the length it
announces for an avatar, a byte of an avatar, a zero of padding, bytes that do not
decode. The contacts this client uploads may announce avatars, whose bytes
`upload_contact_details` does not write; the lists of other clients have theirs.
Each upload has a location of its own, so it starts at offset 0. `Body` is what goes
through the `DigestingReader`, `Items` the iterator of `retrieve_contacts`.

The model keeps these behaviours of the code, which callers should know: a
`SyncMessage` given to `send_message` for the own account is sent and then synced
once more; for a primary device that has no session with a newly linked one the
`NoMessagesToSend` of the transcript replaces the `Ok` of the message; the zeros
of the padding come out of the contacts' iterator as `MissingUuid` errors; its
download loop never retries, since `get_attachment` never returns
`ServiceError::Timeout`; a stream that breaks panics.

### Envelopes

An envelope carries one message of a device of an account, encrypted under the
session (`epoch`) or sender key of that address, or not encrypted. Sessions, sender
keys and identities are kept by address, `Sender(m)`. `OpenEnvelope` is the whole of
`open_envelope`: the frame is checked (destination missing or not the cipher's, a
sealed sender to the PNI, a sender that is a PNI), the content decrypted, what is
`Unusable` refused (a PNI under seal, a timestamp out of range, a sender key that
does not parse: after the decryption, so the session is kept and a sender key in the
message is not), the sender key ingested, also from a plaintext envelope, the PNI
signature verified, the content filtered. An error names its sender and the
ciphertext, `Report` is `send_decryption_error_message`, and `SendAgain` the sender's
answer.

A PNI signature names a PNI and was made by an account's PNI key over an account's
ACI identity. Anyone may attach any signature there is: senders may sign for a PNI
that is not theirs, and copy what another account signed. All that is assumed is that
nobody forges one (`MessagesAssumption`). `VerifyPniSignature` checks, as the code
does, that the PNI identity in the store made it over the ACI identity in the store
of the address the message came from. Not modelled: padding, a PNI-identified send
to oneself (`SealedSenderSelfSend`).

### PreKeys, Provisioning, TransferArchive, DeviceLife

`store[i]` is the protocol store of an identity, `bundle[d][i]` what the server
serves for device `d`, `wire` the uploads under way, `handed` the keys peers have
fetched. `job` is the call that runs: `update_pre_key_bundle`, `link_device` or a
registration, each of which replenishes with `Saves` and may fail after any save.
`Panics` is the assertion at `pre_keys.rs:279`; it fails exactly when offset plus
count is a multiple of `PRE_KEY_MEDIUM_MAX_VALUE - 1`. By then the keys are saved
and the next ids moved on, so the refresh after it succeeds, which is part of what
`BundlesSettle` shows. `primary` is the other phone, which scans the URL.
An application that drops its receiver makes `link_device` panic. Then the URL was not
taken (`ProvisionFails`), or the device exists and nobody was told, which is the same
to everyone else as an answer that was lost.
`TransferArchive` counts time in ticks, four to a second, so that rounding can go
either way. A transfer shares nothing with the rest of the device, so its steps
come between linking and the first refresh and are not interleaved with others.

Known and not covered by a property: with `use_last_resort_key` false on a store
without a last resort key every `update_pre_key_bundle` makes another batch; after
a whole lap of the ids (2^24) a one-time Kyber key takes the id of the last resort
key; a link whose answer is lost leaves a device nobody knows of (`unanswered`);
a primary without a profile key cannot link devices.

### StorageService

A device syncs (`NotChanged`, `FetchManifest`, `ReadItems`), adds its edit to a
record under a fresh identifier and writes a manifest one version on. Keys are
values built from what the code derives them from, so a manifest or an item
decrypts only with the key of its version, or of its identifier and `record_ikm`.
A write can be refused, applied without an answer, applied late, or lost. The
caller is external and follows the module's documentation: after `Conflict`, sync
again and rebuild.

### GroupsManager and GroupOperations

A group is its sets of members, invited, requesting and banned ones, and its attributes. Encrypting
and decoding are functions on them that keep the code's strictness. Labels,
titles, descriptions and timers that do not decrypt are unset. A role or an access
rule without a name, an id or a profile key that does not deserialize or decrypt
fails the decode of the whole group or change, and other members' edits bring all of
these about (`Garbled`). Not among the inputs are entries without a
member and groups with the wrong id: the server parses the protobufs it stores and
signs. `Order` is the order in which the changes of a `GroupChange` are
chained. A client takes `today` when its call begins, uses a cached credential of
that day or asks for a window of them, and the server checks the presentation on
its own day, with a day of tolerance. `history` is what each revision means, built
from the edits themselves, not from what was encoded. `AuthHolds` is a property of
steps: it judges a refusal by the membership and the day of that moment, since
another member may add the refused client again later. A request for credentials
that fails ends the call before it has done anything, as if it began later. The
server answers with the statuses it has for group requests; that it is overloaded
(413, 423, 429, 499, 508) only selects an error.

## Runs

| Run | Instance | Shows |
|---|---|---|
| `contention` | 2 senders, 1 receiver, 1 peer with 2 devices, one known; fairness | `NoKeyReuse`, `DeliveryInOrder`, `SessionsAreAtomic` (refinement of `AtomicSessions`), `EveryCallEnds` |
| `repair` | 1 sender, 3 devices, this device being number 2 of its account; every combination of no, current, outdated and corrupt record; sends to that peer, to either id of the own account, with and without a record of this device under the PNI, and sealed or plaintext ones to another peer; one change of an account | `TypeOK`, `RetriesSuffice`, `RepairSticks`, `AtMostOnce`, `NoSessionWithSelf`, `NothingForSelf` |
| `socket` | 2 requests, 1 id callers may choose, 3 drawn ids, fairness | `ResponsesMatch`, `WaitingIsTracked`, `TimeoutIsReal`, `EveryRequestEnds` |
| `pipe` | 3 server requests of any kind, fairness | `NoSilentLoss`, `YieldedInOrder`, `DisconnectedIsComplete`, `DisconnectIsSeen` |
| `send_message` | 2 calls, one of any kind, one other device that comes and goes; a padded and an unpadded upload; contact lists of this client and of another | `TranscriptIsTrue`, `ResultIsTrue`, `PointersResolve`, `ContactsArrive` |
| `envelopes` | 14 messages of a peer's two devices, of another account, of a PNI and of our own other device, sessions lost once, fairness | `ReadIsEntitled`, `PniVerifiedExactly`, `SenderKeysKept`, `EveryMessageRead` |
| `device` | a new or an old device, 2 attempts to link, ids that wrap, fairness | `ServedKeysHeld`, `NoNeedlessRefresh`, `RegistrationIsTrue`, `PollIsPunctual`, `ArchiveIsWhole`, `BundlesSettle` |
| `storage` | 3 devices, 2 records, with and without `record_ikm`, fairness | `IndexComplete`, `AckedIsKept`, `EditsAreAtomic` (refinement of `SharedRecords`), `EveryEditLands` |
| `groups` | 2 clients and other members, 3 days, 3 revisions | `ViewIsARevision`, `OnlyUnknownsFail`, `AuthHolds`, `EndsExplained` |
| `pnp_race` | `pnp_initialize_devices` and a send to the own account | `NoKeyReuse` is violated |
| `not_found` | a corrupt record for an unlinked sub-device | `NotFoundIsUnregistered` is violated |
| `contacts_avatar` | a list of two contacts, the first announcing an avatar | `UploadedContactsArrive` is violated |

Bounds and why they are enough. Interference on a session takes two tasks; the
third of `contention` adds a decryption to two sends. Repair takes a device for
each kind of trouble the server can report in one answer or in consecutive ones:
extra, missing, stale; `MaxChanges` allows one change between an answer and its
repair. Which devices an account has beside its primary one makes no difference, so
the runs give it devices 1 to n. What an earlier send to the own PNI leaves behind
is among the starting states. The id table needs two requests to collide; a keepalive draws from the ids
they freed, and three drawn ids are all that can be in use at once. The pipe holds two items, so three requests overflow it. Keepalives are not
bounded: their ids are used again once answered.

In `send_message` the second call only sends to a recipient and syncs: two calls
meet in the own sessions and linked devices, nowhere else. `MaxLinks = 2` lets a
device go and come back during a call. In `storage` three devices let a write be
overtaken twice; one failed request is one lost answer. In `groups`
`CredentialDays = 1` makes a cached window run out on the third day; `MaxVersion`
lets one client's change be overtaken by another's and be built again. In `device`
the old device starts at id 37 of 40 with batches of two, so that the assertion, the
wrap and the ids after it all happen. In `envelopes` an account's messages are sent
in their order and arrive in any. With `MaxTransit = 2` one envelope can
wait while any number of others overtake it, retries not counted: a message arrives
before the one that opens its session or brings its sender key, or after all others.

Deadlock is checked in every run but `device` and `envelopes`, where the system may
rest: a device that nobody links or registers, messages that have all been read. In
the others the only states without further work are those in which every task has
ended or the worker has stopped (`Terminated`, `Stopped`).

### Fairness

`EveryCallEnds` assumes that the executor polls a task that can go on, that
tokio's mutex is granted in order and that a request is answered or fails. The
last is what `EveryRequestEnds` shows of the websocket. Nobody needs to call,
fail, be dropped or change an account.

`EveryRequestEnds` assumes that `select!`, which polls its branches in random order,
in the end takes one that is ready again and again (strong fairness: sends that block
interrupt it), that the keepalive interval ticks, that a send or a close that blocks
goes on or fails in the end, and that on a live connection the server answers each
request. The code has no
timeout for a request the server never answers on a connection that is otherwise
alive: such a caller waits until the connection ends.

`DisconnectIsSeen` assumes in addition that the consumer polls.

`EveryEditLands` assumes that a device goes on and that a write it waits for is
handled; at most `MaxFailures` requests fail. That callers retry after a conflict
is what the documentation of `StorageServiceError::Conflict` asks of them.

`BundlesSettle` assumes that the application calls `update_pre_key_bundle` again
until it finds nothing to do, as its users do on every start, that a call runs on
and that a transfer ends. Nobody needs to link, register or fetch keys.

`EveryMessageRead` assumes that what arrives is opened, that the application
reports failures that name their sender and that the sender answers. Messages need
not be sent, and sessions are lost at most `MaxLosses` times.

### What the violated runs show

`pnp_race`. `try_send_content` is documented as the only place that needs the
lock, since every send that touches sessions goes through it.
`pnp_initialize_devices` does not: it calls `create_encrypted_message` itself.
Next to a sync message to the same linked device both load the record before
either stores it, and two ciphertexts carry the same message key.

`not_found`. A record for a sub-device that no longer exists is found corrupt:
`create_encrypted_messages` deletes it and `create_encrypted_message` asks for
keys of that one device. The 404 is reported as `Recipient not found`, and the
registered recipient gets nothing.

`contacts_avatar`. `upload_contact_details` writes each contact as it was given and
no avatar after it. A contact that announces one makes the iterator of
`retrieve_contacts` take the contacts that follow for its bytes. `ContactsArrive` is
what does hold: the contacts up to the first such one arrive in order.

### What the properties do not promise

Two properties are weaker than comments in the code suggest, because the code does
not do more.

* A session with oneself. `create_encrypted_message` says there is no need for one
  and passes over the bundle of this device, but compares the recipient with the ACI
  only (`sender.rs:1121`). A linked device that sends to its own PNI gets the bundles
  of all devices with those of the primary, and stores a session with itself.
  `NoSessionWithSelf` is about the ACI. The harm is contained: no message is ever
  encrypted with such a session (`NothingForSelf`).
* `KeepaliveTimeout` is documented as what follows keepalives that went unanswered
  (`websocket/mod.rs:55`). The tick looks at the answers that were read, and `select!`
  may take it while the answer waits in the receive buffer: the two became ready
  together, or a send had held up the worker over several ticks. `TimeoutIsReal` is
  what does hold: the worker never closes a live connection once it has read all
  answers.

## What is proved

Every theorem below is `Spec => ...` for all values of the constants that satisfy
the module's assumptions, which are what the code and its peers guarantee. TLC
evaluates the assumptions on every run and has checked each inductive invariant on
the instance of its module's run. An invariant is a conjunction of named parts, and
each action has a lemma that says why it keeps them.

| Module | Theorems |
|---|---|
| `MessageSenderProofs` | `TypeCorrect` (`TypeOK`), `Refinement` (`SessionsAreAtomic`), `KeysNeverReused` (`NoKeyReuse`) |
| `MessageDeliveryProofs` | `DeliveredOnce` (`AtMostOnce`), `DeliveredInOrder` (`DeliveryInOrder`), `RepairsStick` (`RepairSticks`), `OwnDeviceHasNoSession` (`NoSessionWithSelf`), `NothingIsForSelf` (`NothingForSelf`), `FourAttemptsSuffice` (`RetriesSuffice`) |
| `MessagePipeProofs` | `OwnResponse` (`ResponsesMatch`), `NoResponderLost` (`WaitingIsTracked`), `TimeoutOnlyUnread` (`TimeoutIsReal`), `InOrder` (`YieldedInOrder`), `NothingLeftBehind` (`DisconnectedIsComplete`), `AcknowledgedNotLost` (`NoSilentLoss`) |
| `SendMessageProofs` | `TranscriptsNameTheReached` (`TranscriptIsTrue`), `ResultsHold` (`ResultIsTrue`), `PointersHold` (`PointersResolve`), `ListsArrive` (`ContactsArrive`) |
| `EnvelopesProofs` | `ReadersEntitled` (`ReadIsEntitled`), `PniExact` (`PniVerifiedExactly`), `KeysIngested` (`SenderKeysKept`, an action property) |
| `StorageServiceProofs` | `ManifestMatchesItems` (`IndexComplete`), `AcknowledgedEditsKept` (`AckedIsKept`), `Refinement` (`EditsAreAtomic`) |
| `DeviceLifeProofs` | `RegistrationHolds` (`RegistrationIsTrue`), `RefreshesAreNeeded` (`NoNeedlessRefresh`), `ServedKeysStay` (`ServedKeysHeld`, up to a lap of the ids), `PollsArePunctual` (`PollIsPunctual`), `ArchiveHolds` (`ArchiveIsWhole`) |
| `GroupsManagerProofs` | `EndsAreExplained` (`EndsExplained`), `AuthorizationHolds` (`AuthHolds`, an action property) |

### MessageSender: sessions

For all sets of peers, devices, senders and receivers, all calls, all starting
records in which a record has a sending chain, and any `MaxChanges`
(`ConstantsAssumption`).

`TypeOK` is inductive by itself. The refinement needs more: `StoreRatchet`
writes `snap[t]`, so it is an `Encrypt` of the stored record only if the record
that was loaded is still stored. `LockInv` says why it is: a task anywhere
between acquiring and releasing has the lock of its peer (`LockHeld`), so what it
loaded is current (`SnapCurrent`), since a step on another task's behalf touches
the records of that task's peer only, and two holders have different peers.
`SnapUsable` and `NoChainNoSession` make the abstract guard of `Encrypt` true.
`LockInvStep` is this argument once; each action is an instance of it
(`WorkStep`, `EndStep`, ...).

`NoKeyReuse` is not inductive either. `KeyInv` adds that a device's current chain
is no newer than the newest (`ChainsBound`), and that a key that was used lies on
a started chain and, if on the current one, below its index (`KeysSpent`). It is
preserved by every step of `AtomicSessions` (`EncryptKeys`, `ReworkKeys`), so by
the refinement by every step of `MessageSender`.

`PnpInitialize` has no such theorem: its tasks break `LockHeld`.

### MessageSender: messages

`DeliveryInv` ties the history of calls to the queue of the lock. The queue holds
those that wait, once (`QueueOK`), in the order of their calls (`QueueInOrder`);
so when a task holds the lock, all that called before it have ended
(`ServedInOrder`), and one that has ended can be delivered only if its post is
still on the wire and its caller did not wait for the answer (`WireOK`). A message
that was accepted is off the wire and its task has ended (`DeliveredOK`), which
gives `AtMostOnce`.

`RepairInv` needs the starting states to be those of an account
(`StartsAssumption`: no session with this device under the ACI; a current registration id is 2,
one of before is 1, a device that is not there has 0, which is how the model names
them). Registration ids in the store were issued by the server (`RegsIssued`), so a
registration it has rejected does not come back: it is gone from the server, from
the store once repaired, and from what is fetched and encrypted after that
(`RejectedGone`). `TidyLocals` and `OwnDeviceSpared` say what the loops over devices
may hold, so that neither a repair nor a fetched bundle makes a session with this
device under the ACI; nor does an envelope, since none comes from it
(`EnvelopesForeign`). Under the PNI there may be one, but the loops that encrypt leave
this device out under either id, and a message key is only spent on the device such a
loop has reached (`KeysByRatchet`), which is `NothingForSelf`.

`RetryInv` is why the loop of four attempts is long enough. It speaks of a call that
is still quiet: its peer's devices have not changed, the server had the keys it was
asked for, no attempt was spent on a 401. Two things can be wrong with the records.
They may not be those of the devices the server expects (the opposite is `Full`), and
some may be stale or corrupt (`Clean`). A 409 is only sent if an attempt was not
`Matched`, and its repair makes the records `Full`; a 410 only if it was not `Known`,
and its repair makes them `Clean`, whatever else it leaves. So the second attempt
begins with one of the two, the third is `Clean`, the fourth is both (`TopOK`), and
then there is nothing left to reject. `WorkOK` carries this through an attempt, where
records are loaded, found corrupt, deleted and made anew while messages are written,
and `MendOK` through a repair. All of it is about the records of the `Others`: one of
this device under the PNI is neither expected by the server nor ever used.

### Websocket and pipe

`WsInv`: while the worker lives, whatever the server may answer or has answered is
known under its id, as a request or as a keepalive (`AnswersKnown`), no id is both
(`KeepAlivesKnown`), and a waiting caller is in the channel or the table
(`WaitersKnown`). `IdsAssumption` is what is assumed of ids: chosen and drawn ones
are disjoint.

`PipeInv` is about `Given`, what the consumer has been given followed by what the
channel still holds: it names the requests that have left the request stream, in
order (`GivenInOrder`, `GivenOK`), the request stream holds the rest (`StreamOK`),
the channel never more than two (`SinkOK`), and what was acknowledged and not yet
yielded is in the channel, or was when the stream was dropped: at most two
(`AcksOK`). The theorems are about the composition with the websocket, whose steps
interleave with the runner's and the consumer's.

### SendMessage

`SendInv` speaks of one task at a time, for any number of tasks. `CallOK` says, for
each place of a call, what its locals have to do with what the server took from it:
the results so far are true (`ResultsTrue`), so is each transcript already sent
(`TranscriptsTrue`), a call whose sends returned Ok has `needs` set when the other
devices are still to be told (`NeedsKnown`), and a call that has ended did so for a
reason (`OkTrue`, `ErrTrue`). `UploadOK` relates the digest to what is stored at each
phase of an upload; `ContactsTrue` puts the announcement after it. `SendMessageAssumption`: a
call has arguments of the API's types, and a message to one recipient has one.

`ContactsArrive` is about data of any length: the iterator of `retrieve_contacts`
yields the names of a list in their order up to the first contact whose avatar is
announced and missing, and if there is none, all of them and then only the errors the
padding causes. `Items` is a recursive function, so the proof goes by the least
position from which it would not (`YieldsNames`). `ContactList` says what a list looks
like: contacts, bytes where a contact before them announced an avatar, and then zeros.
Contacts may announce any avatars, present or not; what `upload_contact_details`
writes has none of them (its `XXX add avatar here`). `ListInv` adds that nothing changes at a
location once it is read.

### Envelopes

`EnvInv`: an envelope, an error still to be reported and a retry receipt all stem
from a message that was sent, framed as its sender frames it (`EnvelopesOK`,
`FailuresOK`, `ReceiptsOK`); the store has the identity of every address whose sender
key it has, unless the key came in plaintext (`StoreOK`, `PlainKey`), which is what
makes the signature of a group message verifiable; and what was read was entitled and
verified then (`ReadOK`). `MessagesAssumption` is about senders: group messages are
sealed, and a signature that is not of the sender's own making is a copy of one its
maker made over its own identity. That a copy verifies nothing is proved from what
the code compares, not assumed. `ReadIsEntitled` depends on the refusal of sealed PNI senders
(`cipher.rs:579`).

### StorageService

`Inv`: the server's index lists each item once and all there are (`ServerOK`); a
device at the server's version knows what the server has (`DevicesOK`); a write on
the wire fits the version it was made for (`WiresOK`), so that a write the server
accepts, late or not, is made from the current state; identifiers are issued once
(`IdsIssued`); and an acknowledged edit is in its record (`EditsOK`). From it each
accepted write is one `Edit` of `SharedRecords` and everything else a stutter.
`StorageAssumption`: `None` is no device.

### DeviceLife

`CallInv` follows a call that makes keys. Its locals say how far it is, which stores
it has filled and what it has made (`Running`); a request on the wire is the one its
caller waits for, or its caller gave up (`WireOK`); the server has a device only if a
link or registration got that far (`ServedOK`), which gives `RegistrationIsTrue`; and
after a refresh that succeeded the server's repeated-use keys are the store's
(`RefreshOK`), which gives `NoNeedlessRefresh`.

`ServedKeysHeld` needs to know what any number of saves leaves in a store
(`SavedResult`, by induction over the saves, since each may be the last before a
failure), and that they save over nothing: ids are drawn from a range that wraps.
`KeysInv` measures how far behind the next id the keys of a store lie (`StoreOK`): a
call takes at most `Batch + 2` ids. Hence `NotLapped`, the condition of
`ServedKeysStay`: the calls so far have not gone through all the ids. With the code's
numbers, 102 ids a call of 2^24, that is more than 160000 calls. After a
whole lap the property fails: a new one-time Kyber key takes the place of a last resort key that
peers still use. `NotLapped` counts every call as if it made a batch; the run goes
past the wrap, and checks the property also where the count is over but most calls
found nothing to do.
`PlacesOK` says that what is served, handed out, on its way or being made can be used;
`RoundsOK` and `HandedOnce` that no peer's use of a one-time key takes it from another.

`ArchiveInv`: a request is under way no longer than its timeout, and what the server
was asked to wait ends at the deadline to the nearest second (`PollOK`,
`RoundedSeconds`); what was appended is a prefix of the archive (`FileOK`). For any
length of a second in ticks, so for any rounding.

`PreKeysAssumption`, `NoneAssumption`, `TransferAssumption`: a batch and one more fit
into the ids there are, the minimum is no more than a batch, `None` is none of the
values it stands beside, and times are positive.

### GroupsManager

`GroupInv`: a call still has the day it began on and, if it creates the group, the
group as it was encrypted (`Calling`); no client has failed (`Sound`). The server
takes a new group because it is well formed (`NewGroupWellFormed`): the members that
are added with presentations and the invited ones are distinct, and the creator comes once, whether the application named
it among the candidates or not. Encryption keeps accounts apart, so this is about any
set of candidates. `AuthHolds` follows step by step: a cached credential is of the day
it is filed under, one that is fetched verifies with the day the call began on, and
the server refuses it only when that day has been over for more than one, or to a
stranger. `GroupsAssumption`: the application names each candidate once; `None` is
neither an error's name nor a presentation.

### Only model-checked

* Liveness (`EveryCallEnds`, `EveryRequestEnds`, `DisconnectIsSeen`,
  `EveryEditLands`, `BundlesSettle`, `EveryMessageRead`): fairness and `ENABLED` are
  beyond the prover.
* `ViewIsARevision` and `OnlyUnknownsFail` of `GroupsManager`: they compare what a
  client decodes with what a revision means, through `FoldSet` over the changes of a
  group in the order of `Order`. The folds take operators, which the provers cannot
  instantiate. What recursive functions compute is within their reach (`Items`,
  `Saved`), by a least counterexample instead of an induction rule.

## Plan

All modules of the plan are written, and the theorems it named are proved. What could
follow: the two properties of group contents, if the folds of `GroupOperations` are
written as recursive functions on the sequence of changes; and theorems about
`PnpInitialize`, once its tasks take the lock that `LockInv` is about.

## Not modelled

Cryptography (libsignal, zkgroup, the attachment, profile and provisioning
ciphers) beyond who can open what; padding of messages; wire formats and their
conversions; building HTTP requests and mapping statuses that only select an
error; avatars (`upload_to_cdn0`, `retrieve_avatar`); profile, name, username and
device-list calls, one request each over the websocket that `SignalWebSocket`
models; configuration. The credentials cache is the application's to clear when
the account's PNI changes; changing the number is not part of this library.
`replenish_pre_keys` takes its store by `&mut`: two replenishments at once need two
clones of a store, which is the application's doing and not modelled.
`PROJECT.json` says so component by component.
