---------------------------- MODULE MessageSender ----------------------------
(***************************************************************************)
(* Sending to one peer and decrypting from one peer, as concurrent tasks   *)
(* over one protocol store:                                                *)
(*                                                                         *)
(*   try_send_content, create_encrypted_messages, create_encrypted_message *)
(*                                              src/src/sender.rs          *)
(*   ServiceCipher::encrypt, ServiceCipher::decrypt  src/src/cipher.rs     *)
(*   SessionLocks::lock                         src/src/session_lock.rs    *)
(*                                                                         *)
(* Every await of the code is a boundary between two steps.  A task runs   *)
(* one call and ends; the server is external and answers as the error      *)
(* mapping of src/src/websocket/sender.rs expects it to.                   *)
(***************************************************************************)
EXTENDS Naturals, Sequences, SequencesExt

CONSTANTS Peers,              \* ServiceIds
          Self,               \* local_aci, a member of Peers
          SelfPni,            \* local_pni, in Peers if it is ever sent to
          Devices,            \* device ids of any account
          DEFAULT_DEVICE_ID,  \* the primary device of any account
          OwnDevice,          \* device_id: this device of the own account
          Senders,            \* tasks that run try_send_content once
          Receivers,          \* tasks that decrypt one envelope
          None,
          Calls,              \* the calls a sender may be given
          Starts,             \* the [sessions, srv] the system may start in
          MaxChanges          \* bound on changes of the accounts' devices

ThreeAttempts == 3            \* mutant: one attempt fewer
MaxAttempts == 4              \* for _ in 0..4u8
MaxTries == 2                 \* for _attempt in 0..2

Tasks == Senders \cup Receivers
Tokens == Tasks \X (1 .. MaxAttempts)

VARIABLES lock,      \* lock[p]: the task that holds p's session lock, or None
          waiters,   \* waiters[p]: tasks queued for it, in tokio's FIFO order
          sessions,  \* the protocol store's session records
          chains,    \* history: sending chains ever started with a device
          used,      \* history: message keys used
          srv,       \* external: srv[p][d], a registration id, 0 if not linked
          changes,   \* how often srv has changed
          wire,      \* senders whose last post the server has yet to handle
          pc,
          peer,      \* the ServiceId a task works on
          dev,       \* the device a task works on
          snap,      \* the record a task loaded and has not stored yet
          task,      \* the other locals of a task
          order,     \* history: order[p], sends to p as they were called
          delivered  \* history: delivered[p], sends as the server accepted them

storeVars == <<sessions, chains, used>>
lockVars == <<lock, waiters>>
serverVars == <<srv, changes>>
historyVars == <<order, delivered>>
vars == <<lockVars, storeVars, serverVars, wire, pc, peer, dev, snap, task,
          historyVars>>

Abs == INSTANCE AtomicSessions

Session == Abs!Session
NoSession == Abs!NoSession
NoKeyReuse == Abs!NoKeyReuse

\* How a task may end: SentMessage, the variants of MessageSenderError, the end
\* of a decryption, or a future that was dropped before it was ready.
Results == {"none", "Ok", "NoMessagesToSend", "NotFound", "ServiceError",
            "ProtocolError", "ProofRequired", "UntrustedIdentity",
            "MaximumRetriesLimitExceeded", "Dropped"}

\* What a message carries to the server: a device and the registration id of
\* the session it was encrypted with (OutgoingPushMessage).
Target == [dev : Devices, reg : Nat]

\* The outgoing contents: OutgoingContent::Encrypted, OutgoingContent::Plaintext.
Contents == {"encrypted", "plaintext"}

Locals == [content : Contents, sealed : BOOLEAN, attempt : 1 .. MaxAttempts,
           todo : SUBSET Devices, tries : Nat, msgs : SUBSET Target,
           bundles : SUBSET Target, extra : SUBSET Devices,
           missing : SUBSET Devices, result : Results,
           rejected : SUBSET Target, quiet : BOOLEAN]

NoLocals == [content |-> "encrypted", sealed |-> FALSE, attempt |-> 1,
             todo |-> {}, tries |-> 0, msgs |-> {}, bundles |-> {},
             extra |-> {}, missing |-> {}, result |-> "none",
             rejected |-> {}, quiet |-> TRUE]

PCs == {"idle", "lock", "enumerate", "device", "ensure", "fetch", "process",
        "load", "store", "posted", "repair", "decrypt", "write", "done"}

\* Where a task of this module holds its peer's session lock.
Holding == PCs \ {"idle", "lock", "done"}

\* The ServiceIds of the own account.
OwnIds == {Self, SelfPni}

\* Sealed sends are for others: they hide from the server which device sends.
ASSUME ConstantsAssumption ==
    /\ Self \in Peers
    /\ SelfPni # Self
    /\ DEFAULT_DEVICE_ID \in Devices
    /\ OwnDevice \in Devices
    /\ Senders \cap Receivers = {}
    /\ None \notin Tasks
    /\ Calls \subseteq [peer : Peers, content : Contents, sealed : BOOLEAN]
    /\ \A c \in Calls : c.peer \in OwnIds => ~c.sealed
    /\ Starts \subseteq [sessions : [Peers -> [Devices -> Session]],
                         srv : [Peers -> [Devices -> Nat]]]
    /\ \A s \in Starts, p \in Peers, d \in Devices :
          s.sessions[p][d].chain = 0 => s.sessions[p][d] = NoSession
    /\ MaxChanges \in Nat

\* What the store and the server hold at first: no session with this device
\* under the ACI, and registration ids named so that a device's current one is 2 and the ones
\* it had before, which nothing tells apart, are 1 (see FreshReg).
ASSUME StartsAssumption ==
    \A s \in Starts :
        /\ s.sessions[Self][OwnDevice] = NoSession
        /\ \A p \in Peers, d \in Devices :
              /\ s.srv[p][d] \in 0 .. 2
              /\ s.sessions[p][d] # NoSession => s.sessions[p][d].reg \in 1 .. 2

TypeOK ==
    /\ lock \in [Peers -> Tasks \cup {None}]
    /\ waiters \in [Peers -> Seq(Tasks)]
    /\ sessions \in [Peers -> [Devices -> Session]]
    /\ chains \in [Peers -> [Devices -> Nat]]
    /\ used \subseteq Abs!MessageKey
    /\ srv \in [Peers -> [Devices -> Nat]]
    /\ changes \in 0 .. MaxChanges
    /\ wire \subseteq Senders
    /\ pc \in [Tasks -> PCs]
    /\ peer \in [Tasks -> Peers]
    /\ dev \in [Tasks -> Devices]
    /\ snap \in [Tasks -> Session]
    /\ task \in [Tasks -> Locals]
    /\ order \in [Peers -> Seq(Senders)]
    /\ delivered \in [Peers -> Seq(Senders)]

Init ==
    /\ \E s \in Starts : sessions = s.sessions /\ srv = s.srv
    /\ chains = [p \in Peers |-> [d \in Devices |-> sessions[p][d].chain]]
    /\ used = {}
    /\ changes = 0
    /\ lock = [p \in Peers |-> None]
    /\ waiters = [p \in Peers |-> <<>>]
    /\ wire = {}
    /\ pc = [t \in Tasks |-> "idle"]
    /\ peer = [t \in Tasks |-> Self]
    /\ dev = [t \in Tasks |-> DEFAULT_DEVICE_ID]
    /\ snap = [t \in Tasks |-> NoSession]
    /\ task = [t \in Tasks |-> NoLocals]
    /\ order = [p \in Peers |-> <<>>]
    /\ delivered = [p \in Peers |-> <<>>]

-----------------------------------------------------------------------------
(* Session locks and the protocol store *)

Goto(t, l) == pc' = [pc EXCEPT ![t] = l]
Update(t, locals) == task' = [task EXCEPT ![t] = locals]

\* session_locks.lock(peer): the map entry is found or created, then the task
\* queues on its mutex.
Enqueue(t, p) == waiters' = [waiters EXCEPT ![p] = Append(@, t)]

\* Mutant: the guard is not waited for.
AcquireShared(t, next) ==
    /\ pc[t] = "lock"
    /\ lock' = [lock EXCEPT ![peer[t]] = t]
    /\ waiters' = [waiters EXCEPT ![peer[t]] = SelectSeq(@, LAMBDA u : u # t)]
    /\ Goto(t, next)

\* The OwnedMutexGuard is handed to the longest waiting task.
Acquire(t, next) ==
    /\ pc[t] = "lock"
    /\ lock[peer[t]] = None
    /\ waiters[peer[t]] # <<>>
    /\ Head(waiters[peer[t]]) = t
    /\ lock' = [lock EXCEPT ![peer[t]] = t]
    /\ waiters' = [waiters EXCEPT ![peer[t]] = Tail(@)]
    /\ Goto(t, next)

\* The guard is dropped with the future that owns it, whatever ended it.
Release(t) ==
    lock' = [lock EXCEPT ![peer[t]] = IF @ = t THEN None ELSE @]

\* A task's end: its future is ready with result r and the guard is dropped.
Finish(t, r) ==
    /\ Goto(t, "done")
    /\ Release(t)
    /\ Update(t, [NoLocals EXCEPT
                    !.result = r, !.attempt = task[t].attempt,
                    !.msgs = IF pc[t] = "posted" THEN task[t].msgs ELSE {},
                    !.rejected = task[t].rejected,
                    !.quiet = /\ task[t].quiet
                              /\ pc[t] = "posted" => r # "MaximumRetriesLimitExceeded"])

\* process_prekey_bundle, and the decryption of a prekey message: a session on
\* sending chains never used before, for the device's registration id.
BuildSession(p, d, reg) ==
    /\ chains' = [chains EXCEPT ![p][d] = @ + 1]
    /\ sessions' = [sessions EXCEPT ![p][d] =
                      [chain |-> chains[p][d] + 1, snd |-> 0, reg |-> reg,
                       usable |-> TRUE]]
    /\ UNCHANGED used

\* delete_session and delete_service_addr_device_session.
DeleteSession(p, d) ==
    /\ sessions' = [sessions EXCEPT ![p][d] = NoSession]
    /\ UNCHANGED <<chains, used>>

-----------------------------------------------------------------------------
(* Encrypting for every device of the peer *)

\* A call of try_send_content begins and waits for the peer's lock.
StartSend(t, c) ==
    /\ pc[t] = "idle"
    /\ Goto(t, "lock")
    /\ peer' = [peer EXCEPT ![t] = c.peer]
    /\ Update(t, [NoLocals EXCEPT !.content = c.content, !.sealed = c.sealed])
    /\ Enqueue(t, c.peer)
    /\ order' = [order EXCEPT ![c.peer] = Append(@, t)]
    /\ UNCHANGED <<lock, storeVars, serverVars, wire, dev, snap, delivered>>

AcquireSend(t) ==
    /\ Acquire(t, "enumerate")
    /\ UNCHANGED <<storeVars, serverVars, wire, peer, dev, snap, task, historyVars>>

\* get_sub_device_sessions
SubDevices(p) ==
    {d \in Devices \ {DEFAULT_DEVICE_ID} : sessions[p][d] # NoSession}

\* Mutant: a recipient is compared with the ACI only.
AciSenderDevice(p) == IF p = Self THEN {OwnDevice} ELSE {}

\* The device a message is never sent to: the one that sends it, by either id
\* of its account.
SenderDevice(p) == IF p \in OwnIds THEN {OwnDevice} ELSE {}

\* create_encrypted_messages decides which devices it will encrypt for.
EnumerateDevices(t) ==
    /\ pc[t] = "enumerate"
    /\ Update(t, [task[t] EXCEPT
                    !.todo = (SubDevices(peer[t]) \cup {DEFAULT_DEVICE_ID})
                                 \ SenderDevice(peer[t]),
                    !.msgs = {}])
    /\ Goto(t, "device")
    /\ UNCHANGED <<lockVars, storeVars, serverVars, wire, peer, dev, snap, historyVars>>

\* The next device; a HashSet gives them in any order.
NextDevice(t, d) ==
    /\ pc[t] = "device"
    /\ d \in task[t].todo
    /\ dev' = [dev EXCEPT ![t] = d]
    /\ Update(t, [task[t] EXCEPT !.todo = @ \ {d}, !.tries = 0])
    /\ Goto(t, "ensure")
    /\ UNCHANGED <<lockVars, storeVars, serverVars, wire, peer, snap, historyVars>>

\* create_encrypted_message loads the session to see whether one exists.
EnsureSession(t) ==
    /\ pc[t] = "ensure"
    /\ Goto(t, IF sessions[peer[t]][dev[t]] = NoSession THEN "fetch" ELSE "load")
    /\ UNCHANGED <<lockVars, storeVars, serverVars, wire, peer, dev, snap, task,
                   historyVars>>

\* External: the devices of p whose keys a request for device d asks for; the
\* primary device's id asks for the keys of all.
Linked(p) == {d \in Devices : srv[p][d] # 0}
KeysAsked(p, d) == Linked(p) \cap (IF d = DEFAULT_DEVICE_ID THEN Devices ELSE {d})
Bundles(p, D) == {[dev |-> d, reg |-> srv[p][d]] : d \in D}

\* get_pre_keys answers with the bundles of the devices D: all that were asked
\* for, or fewer, when the server holds no keys for one of them.
FetchPreKeys(t, D) ==
    /\ pc[t] = "fetch"
    /\ KeysAsked(peer[t], dev[t]) # {}
    /\ D \subseteq KeysAsked(peer[t], dev[t])
    /\ Update(t, [task[t] EXCEPT
                    !.bundles = Bundles(peer[t], D),
                    !.quiet = @ /\ D = KeysAsked(peer[t], dev[t])])
    /\ Goto(t, "process")
    /\ UNCHANGED <<lockVars, storeVars, serverVars, wire, peer, dev, snap, historyVars>>

\* The server has no such account or device: NotFoundError becomes NotFound.
PreKeysNotFound(t) ==
    /\ pc[t] = "fetch"
    /\ KeysAsked(peer[t], dev[t]) = {}
    /\ Finish(t, "NotFound")
    /\ UNCHANGED <<waiters, storeVars, serverVars, wire, peer, dev, snap, historyVars>>

\* The bundle that is passed over: this device's, when it comes under the ACI.
OwnBundle(p) == IF p = Self THEN {OwnDevice} ELSE {}

\* Mutant: a session is built with this device too.
ProcessAnyBundle(t, b) ==
    /\ pc[t] = "process"
    /\ b \in task[t].bundles
    /\ Update(t, [task[t] EXCEPT !.bundles = @ \ {b}])
    /\ BuildSession(peer[t], b.dev, b.reg)
    /\ UNCHANGED <<lockVars, serverVars, wire, pc, peer, dev, snap, historyVars>>

\* One bundle is turned into a session, unless it is to be passed over.
ProcessBundle(t, b) ==
    /\ pc[t] = "process"
    /\ b \in task[t].bundles
    /\ Update(t, [task[t] EXCEPT !.bundles = @ \ {b}])
    /\ IF b.dev \in OwnBundle(peer[t])
         THEN UNCHANGED storeVars
         ELSE BuildSession(peer[t], b.dev, b.reg)
    /\ UNCHANGED <<lockVars, serverVars, wire, pc, peer, dev, snap, historyVars>>

BundlesProcessed(t) ==
    /\ pc[t] = "process"
    /\ task[t].bundles = {}
    /\ Goto(t, "load")
    /\ UNCHANGED <<lockVars, storeVars, serverVars, wire, peer, dev, snap, task,
                   historyVars>>

\* ServiceCipher::encrypt loads the record and would ratchet it.
LoadUsable(t) ==
    /\ pc[t] = "load"
    /\ task[t].content = "encrypted"
    /\ sessions[peer[t]][dev[t]].usable
    /\ snap' = [snap EXCEPT ![t] = sessions[peer[t]][dev[t]]]
    /\ Goto(t, "store")
    /\ UNCHANGED <<lockVars, storeVars, serverVars, wire, peer, dev, task, historyVars>>

\* A PlaintextContent only takes the registration id from the record.
LoadPlaintext(t) ==
    LET s == sessions[peer[t]][dev[t]] IN
    /\ pc[t] = "load"
    /\ task[t].content = "plaintext"
    /\ s # NoSession
    /\ Update(t, [task[t] EXCEPT
                    !.msgs = @ \cup {[dev |-> dev[t], reg |-> s.reg]}])
    /\ Goto(t, "device")
    /\ UNCHANGED <<lockVars, storeVars, serverVars, wire, peer, dev, snap, historyVars>>

\* No record, or none that can encrypt: SessionNotFound.
Unencryptable(t) ==
    LET s == sessions[peer[t]][dev[t]] IN
    \/ s = NoSession
    \/ task[t].content = "encrypted" /\ ~s.usable

\* create_encrypted_messages takes SessionNotFound for corruption: it deletes
\* the session and tries once more, then goes on without this device.
DropCorruptSession(t) ==
    /\ pc[t] = "load"
    /\ Unencryptable(t)
    /\ DeleteSession(peer[t], dev[t])
    /\ Update(t, [task[t] EXCEPT !.tries = @ + 1])
    /\ Goto(t, IF task[t].tries + 1 < MaxTries THEN "ensure" ELSE "device")
    /\ UNCHANGED <<lockVars, serverVars, wire, peer, dev, snap, historyVars>>

\* The ratcheted record is stored and the ciphertext is ready.
StoreRatchet(t) ==
    /\ pc[t] = "store"
    /\ used' = used \cup {[peer |-> peer[t], dev |-> dev[t], chain |-> snap[t].chain,
                           idx |-> snap[t].snd, by |-> <<t, task[t].attempt>>]}
    /\ sessions' = [sessions EXCEPT ![peer[t]][dev[t]] =
                        [snap[t] EXCEPT !.snd = @ + 1]]
    /\ Update(t, [task[t] EXCEPT
                    !.msgs = @ \cup {[dev |-> dev[t], reg |-> snap[t].reg]}])
    /\ snap' = [snap EXCEPT ![t] = NoSession]
    /\ Goto(t, "device")
    /\ UNCHANGED <<lockVars, chains, serverVars, wire, peer, dev, historyVars>>

-----------------------------------------------------------------------------
(* Posting the messages, and the server's answers *)

NoMessagesToSend(t) ==
    /\ pc[t] = "device"
    /\ task[t].todo = {}
    /\ task[t].msgs = {}
    /\ Finish(t, "NoMessagesToSend")
    /\ UNCHANGED <<waiters, storeVars, serverVars, wire, peer, dev, snap, historyVars>>

\* Mutant: the guard is dropped before the wire send.
PostUnlocked(t) ==
    /\ pc[t] = "device"
    /\ task[t].todo = {}
    /\ task[t].msgs # {}
    /\ wire' = wire \cup {t}
    /\ Release(t)
    /\ Goto(t, "posted")
    /\ UNCHANGED <<waiters, storeVars, serverVars, peer, dev, snap, task, historyVars>>

Post(t) ==
    /\ pc[t] = "device"
    /\ task[t].todo = {}
    /\ task[t].msgs # {}
    /\ wire' = wire \cup {t}
    /\ Goto(t, "posted")
    /\ UNCHANGED <<lockVars, storeVars, serverVars, peer, dev, snap, task, historyVars>>

\* External: how the server judges the messages of task t when it handles them.
Addressed(t) == {m.dev : m \in task[t].msgs}
Expected(t) == Linked(peer[t]) \ SenderDevice(peer[t])
Stale(t) == {m \in task[t].msgs : m.reg # srv[peer[t]][m.dev]}

Registered(t) == srv[peer[t]][DEFAULT_DEVICE_ID] # 0
Mismatched(t) == Registered(t) /\ Addressed(t) # Expected(t)
OnlyStale(t) == Registered(t) /\ Addressed(t) = Expected(t) /\ Stale(t) # {}
Acceptable(t) == Registered(t) /\ Addressed(t) = Expected(t) /\ Stale(t) = {}

Accept(t) == delivered' = [delivered EXCEPT ![peer[t]] = Append(@, t)]

AnswerOk(t) ==
    /\ pc[t] = "posted"
    /\ Acceptable(t)
    /\ Accept(t)
    /\ wire' = wire \ {t}
    /\ Finish(t, "Ok")
    /\ UNCHANGED <<waiters, storeVars, serverVars, peer, dev, snap, order>>

\* Mutant: there is always a next turn.
RetryForever(t, locals) ==
    /\ Update(t, [locals EXCEPT !.attempt = @ + 1])
    /\ Goto(t, "enumerate")
    /\ UNCHANGED lock

\* The next turn of the retry loop, if one is left.
Retry(t, locals) ==
    IF task[t].attempt < MaxAttempts
      THEN /\ Update(t, [locals EXCEPT !.attempt = @ + 1])
           /\ Goto(t, "enumerate")
           /\ UNCHANGED lock
      ELSE Finish(t, "MaximumRetriesLimitExceeded")

\* 401 to a sealed message: once more, as an identified sender.
AnswerUnauthorized(t) ==
    /\ pc[t] = "posted"
    /\ task[t].sealed
    /\ wire' = wire \ {t}
    /\ Retry(t, [task[t] EXCEPT !.sealed = FALSE, !.quiet = FALSE])
    /\ UNCHANGED <<waiters, storeVars, serverVars, peer, dev, snap, historyVars>>

\* 409: sessions to drop and sessions to create.
AnswerMismatched(t) ==
    /\ pc[t] = "posted"
    /\ Mismatched(t)
    /\ wire' = wire \ {t}
    /\ Update(t, [task[t] EXCEPT
                    !.extra = Addressed(t) \ Expected(t),
                    !.missing = Expected(t) \ Addressed(t),
                    !.rejected = @ \cup {m \in task[t].msgs : m.dev \notin Expected(t)}])
    /\ Goto(t, "repair")
    /\ UNCHANGED <<lockVars, storeVars, serverVars, peer, dev, snap, historyVars>>

\* 410: sessions to drop.
AnswerStale(t) ==
    /\ pc[t] = "posted"
    /\ OnlyStale(t)
    /\ wire' = wire \ {t}
    /\ Update(t, [task[t] EXCEPT
                    !.extra = {m.dev : m \in Stale(t)},
                    !.rejected = @ \cup Stale(t)])
    /\ Goto(t, "repair")
    /\ UNCHANGED <<lockVars, storeVars, serverVars, peer, dev, snap, historyVars>>

\* 404
AnswerUnregistered(t) ==
    /\ pc[t] = "posted"
    /\ ~Registered(t)
    /\ wire' = wire \ {t}
    /\ Finish(t, "NotFound")
    /\ UNCHANGED <<waiters, storeVars, serverVars, peer, dev, snap, historyVars>>

\* 428, and every other status: the call ends.
AnswerRefused(t, r) ==
    /\ pc[t] = "posted"
    /\ r \in {"ProofRequired", "ServiceError"}
    /\ wire' = wire \ {t}
    /\ Finish(t, r)
    /\ UNCHANGED <<waiters, storeVars, serverVars, peer, dev, snap, historyVars>>

\* Mutant: a lost answer to an accepted message is one more reason to retry.
AnswerLostRetried(t) ==
    /\ pc[t] = "posted"
    /\ Acceptable(t)
    /\ Accept(t)
    /\ wire' = wire \ {t}
    /\ Retry(t, task[t])
    /\ UNCHANGED <<waiters, storeVars, serverVars, peer, dev, snap, order>>

\* The websocket closes under the request: the answer is lost, the message is
\* not, or not yet.
AnswerLost(t) ==
    /\ pc[t] = "posted"
    /\ UNCHANGED wire
    /\ Finish(t, "ServiceError")
    /\ UNCHANGED <<waiters, storeVars, serverVars, peer, dev, snap, historyVars>>

\* External: a message whose sender no longer waits reaches the server.
LateArrival(t) ==
    /\ t \in wire
    /\ pc[t] = "done"
    /\ wire' = wire \ {t}
    /\ Update(t, [task[t] EXCEPT !.msgs = {}])
    /\ IF Acceptable(t) THEN Accept(t) ELSE UNCHANGED delivered
    /\ UNCHANGED <<lockVars, storeVars, serverVars, pc, peer, dev, snap, order>>

\* Mutant: the extra session is not deleted.
KeepExtra(t, d) ==
    /\ pc[t] = "repair"
    /\ d \in task[t].extra
    /\ Update(t, [task[t] EXCEPT !.extra = @ \ {d}])
    /\ UNCHANGED <<lockVars, storeVars, serverVars, wire, pc, peer, dev, snap, historyVars>>

DropExtra(t, d) ==
    /\ pc[t] = "repair"
    /\ d \in task[t].extra
    /\ DeleteSession(peer[t], d)
    /\ Update(t, [task[t] EXCEPT !.extra = @ \ {d}])
    /\ UNCHANGED <<lockVars, serverVars, wire, pc, peer, dev, snap, historyVars>>

\* Once the extra sessions are gone: get_pre_key and a session for each missing
\* device.
CreateMissing(t, d) ==
    /\ pc[t] = "repair"
    /\ task[t].extra = {}
    /\ d \in task[t].missing
    /\ srv[peer[t]][d] # 0
    /\ BuildSession(peer[t], d, srv[peer[t]][d])
    /\ Update(t, [task[t] EXCEPT !.missing = @ \ {d}])
    /\ UNCHANGED <<lockVars, serverVars, wire, pc, peer, dev, snap, historyVars>>

\* The missing device is gone by now: get_pre_key fails and ends the call.
MissingGone(t, d) ==
    /\ pc[t] = "repair"
    /\ task[t].extra = {}
    /\ d \in task[t].missing
    /\ srv[peer[t]][d] = 0
    /\ Finish(t, "ServiceError")
    /\ UNCHANGED <<waiters, storeVars, serverVars, wire, peer, dev, snap, historyVars>>

Repaired(t) ==
    /\ pc[t] = "repair"
    /\ task[t].extra = {}
    /\ task[t].missing = {}
    /\ Retry(t, task[t])
    /\ UNCHANGED <<waiters, storeVars, serverVars, wire, peer, dev, snap, historyVars>>

-----------------------------------------------------------------------------
(* Decrypting one envelope *)

\* ServiceCipher::decrypt of an envelope from device d of p; a sealed one takes
\* the lock once the sender certificate has named p.  This device's own sealed
\* messages are refused before that (SealedSenderSelfSend), and the server does
\* not deliver an unsealed one to the device it comes from.
StartDecrypt(t, p, d) ==
    /\ pc[t] = "idle"
    /\ d \notin SenderDevice(p)
    /\ Goto(t, "lock")
    /\ peer' = [peer EXCEPT ![t] = p]
    /\ dev' = [dev EXCEPT ![t] = d]
    /\ Enqueue(t, p)
    /\ UNCHANGED <<lock, storeVars, serverVars, wire, snap, task, historyVars>>

\* Mutant: decryption goes ahead without the lock.
DecryptUnlocked(t) ==
    /\ pc[t] = "lock"
    /\ waiters' = [waiters EXCEPT ![peer[t]] = SelectSeq(@, LAMBDA u : u # t)]
    /\ Goto(t, "decrypt")
    /\ UNCHANGED <<lock, storeVars, serverVars, wire, peer, dev, snap, task, historyVars>>

AcquireDecrypt(t) ==
    /\ Acquire(t, "decrypt")
    /\ UNCHANGED <<storeVars, serverVars, wire, peer, dev, snap, task, historyVars>>

\* message_decrypt_signal and message_decrypt_prekey load the record first.
LoadDecrypt(t) ==
    /\ pc[t] = "decrypt"
    /\ snap' = [snap EXCEPT ![t] = sessions[peer[t]][dev[t]]]
    /\ Goto(t, "write")
    /\ UNCHANGED <<lockVars, storeVars, serverVars, wire, peer, dev, task, historyVars>>

\* What every end of a decryption leaves alone.
DecryptEnds(t, r) ==
    /\ pc[t] = "write"
    /\ Finish(t, r)
    /\ snap' = [snap EXCEPT ![t] = NoSession]
    /\ UNCHANGED <<waiters, serverVars, wire, peer, dev, historyVars>>

\* A prekey message: a new session, with whatever registration id the sender
\* had when it wrote the message.
DecryptPreKeyMessage(t, reg) ==
    /\ DecryptEnds(t, "Ok")
    /\ BuildSession(peer[t], dev[t], reg)

\* A message on the receiving chain the record already has: the loaded record
\* is written back, its session confirmed, its sending chain untouched.
DecryptSameChain(t) ==
    /\ DecryptEnds(t, "Ok")
    /\ snap[t] # NoSession
    /\ sessions' = [sessions EXCEPT ![peer[t]][dev[t]] = [snap[t] EXCEPT !.usable = TRUE]]
    /\ UNCHANGED <<chains, used>>

\* A message with a new ratchet key: the loaded record's session gets a new
\* sending chain.
DecryptNewChain(t) ==
    /\ DecryptEnds(t, "Ok")
    /\ snap[t] # NoSession
    /\ BuildSession(peer[t], dev[t], snap[t].reg)

\* No session, a duplicate, a bad MAC...: nothing is stored.
DecryptFails(t) ==
    /\ DecryptEnds(t, "ProtocolError")
    /\ UNCHANGED storeVars

-----------------------------------------------------------------------------
(* Errors and dropped futures *)

\* The errors that `?` passes on, by the step whose call they come from.
Errors(t) ==
    CASE pc[t] \in {"enumerate", "ensure", "process", "load", "store"} -> {"ProtocolError"}
      [] pc[t] = "fetch" -> {"ServiceError"}
      [] pc[t] = "repair" -> {"ProtocolError", "ServiceError", "UntrustedIdentity"}
      [] pc[t] = "device" /\ task[t].todo = {} /\ task[t].msgs # {} ->
             {"ProtocolError", "UntrustedIdentity"}
      [] OTHER -> {}

\* The store, libsignal or a request for keys fails, or the identity of the
\* primary device is not in the store: the call ends, half done.
Fail(t, r) ==
    /\ r \in Errors(t)
    /\ Finish(t, r)
    /\ snap' = [snap EXCEPT ![t] = NoSession]
    /\ UNCHANGED <<waiters, storeVars, serverVars, wire, peer, dev, historyVars>>

\* The caller drops the future at one of its awaits (a timeout, an aborted
\* task).  What it posted stays on the wire.
DropWorking(t) ==
    /\ pc[t] \in Holding
    /\ Finish(t, "Dropped")
    /\ snap' = [snap EXCEPT ![t] = NoSession]
    /\ UNCHANGED <<waiters, storeVars, serverVars, wire, peer, dev, historyVars>>

\* Mutant: a dropped waiter keeps its place in the queue.
DropWaitingQueued(t) ==
    /\ pc[t] = "lock"
    /\ Finish(t, "Dropped")
    /\ UNCHANGED <<waiters, storeVars, serverVars, wire, peer, dev, snap, historyVars>>

\* ... also while it is queued for the lock.
DropWaiting(t) ==
    /\ pc[t] = "lock"
    /\ \E i \in DOMAIN waiters[peer[t]] :
          /\ waiters[peer[t]][i] = t
          /\ waiters' = [waiters EXCEPT ![peer[t]] = RemoveAt(@, i)]
    /\ Finish(t, "Dropped")
    /\ UNCHANGED <<storeVars, serverVars, wire, peer, dev, snap, historyVars>>

-----------------------------------------------------------------------------
(* External: the accounts' devices change *)

\* Registration ids are never reused: 1 and 2 are for the initial states.
FreshReg == changes + 3

ChangeDevices(p, regs) ==
    /\ changes < MaxChanges
    /\ changes' = changes + 1
    /\ srv' = [srv EXCEPT ![p] = regs]
    /\ task' = [t \in Tasks |-> IF peer[t] = p /\ pc[t] # "done"
                                  THEN [task[t] EXCEPT !.quiet = FALSE]
                                  ELSE task[t]]
    /\ UNCHANGED <<lockVars, storeVars, wire, pc, peer, dev, snap, historyVars>>

\* This device and its account stay what they are.  The devices listed under the
\* account's two ids change one id at a time, which the server need not allow.
Foreign(p, d) == d \notin SenderDevice(p)

LinkDevice(p, d) ==
    /\ d # DEFAULT_DEVICE_ID
    /\ Foreign(p, d)
    /\ srv[p][DEFAULT_DEVICE_ID] # 0
    /\ srv[p][d] = 0
    /\ ChangeDevices(p, [srv[p] EXCEPT ![d] = FreshReg])

UnlinkDevice(p, d) ==
    /\ d # DEFAULT_DEVICE_ID
    /\ Foreign(p, d)
    /\ srv[p][d] # 0
    /\ ChangeDevices(p, [srv[p] EXCEPT ![d] = 0])

Register(p) ==
    /\ p \notin OwnIds
    /\ ChangeDevices(p, [d \in Devices |-> IF d = DEFAULT_DEVICE_ID THEN FreshReg ELSE 0])

Unregister(p) ==
    /\ p \notin OwnIds
    /\ srv[p][DEFAULT_DEVICE_ID] # 0
    /\ ChangeDevices(p, [d \in Devices |-> 0])

-----------------------------------------------------------------------------

\* create_encrypted_message, which pnp_initialize_devices calls too.
EncryptStep(t) ==
    \/ EnsureSession(t)
    \/ \E D \in SUBSET Devices : FetchPreKeys(t, D)
    \/ PreKeysNotFound(t)
    \/ \E b \in task[t].bundles : ProcessBundle(t, b)
    \/ BundlesProcessed(t)
    \/ LoadUsable(t)
    \/ StoreRatchet(t)

AnswerStep(t) ==
    \/ AnswerOk(t)
    \/ AnswerUnauthorized(t)
    \/ AnswerMismatched(t)
    \/ AnswerStale(t)
    \/ AnswerUnregistered(t)
    \/ \E r \in Results : AnswerRefused(t, r)
    \/ AnswerLost(t)

RepairStep(t) ==
    \/ \E d \in Devices : DropExtra(t, d) \/ CreateMissing(t, d) \/ MissingGone(t, d)
    \/ Repaired(t)

\* What a sender does once it has been started, the lock apart.
SendStep(t) ==
    \/ EnumerateDevices(t)
    \/ \E d \in Devices : NextDevice(t, d)
    \/ EncryptStep(t)
    \/ LoadPlaintext(t)
    \/ DropCorruptSession(t)
    \/ NoMessagesToSend(t)
    \/ Post(t)
    \/ AnswerStep(t)
    \/ RepairStep(t)

DecryptStep(t) ==
    \/ LoadDecrypt(t)
    \/ \E reg \in 1 .. FreshReg - 1 : DecryptPreKeyMessage(t, reg)
    \/ DecryptSameChain(t)
    \/ DecryptNewChain(t)
    \/ DecryptFails(t)

ServerStep ==
    \/ \E t \in Senders : LateArrival(t)
    \/ \E p \in Peers, d \in Devices : LinkDevice(p, d) \/ UnlinkDevice(p, d)
    \/ \E p \in Peers : Register(p) \/ Unregister(p)

\* Every task has ended: nothing is left to do.
Terminated ==
    /\ \A t \in Tasks : pc[t] = "done"
    /\ UNCHANGED vars

SenderNext(t) ==
    \/ \E c \in Calls : StartSend(t, c)
    \/ AcquireSend(t)
    \/ SendStep(t)

ReceiverNext(t) ==
    \/ \E p \in Peers, d \in Devices : StartDecrypt(t, p, d)
    \/ AcquireDecrypt(t)
    \/ DecryptStep(t)

EarlyEnd(t) ==
    \/ \E r \in Results : Fail(t, r)
    \/ DropWorking(t)
    \/ DropWaiting(t)

Next ==
    \/ \E t \in Senders : SenderNext(t)
    \/ \E t \in Receivers : ReceiverNext(t)
    \/ \E t \in Tasks : EarlyEnd(t)
    \/ ServerStep
    \/ Terminated

Spec == Init /\ [][Next]_vars

\* An executor polls every task that can go on, tokio's mutex is granted in
\* order, and a request is answered or fails (the websocket's keepalive sees
\* to that).  Nobody need call, drop or re-register anything.
Fairness ==
    /\ \A t \in Senders : WF_vars(AcquireSend(t)) /\ WF_vars(SendStep(t))
    /\ \A t \in Receivers : WF_vars(AcquireDecrypt(t)) /\ WF_vars(DecryptStep(t))

FairSpec == Spec /\ Fairness

-----------------------------------------------------------------------------
(* Properties *)

\* try_send_content's repairs stick: a device and registration id the server
\* called extra or stale are not posted again by the same call.
RepairSticks ==
    \A t \in Senders :
        pc[t] = "posted" => task[t].msgs \cap task[t].rejected = {}

\* Four attempts are enough to repair any set of stale, extra, missing and
\* corrupt sessions, unless the peer's devices change meanwhile, the server has
\* no keys for one of them, or a sealed attempt is spent on a 401.
RetriesSuffice ==
    \A t \in Senders :
        task[t].result = "MaximumRetriesLimitExceeded" => ~task[t].quiet

\* Retrying never makes the server accept one call's message twice, whether
\* an answer was lost, the caller gave up or sessions had to be repaired.
AtMostOnce ==
    \A p \in Peers : \A i, j \in DOMAIN delivered[p] :
        delivered[p][i] = delivered[p][j] => i = j

\* try_send_content holds the lock across the wire send, "which keeps
\* deliveries to one peer in order": a message that was called for earlier is
\* accepted later only if its caller no longer waited for the answer.
DeliveryInOrder ==
    \A p \in Peers : \A i, j \in DOMAIN order[p] : \A k, l \in DOMAIN delivered[p] :
        /\ i < j /\ l < k
        /\ delivered[p][k] = order[p][i]
        /\ delivered[p][l] = order[p][j]
        => task[order[p][i]].result \in {"ServiceError", "Dropped"}

\* No path of sending or receiving ever builds a session with this very device
\* under the ACI, where sync messages go (create_encrypted_message: "not
\* establishing a session with myself!").
NoSessionWithSelf == sessions[Self][OwnDevice] = NoSession

\* create_encrypted_messages: "never try to send messages to the sender device".
\* Whatever sessions there are, no message key is spent on this device, under
\* the ACI or the PNI, in any attempt of any call.
NothingForSelf ==
    \A k \in used : k.peer \in OwnIds => k.dev # OwnDevice

\* The locked load-ratchet-store cycles behave as atomic steps.
SessionsAreAtomic == Abs!AbsSpec

\* Every send and every decryption that queues for a peer's lock gets it and
\* comes to an end, whatever becomes of the others in the queue.
EveryCallEnds ==
    \A t \in Tasks : pc[t] = "lock" ~> pc[t] = "done"

\* The error NotFound, "Recipient not found", is only given when the account
\* is not registered.
NotFoundIsUnregistered ==
    [][\A t \in Senders :
         task'[t].result = "NotFound" /\ task[t].result # "NotFound"
           => srv[peer[t]][DEFAULT_DEVICE_ID] = 0]_vars
=============================================================================
