------------------------- MODULE MessageSenderProofs -------------------------
(***************************************************************************)
(* Proofs about MessageSender, for any peers, devices, tasks and calls.    *)
(***************************************************************************)
EXTENDS MessageSender, SequenceTheorems, TLAPS

-----------------------------------------------------------------------------
(* Types *)

\* The values a task works with have their types.
LEMMA TaskTypes ==
    ASSUME TypeOK, NEW t \in Tasks
    PROVE  /\ task[t] \in Locals
           /\ peer[t] \in Peers
           /\ dev[t] \in Devices
           /\ snap[t] \in Session
           /\ sessions[peer[t]][dev[t]] \in Session
BY DEF TypeOK

\* An update of a task's locals keeps the type of all.
LEMMA UpdateTypes ==
    ASSUME TypeOK, NEW t \in Tasks, NEW x \in Locals, Update(t, x)
    PROVE  task' \in [Tasks -> Locals]
BY DEF TypeOK, Update

\* The locals a call of try_send_content starts with are typed.
LEMMA NoLocalsType == NoLocals \in Locals
BY DEF NoLocals, Locals, Contents, Results, MaxAttempts

\* A missing record, load_session's None, is typed like a record.
LEMMA NoSessionType == NoSession \in Session
BY DEF NoSession, Session, Abs!NoSession, Abs!Session

\* A task's end keeps the types of what it changes.
LEMMA FinishTypes ==
    ASSUME TypeOK, NEW t \in Tasks, NEW r \in Results, Finish(t, r)
    PROVE  /\ pc' \in [Tasks -> PCs]
           /\ lock' \in [Peers -> Tasks \cup {None}]
           /\ task' \in [Tasks -> Locals]
<1> DEFINE new == [NoLocals EXCEPT
                    !.result = r, !.attempt = task[t].attempt,
                    !.msgs = IF pc[t] = "posted" THEN task[t].msgs ELSE {},
                    !.rejected = task[t].rejected,
                    !.quiet = /\ task[t].quiet
                              /\ pc[t] = "posted" => r # "MaximumRetriesLimitExceeded"]
<1>1. new \in Locals
  BY TaskTypes, NoLocalsType DEF Locals
<1>2. Update(t, new)
  BY DEF Finish
<1>3. task' \in [Tasks -> Locals]
  BY <1>1, <1>2, UpdateTypes
<1>4. pc' \in [Tasks -> PCs]
  BY DEF Finish, Goto, PCs, TypeOK
<1>5. lock' \in [Peers -> Tasks \cup {None}]
  BY DEF Finish, Release, TypeOK
<1> QED BY <1>3, <1>4, <1>5

\* A built session and a deleted one keep the types of the store.
LEMMA BuildTypes ==
    ASSUME TypeOK, NEW p \in Peers, NEW d \in Devices, NEW reg \in Nat,
           BuildSession(p, d, reg)
    PROVE  /\ sessions' \in [Peers -> [Devices -> Session]]
           /\ chains' \in [Peers -> [Devices -> Nat]]
           /\ used' \subseteq Abs!MessageKey
<1>1. chains[p][d] \in Nat
  BY DEF TypeOK
<1>2. [chain |-> chains[p][d] + 1, snd |-> 0, reg |-> reg, usable |-> TRUE] \in Session
  BY <1>1 DEF Session, Abs!Session
<1> QED BY <1>1, <1>2 DEF BuildSession, TypeOK

\* A deletion (delete_session) keeps the types of the store.
LEMMA DeleteTypes ==
    ASSUME TypeOK, NEW p \in Peers, NEW d \in Devices, DeleteSession(p, d)
    PROVE  /\ sessions' \in [Peers -> [Devices -> Session]]
           /\ chains' \in [Peers -> [Devices -> Nat]]
           /\ used' \subseteq Abs!MessageKey
BY NoSessionType DEF DeleteSession, TypeOK

\* What a message says of its target is typed.
LEMMA TargetTypes ==
    ASSUME NEW d \in Devices, NEW s \in Session
    PROVE  [dev |-> d, reg |-> s.reg] \in Target
BY DEF Target, Session, Abs!Session

\* The steps of create_encrypted_message keep the types.
LEMMA EncryptTypes ==
    ASSUME TypeOK, NEW t \in Senders, EncryptStep(t)
    PROVE  TypeOK'
<1> USE ConstantsAssumption DEF lockVars, storeVars, serverVars, historyVars
<1>0. t \in Tasks /\ task[t] \in Locals /\ peer[t] \in Peers /\ dev[t] \in Devices
  BY TaskTypes DEF Tasks
<1>1. CASE EnsureSession(t)
  BY <1>1 DEF EnsureSession, TypeOK, Goto, PCs
<1>2. ASSUME NEW D \in SUBSET Devices, FetchPreKeys(t, D)
      PROVE  TypeOK'
  <2> DEFINE x == [task[t] EXCEPT !.bundles = Bundles(peer[t], D),
                                  !.quiet = @ /\ D = KeysAsked(peer[t], dev[t])]
  <2>1. Bundles(peer[t], D) \subseteq Target
    BY <1>0 DEF Bundles, Target, TypeOK
  <2>2. (task[t].quiet /\ D = KeysAsked(peer[t], dev[t])) \in BOOLEAN
    OBVIOUS
  <2>3. x \in Locals
    BY <1>0, <2>1, <2>2 DEF Locals
  <2>4. task' \in [Tasks -> Locals]
    BY <1>0, <1>2, <2>3, UpdateTypes DEF FetchPreKeys
  <2> QED BY <1>2, <2>4 DEF FetchPreKeys, TypeOK, Goto, PCs
<1>3. CASE PreKeysNotFound(t)
  BY <1>0, <1>3, FinishTypes DEF PreKeysNotFound, TypeOK, Results
<1>4. ASSUME NEW b \in task[t].bundles, ProcessBundle(t, b)
      PROVE  TypeOK'
  <2> DEFINE x == [task[t] EXCEPT !.bundles = @ \ {b}]
  <2>1. x \in Locals
    BY <1>0 DEF Locals
  <2>2. task' \in [Tasks -> Locals]
    BY <1>0, <1>4, <2>1, UpdateTypes DEF ProcessBundle
  <2>3. b \in Target
    BY <1>0 DEF Locals
  <2>4. b.dev \in Devices /\ b.reg \in Nat
    BY <2>3 DEF Target
  <2>5. /\ sessions' \in [Peers -> [Devices -> Session]]
        /\ chains' \in [Peers -> [Devices -> Nat]]
        /\ used' \subseteq Abs!MessageKey
    BY <1>0, <1>4, <2>4, BuildTypes DEF ProcessBundle, TypeOK
  <2> QED BY <1>4, <2>2, <2>5 DEF ProcessBundle, TypeOK
<1>5. CASE BundlesProcessed(t)
  BY <1>5 DEF BundlesProcessed, TypeOK, Goto, PCs
<1>6. CASE LoadUsable(t)
  BY <1>0, <1>6, TaskTypes DEF LoadUsable, TypeOK, Goto, PCs
<1>7. CASE StoreRatchet(t)
  <2> DEFINE x == [task[t] EXCEPT !.msgs = @ \cup {[dev |-> dev[t], reg |-> snap[t].reg]}]
             k == [peer |-> peer[t], dev |-> dev[t], chain |-> snap[t].chain,
                   idx |-> snap[t].snd, by |-> <<t, task[t].attempt>>]
  <2>1. snap[t] \in Session
    BY <1>0, TaskTypes
  <2>2. [dev |-> dev[t], reg |-> snap[t].reg] \in Target
    BY <1>0, <2>1, TargetTypes
  <2>3. x \in Locals
    BY <1>0, <2>2 DEF Locals
  <2>4. task' \in [Tasks -> Locals]
    BY <1>0, <1>7, <2>3, UpdateTypes DEF StoreRatchet
  <2>5. snap[t].chain \in Nat /\ snap[t].snd \in Nat
    BY <2>1 DEF Session, Abs!Session
  <2>6. task[t].attempt \in 1 .. MaxAttempts
    BY <1>0 DEF Locals
  <2>7. <<t, task[t].attempt>> \in Tokens
    BY <1>0, <2>6 DEF Tokens
  <2>8. k \in Abs!MessageKey
    BY <1>0, <2>5, <2>7 DEF Abs!MessageKey
  <2>9. used' \subseteq Abs!MessageKey
    BY <1>7, <2>8 DEF StoreRatchet, TypeOK
  <2>10. [snap[t] EXCEPT !.snd = @ + 1] \in Session
    BY <2>1 DEF Session, Abs!Session
  <2>11. sessions' \in [Peers -> [Devices -> Session]]
    BY <1>0, <1>7, <2>10 DEF StoreRatchet, TypeOK
  <2> QED BY <1>7, <2>4, <2>9, <2>11, NoSessionType DEF StoreRatchet, TypeOK, Goto, PCs
<1> QED BY <1>1, <1>2, <1>3, <1>4, <1>5, <1>6, <1>7 DEF EncryptStep

\* A further attempt, or the end of the last one, keeps the types.
LEMMA RetryTypes ==
    ASSUME TypeOK, NEW t \in Tasks, NEW x \in Locals, x.attempt = task[t].attempt,
           Retry(t, x)
    PROVE  /\ pc' \in [Tasks -> PCs]
           /\ lock' \in [Peers -> Tasks \cup {None}]
           /\ task' \in [Tasks -> Locals]
<1>1. CASE task[t].attempt < MaxAttempts
  <2>1. x.attempt \in 1 .. MaxAttempts
    BY DEF Locals
  <2>2. x.attempt + 1 \in 1 .. MaxAttempts
    BY <1>1, <2>1 DEF MaxAttempts
  <2>3. [x EXCEPT !.attempt = @ + 1] \in Locals
    BY <2>2 DEF Locals
  <2>4. task' \in [Tasks -> Locals]
    BY <1>1, <2>3, UpdateTypes DEF Retry
  <2> QED BY <1>1, <2>4 DEF Retry, TypeOK, Goto, PCs
<1>2. CASE ~(task[t].attempt < MaxAttempts)
  <2>1. "MaximumRetriesLimitExceeded" \in Results
    BY DEF Results
  <2> QED BY <1>2, <2>1, FinishTypes DEF Retry
<1> QED BY <1>1, <1>2

\* Posting the messages and handling the answer keep the types.
LEMMA AnswerTypes ==
    ASSUME TypeOK, NEW t \in Senders, AnswerStep(t)
    PROVE  TypeOK'
<1> USE ConstantsAssumption DEF lockVars, storeVars, serverVars, historyVars
<1>0. t \in Tasks /\ task[t] \in Locals /\ peer[t] \in Peers /\ dev[t] \in Devices
  BY TaskTypes DEF Tasks
<1>1. CASE AnswerOk(t)
  <2>1. delivered' \in [Peers -> Seq(Senders)]
    BY <1>0, <1>1 DEF AnswerOk, Accept, TypeOK
  <2> QED BY <1>0, <1>1, <2>1, FinishTypes DEF AnswerOk, TypeOK, Results
<1>2. CASE AnswerUnauthorized(t)
  <2> DEFINE x == [task[t] EXCEPT !.sealed = FALSE, !.quiet = FALSE]
  <2>1. x \in Locals /\ x.attempt = task[t].attempt
    BY <1>0 DEF Locals
  <2>2. Retry(t, x)
    BY <1>2 DEF AnswerUnauthorized
  <2> HIDE DEF x
  <2>3. /\ pc' \in [Tasks -> PCs]
        /\ lock' \in [Peers -> Tasks \cup {None}]
        /\ task' \in [Tasks -> Locals]
    BY <1>0, <2>1, <2>2, RetryTypes
  <2> QED BY <1>2, <2>3 DEF AnswerUnauthorized, TypeOK
<1>3. CASE AnswerMismatched(t)
  <2> DEFINE x == [task[t] EXCEPT
                    !.extra = Addressed(t) \ Expected(t),
                    !.missing = Expected(t) \ Addressed(t),
                    !.rejected = @ \cup {m \in task[t].msgs : m.dev \notin Expected(t)}]
  <2>1. task[t].msgs \subseteq Target
    BY <1>0 DEF Locals
  <2>2. Addressed(t) \subseteq Devices /\ Expected(t) \subseteq Devices
    BY <2>1 DEF Addressed, Expected, Linked, Target
  <2>3. x \in Locals
    BY <1>0, <2>1, <2>2 DEF Locals
  <2>4. task' \in [Tasks -> Locals]
    BY <1>0, <1>3, <2>3, UpdateTypes DEF AnswerMismatched
  <2> QED BY <1>3, <2>4 DEF AnswerMismatched, TypeOK, Goto, PCs
<1>4. CASE AnswerStale(t)
  <2> DEFINE x == [task[t] EXCEPT !.extra = {m.dev : m \in Stale(t)},
                                  !.rejected = @ \cup Stale(t)]
  <2>1. Stale(t) \subseteq Target
    BY <1>0 DEF Stale, Locals
  <2>2. {m.dev : m \in Stale(t)} \subseteq Devices
    BY <2>1 DEF Target
  <2>3. x \in Locals
    BY <1>0, <2>1, <2>2 DEF Locals
  <2>4. task' \in [Tasks -> Locals]
    BY <1>0, <1>4, <2>3, UpdateTypes DEF AnswerStale
  <2> QED BY <1>4, <2>4 DEF AnswerStale, TypeOK, Goto, PCs
<1>5. CASE AnswerUnregistered(t)
  BY <1>0, <1>5, FinishTypes DEF AnswerUnregistered, TypeOK, Results
<1>6. ASSUME NEW r \in Results, AnswerRefused(t, r)
      PROVE  TypeOK'
  BY <1>0, <1>6, FinishTypes DEF AnswerRefused, TypeOK
<1>7. CASE AnswerLost(t)
  BY <1>0, <1>7, FinishTypes DEF AnswerLost, TypeOK, Results
<1> QED BY <1>1, <1>2, <1>3, <1>4, <1>5, <1>6, <1>7 DEF AnswerStep

\* The session repairs keep the types.
LEMMA RepairTypes ==
    ASSUME TypeOK, NEW t \in Senders, RepairStep(t)
    PROVE  TypeOK'
<1> USE ConstantsAssumption DEF lockVars, storeVars, serverVars, historyVars
<1>0. t \in Tasks /\ task[t] \in Locals /\ peer[t] \in Peers /\ dev[t] \in Devices
  BY TaskTypes DEF Tasks
<1>1. ASSUME NEW d \in Devices, DropExtra(t, d)
      PROVE  TypeOK'
  <2>1. [task[t] EXCEPT !.extra = @ \ {d}] \in Locals
    BY <1>0 DEF Locals
  <2>2. task' \in [Tasks -> Locals]
    BY <1>0, <1>1, <2>1, UpdateTypes DEF DropExtra
  <2> QED BY <1>0, <1>1, <2>2, DeleteTypes DEF DropExtra, TypeOK
<1>2. ASSUME NEW d \in Devices, CreateMissing(t, d)
      PROVE  TypeOK'
  <2>1. [task[t] EXCEPT !.missing = @ \ {d}] \in Locals
    BY <1>0 DEF Locals
  <2>2. task' \in [Tasks -> Locals]
    BY <1>0, <1>2, <2>1, UpdateTypes DEF CreateMissing
  <2>3. srv[peer[t]][d] \in Nat
    BY <1>0 DEF TypeOK
  <2>4. /\ sessions' \in [Peers -> [Devices -> Session]]
        /\ chains' \in [Peers -> [Devices -> Nat]]
        /\ used' \subseteq Abs!MessageKey
    BY <1>0, <1>2, <2>3, BuildTypes DEF CreateMissing
  <2> QED BY <1>2, <2>2, <2>4 DEF CreateMissing, TypeOK
<1>3. ASSUME NEW d \in Devices, MissingGone(t, d)
      PROVE  TypeOK'
  BY <1>0, <1>3, FinishTypes DEF MissingGone, TypeOK, Results
<1>4. CASE Repaired(t)
  BY <1>0, <1>4, RetryTypes DEF Repaired, TypeOK
<1> QED BY <1>1, <1>2, <1>3, <1>4 DEF RepairStep

\* Every step of a sender but the first two keeps the types.
LEMMA SendTypes ==
    ASSUME TypeOK, NEW t \in Senders, SendStep(t)
    PROVE  TypeOK'
<1> USE ConstantsAssumption DEF lockVars, storeVars, serverVars, historyVars
<1>0. t \in Tasks /\ task[t] \in Locals /\ peer[t] \in Peers /\ dev[t] \in Devices
  BY TaskTypes DEF Tasks
<1>1. CASE EnumerateDevices(t)
  <2> DEFINE D == (SubDevices(peer[t]) \cup {DEFAULT_DEVICE_ID}) \ SenderDevice(peer[t])
  <2>1. D \subseteq Devices
    BY DEF SubDevices
  <2>2. [task[t] EXCEPT !.todo = D, !.msgs = {}] \in Locals
    BY <1>0, <2>1 DEF Locals
  <2>3. task' \in [Tasks -> Locals]
    BY <1>0, <1>1, <2>2, UpdateTypes DEF EnumerateDevices
  <2> QED BY <1>1, <2>3 DEF EnumerateDevices, TypeOK, Goto, PCs
<1>2. ASSUME NEW d \in Devices, NextDevice(t, d)
      PROVE  TypeOK'
  <2>1. [task[t] EXCEPT !.todo = @ \ {d}, !.tries = 0] \in Locals
    BY <1>0 DEF Locals
  <2>2. task' \in [Tasks -> Locals]
    BY <1>0, <1>2, <2>1, UpdateTypes DEF NextDevice
  <2> QED BY <1>2, <2>2 DEF NextDevice, TypeOK, Goto, PCs
<1>3. CASE EncryptStep(t)
  BY <1>3, EncryptTypes
<1>4. CASE LoadPlaintext(t)
  <2> DEFINE m == [dev |-> dev[t], reg |-> sessions[peer[t]][dev[t]].reg]
  <2>1. m \in Target
    BY <1>0, TaskTypes, TargetTypes
  <2>2. [task[t] EXCEPT !.msgs = @ \cup {m}] \in Locals
    BY <1>0, <2>1 DEF Locals
  <2>3. task' \in [Tasks -> Locals]
    BY <1>0, <1>4, <2>2, UpdateTypes DEF LoadPlaintext
  <2> QED BY <1>4, <2>3 DEF LoadPlaintext, TypeOK, Goto, PCs
<1>5. CASE DropCorruptSession(t)
  <2>1. task[t].tries \in Nat
    BY <1>0 DEF Locals
  <2>2. [task[t] EXCEPT !.tries = @ + 1] \in Locals
    BY <1>0, <2>1 DEF Locals
  <2>3. task' \in [Tasks -> Locals]
    BY <1>0, <1>5, <2>2, UpdateTypes DEF DropCorruptSession
  <2> QED BY <1>0, <1>5, <2>3, DeleteTypes DEF DropCorruptSession, TypeOK, Goto, PCs
<1>6. CASE NoMessagesToSend(t)
  BY <1>0, <1>6, FinishTypes DEF NoMessagesToSend, TypeOK, Results
<1>7. CASE Post(t)
  BY <1>7 DEF Post, TypeOK, Goto, PCs
<1>8. CASE AnswerStep(t)
  BY <1>8, AnswerTypes
<1>9. CASE RepairStep(t)
  BY <1>9, RepairTypes
<1> QED BY <1>1, <1>2, <1>3, <1>4, <1>5, <1>6, <1>7, <1>8, <1>9 DEF SendStep

\* The steps of a decryption keep the types.
LEMMA DecryptTypes ==
    ASSUME TypeOK, NEW t \in Receivers, DecryptStep(t)
    PROVE  TypeOK'
<1> USE ConstantsAssumption DEF lockVars, storeVars, serverVars, historyVars
<1>0. /\ t \in Tasks /\ peer[t] \in Peers /\ dev[t] \in Devices /\ snap[t] \in Session
      /\ "Ok" \in Results /\ "ProtocolError" \in Results
  BY TaskTypes DEF Tasks, Results
<1>1. CASE LoadDecrypt(t)
  BY <1>0, <1>1, TaskTypes DEF LoadDecrypt, TypeOK, Goto, PCs
<1>2. ASSUME NEW reg \in 1 .. FreshReg - 1, DecryptPreKeyMessage(t, reg)
      PROVE  TypeOK'
  <2>1. reg \in Nat
    OBVIOUS
  <2> QED BY <1>0, <1>2, <2>1, FinishTypes, BuildTypes, NoSessionType
          DEF DecryptPreKeyMessage, DecryptEnds, TypeOK
<1>3. CASE DecryptSameChain(t)
  <2>1. [snap[t] EXCEPT !.usable = TRUE] \in Session
    BY <1>0 DEF Session, Abs!Session
  <2>2. sessions' \in [Peers -> [Devices -> Session]]
    BY <1>0, <1>3, <2>1 DEF DecryptSameChain, TypeOK
  <2> QED BY <1>0, <1>3, <2>2, FinishTypes, NoSessionType
          DEF DecryptSameChain, DecryptEnds, TypeOK
<1>4. CASE DecryptNewChain(t)
  <2>1. snap[t].reg \in Nat
    BY <1>0 DEF Session, Abs!Session
  <2> QED BY <1>0, <1>4, <2>1, FinishTypes, BuildTypes, NoSessionType
          DEF DecryptNewChain, DecryptEnds, TypeOK
<1>5. CASE DecryptFails(t)
  BY <1>0, <1>5, FinishTypes, NoSessionType DEF DecryptFails, DecryptEnds, TypeOK
<1> QED BY <1>1, <1>2, <1>3, <1>4, <1>5 DEF DecryptStep

\* A task joins the queue.
LEMMA EnqueueTypes ==
    ASSUME TypeOK, NEW t \in Tasks, NEW p \in Peers, Enqueue(t, p)
    PROVE  waiters' \in [Peers -> Seq(Tasks)]
<1>1. Append(waiters[p], t) \in Seq(Tasks)
  BY DEF TypeOK
<1> QED BY <1>1 DEF Enqueue, TypeOK

\* Queueing for a lock and taking it keep the types.
LEMMA StartTypes ==
    ASSUME TypeOK
    PROVE  /\ \A t \in Senders : (\E c \in Calls : StartSend(t, c)) \/ AcquireSend(t)
                 => TypeOK'
           /\ \A t \in Receivers :
                 (\E p \in Peers, d \in Devices : StartDecrypt(t, p, d)) \/ AcquireDecrypt(t)
                 => TypeOK'
<1> USE ConstantsAssumption DEF lockVars, storeVars, serverVars, historyVars
<1>1. ASSUME NEW t \in Senders, NEW c \in Calls, StartSend(t, c)
      PROVE  TypeOK'
  <2>1. t \in Tasks /\ c.peer \in Peers /\ c.content \in Contents /\ c.sealed \in BOOLEAN
    BY DEF Tasks
  <2>2. [NoLocals EXCEPT !.content = c.content, !.sealed = c.sealed] \in Locals
    BY <2>1, NoLocalsType DEF Locals
  <2>3. task' \in [Tasks -> Locals]
    BY <1>1, <2>1, <2>2, UpdateTypes DEF StartSend
  <2>4. waiters' \in [Peers -> Seq(Tasks)]
    BY <1>1, <2>1, EnqueueTypes DEF StartSend
  <2>5. Append(order[c.peer], t) \in Seq(Senders)
    BY <2>1 DEF TypeOK
  <2>6. order' \in [Peers -> Seq(Senders)]
    BY <1>1, <2>1, <2>5 DEF StartSend, TypeOK
  <2> QED BY <1>1, <2>1, <2>3, <2>4, <2>6 DEF StartSend, TypeOK, Goto, PCs
<1>2. ASSUME NEW t \in Tasks, NEW l \in PCs, Acquire(t, l)
      PROVE  /\ lock' \in [Peers -> Tasks \cup {None}]
             /\ waiters' \in [Peers -> Seq(Tasks)]
             /\ pc' \in [Tasks -> PCs]
  <2>1. waiters[peer[t]] \in Seq(Tasks) /\ waiters[peer[t]] # <<>> /\ peer[t] \in Peers
    BY <1>2, TaskTypes DEF Acquire, TypeOK
  <2>2. Tail(waiters[peer[t]]) \in Seq(Tasks)
    BY <2>1
  <2>3. waiters' \in [Peers -> Seq(Tasks)]
    BY <1>2, <2>2 DEF Acquire, TypeOK
  <2> QED BY <1>2, <2>1, <2>3 DEF Acquire, TypeOK, Goto
<1>3. ASSUME NEW t \in Senders, AcquireSend(t)
      PROVE  TypeOK'
  <2>1. t \in Tasks /\ "enumerate" \in PCs
    BY DEF Tasks, PCs
  <2> QED BY <1>2, <1>3, <2>1 DEF AcquireSend, TypeOK
<1>4. ASSUME NEW t \in Receivers, NEW p \in Peers, NEW d \in Devices, StartDecrypt(t, p, d)
      PROVE  TypeOK'
  <2>1. t \in Tasks
    BY DEF Tasks
  <2>2. waiters' \in [Peers -> Seq(Tasks)]
    BY <1>4, <2>1, EnqueueTypes DEF StartDecrypt
  <2> QED BY <1>4, <2>1, <2>2 DEF StartDecrypt, TypeOK, Goto, PCs
<1>5. ASSUME NEW t \in Receivers, AcquireDecrypt(t)
      PROVE  TypeOK'
  <2>1. t \in Tasks /\ "decrypt" \in PCs
    BY DEF Tasks, PCs
  <2> QED BY <1>2, <1>5, <2>1 DEF AcquireDecrypt, TypeOK
<1> QED BY <1>1, <1>3, <1>4, <1>5

\* Errors and dropped futures keep the types.
LEMMA EarlyEndTypes ==
    ASSUME TypeOK, NEW t \in Tasks, EarlyEnd(t)
    PROVE  TypeOK'
<1> USE ConstantsAssumption DEF lockVars, storeVars, serverVars, historyVars
<1>0. "Dropped" \in Results
  BY DEF Results
<1>1. ASSUME NEW r \in Results, Fail(t, r)
      PROVE  TypeOK'
  BY <1>1, FinishTypes, NoSessionType DEF Fail, TypeOK
<1>2. CASE DropWorking(t)
  BY <1>0, <1>2, FinishTypes, NoSessionType DEF DropWorking, TypeOK
<1>3. CASE DropWaiting(t)
  <2>1. PICK i \in DOMAIN waiters[peer[t]] :
           waiters' = [waiters EXCEPT ![peer[t]] = RemoveAt(@, i)]
    BY <1>3 DEF DropWaiting
  <2>2. waiters[peer[t]] \in Seq(Tasks) /\ peer[t] \in Peers
    BY TaskTypes DEF TypeOK
  <2>3. RemoveAt(waiters[peer[t]], i) \in Seq(Tasks)
    BY <2>2 DEF RemoveAt
  <2>4. waiters' \in [Peers -> Seq(Tasks)]
    BY <2>1, <2>2, <2>3 DEF TypeOK
  <2> QED BY <1>0, <1>3, <2>4, FinishTypes DEF DropWaiting, TypeOK
<1> QED BY <1>1, <1>2, <1>3 DEF EarlyEnd

\* The server's steps keep the types.
LEMMA ServerTypes ==
    ASSUME TypeOK, ServerStep
    PROVE  TypeOK'
<1> USE ConstantsAssumption DEF lockVars, storeVars, serverVars, historyVars
<1>1. ASSUME NEW t \in Senders, LateArrival(t)
      PROVE  TypeOK'
  <2>1. t \in Tasks /\ task[t] \in Locals /\ peer[t] \in Peers
    BY TaskTypes DEF Tasks
  <2>2. [task[t] EXCEPT !.msgs = {}] \in Locals
    BY <2>1 DEF Locals
  <2>3. task' \in [Tasks -> Locals]
    BY <1>1, <2>1, <2>2, UpdateTypes DEF LateArrival
  <2>4. Append(delivered[peer[t]], t) \in Seq(Senders)
    BY <2>1 DEF TypeOK
  <2>5. delivered' \in [Peers -> Seq(Senders)]
    BY <1>1, <2>1, <2>4 DEF LateArrival, Accept, TypeOK
  <2> QED BY <1>1, <2>3, <2>5 DEF LateArrival, TypeOK
<1>2. ASSUME NEW p \in Peers, NEW regs \in [Devices -> Nat], ChangeDevices(p, regs)
      PROVE  TypeOK'
  <2>1. \A t \in Tasks : task[t] \in Locals /\ [task[t] EXCEPT !.quiet = FALSE] \in Locals
    BY TaskTypes DEF Locals
  <2>2. task' \in [Tasks -> Locals]
    BY <1>2, <2>1 DEF ChangeDevices
  <2>3. changes' \in 0 .. MaxChanges
    <3>1. changes \in 0 .. MaxChanges /\ MaxChanges \in Nat
      BY DEF TypeOK
    <3>2. changes < MaxChanges /\ changes' = changes + 1
      BY <1>2 DEF ChangeDevices
    <3> QED BY <3>1, <3>2
  <2>4. srv' \in [Peers -> [Devices -> Nat]]
    BY <1>2 DEF ChangeDevices, TypeOK
  <2> QED BY <1>2, <2>2, <2>3, <2>4 DEF ChangeDevices, TypeOK
<1>3. FreshReg \in Nat
  BY DEF FreshReg, TypeOK
<1>4. ASSUME NEW p \in Peers
      PROVE  /\ \A d \in Devices : [srv[p] EXCEPT ![d] = FreshReg] \in [Devices -> Nat]
             /\ \A d \in Devices : [srv[p] EXCEPT ![d] = 0] \in [Devices -> Nat]
             /\ [d \in Devices |-> IF d = DEFAULT_DEVICE_ID THEN FreshReg ELSE 0]
                    \in [Devices -> Nat]
             /\ [d \in Devices |-> 0] \in [Devices -> Nat]
  BY <1>3 DEF TypeOK
<1>5. ASSUME NEW p \in Peers, NEW d \in Devices, LinkDevice(p, d) \/ UnlinkDevice(p, d)
      PROVE  TypeOK'
  BY <1>2, <1>4, <1>5 DEF LinkDevice, UnlinkDevice
<1>6. ASSUME NEW p \in Peers, Register(p) \/ Unregister(p)
      PROVE  TypeOK'
  BY <1>2, <1>4, <1>6 DEF Register, Unregister
<1> QED BY <1>1, <1>5, <1>6 DEF ServerStep

\* The initial states are typed.
LEMMA InitTypes == Init => TypeOK
<1> SUFFICES ASSUME Init PROVE TypeOK
  OBVIOUS
<1> USE ConstantsAssumption
<1>1. PICK s \in Starts : sessions = s.sessions /\ srv = s.srv
  BY DEF Init
<1>2. sessions \in [Peers -> [Devices -> Session]] /\ srv \in [Peers -> [Devices -> Nat]]
  BY <1>1
<1>3. chains \in [Peers -> [Devices -> Nat]]
  BY <1>2 DEF Init, Session, Abs!Session
<1> QED BY <1>2, <1>3, NoLocalsType, NoSessionType DEF Init, TypeOK, PCs, Tasks

\* Every step of a sender, a receiver or the server keeps the types.
LEMMA NextTypes == TypeOK /\ [Next]_vars => TypeOK'
<1> SUFFICES ASSUME TypeOK, [Next]_vars PROVE TypeOK'
  OBVIOUS
<1>1. ASSUME NEW t \in Senders, SenderNext(t)
      PROVE  TypeOK'
  BY <1>1, StartTypes, SendTypes DEF SenderNext
<1>2. ASSUME NEW t \in Receivers, ReceiverNext(t)
      PROVE  TypeOK'
  BY <1>2, StartTypes, DecryptTypes DEF ReceiverNext
<1>3. CASE UNCHANGED vars
  BY <1>3 DEF vars, lockVars, storeVars, serverVars, historyVars, TypeOK
<1>4. CASE Terminated
  BY <1>3, <1>4 DEF Terminated
<1> QED BY <1>1, <1>2, <1>3, <1>4, EarlyEndTypes, ServerTypes DEF Next

\* Every variable of MessageSender keeps its type in every behaviour, for any
\* peers, devices, tasks, calls and initial sessions.
THEOREM TypeCorrect == Spec => []TypeOK
BY InitTypes, NextTypes, PTL DEF Spec

-----------------------------------------------------------------------------
(* The session lock makes the load-ratchet-store cycles atomic.  The         *)
(* invariant: a working task holds its peer's lock, so nobody else stores    *)
(* for that peer, so the record it loaded is still the stored one.           *)

LockHeld == \A t \in Tasks : pc[t] \in Holding => lock[peer[t]] = t

SnapCurrent ==
    \A t \in Tasks : pc[t] \in {"store", "write"} => snap[t] = sessions[peer[t]][dev[t]]

SnapUsable == \A t \in Tasks : pc[t] = "store" => snap[t].usable

\* A record with no sending chain is no record.
NoChainNoSession ==
    \A p \in Peers, d \in Devices : sessions[p][d].chain = 0 => sessions[p][d] = NoSession

LockInv == LockHeld /\ SnapCurrent /\ SnapUsable /\ NoChainNoSession

\* A step of task t that leaves the records of other peers alone, keeps t's
\* lock or ends t, and leaves t with what it loaded, keeps the invariant.
LEMMA LockInvStep ==
    ASSUME TypeOK, LockInv, NEW t \in Tasks, pc[t] \in Holding,
           \A u \in Tasks \ {t} : pc'[u] = pc[u] /\ snap'[u] = snap[u],
           \A u \in Tasks \ {t} : dev'[u] = dev[u],
           peer' = peer,
           \A p \in Peers \ {peer[t]} : sessions'[p] = sessions[p] /\ lock'[p] = lock[p],
           pc'[t] \in Holding => lock'[peer[t]] = t,
           pc'[t] \in {"store", "write"} => snap'[t] = sessions'[peer[t]][dev'[t]],
           pc'[t] = "store" => snap'[t].usable,
           NoChainNoSession'
    PROVE  LockInv'
<1>1. \A u \in Tasks \ {t} : pc[u] \in Holding => peer[u] # peer[t]
  BY DEF LockInv, LockHeld
<1>2. peer \in [Tasks -> Peers]
  BY DEF TypeOK
<1>3. {"store", "write"} \subseteq Holding
  BY DEF Holding, PCs
<1>4. LockHeld'
  BY <1>1, <1>2 DEF LockInv, LockHeld
<1>5. SnapCurrent'
  BY <1>1, <1>2, <1>3 DEF LockInv, SnapCurrent
<1>6. SnapUsable'
  BY DEF LockInv, SnapUsable
<1> QED BY <1>4, <1>5, <1>6 DEF LockInv

\* What a step may do to the store on behalf of peer p: nothing to the other
\* peers' records, and for the abstract specification one of its steps.
StoreOk(p) ==
    /\ \A q \in Peers \ {p} : sessions'[q] = sessions[q]
    /\ NoChainNoSession'
    /\ [Abs!AbsNext]_(Abs!absVars)

\* A step that leaves the store alone is a stutter of AtomicSessions.
LEMMA KeepStore ==
    ASSUME LockInv, NEW p \in Peers, UNCHANGED storeVars
    PROVE  StoreOk(p)
BY DEF StoreOk, LockInv, NoChainNoSession, storeVars, Abs!absVars

\* process_prekey_bundle starts a new chain: Rework of AtomicSessions.
LEMMA BuildStore ==
    ASSUME TypeOK, LockInv, NEW p \in Peers, NEW d \in Devices, NEW reg \in Nat,
           BuildSession(p, d, reg)
    PROVE  StoreOk(p)
<1>0. /\ sessions \in [Peers -> [Devices -> Session]]
      /\ chains \in [Peers -> [Devices -> Nat]]
      /\ chains[p][d] \in Nat
  BY DEF TypeOK
<1>1. /\ sessions' \in [Peers -> [Devices -> Session]]
      /\ chains' \in [Peers -> [Devices -> Nat]]
  BY BuildTypes
<1>2. /\ \A q \in Peers \ {p} : sessions'[q] = sessions[q] /\ chains'[q] = chains[q]
      /\ \A e \in Devices \ {d} : sessions'[p][e] = sessions[p][e] /\ chains'[p][e] = chains[p][e]
      /\ sessions'[p][d] = [chain |-> chains[p][d] + 1, snd |-> 0, reg |-> reg,
                            usable |-> TRUE]
      /\ chains'[p][d] = chains[p][d] + 1
      /\ used' = used
  BY <1>0 DEF BuildSession
<1>3. /\ sessions'[p][d].chain = chains'[p][d]
      /\ sessions'[p][d].snd = 0
      /\ sessions'[p][d].chain # 0
  BY <1>0, <1>2
<1>4. NoChainNoSession'
  BY <1>2, <1>3 DEF LockInv, NoChainNoSession
<1>5. \A e \in Devices : Abs!KeepChain(p, e) \/ Abs!NewChain(p, e)
  BY <1>2, <1>3 DEF Abs!KeepChain, Abs!NewChain
<1>6. Abs!Rework(p)
  BY <1>1, <1>2, <1>5 DEF Abs!Rework, Session
<1> QED BY <1>2, <1>4, <1>6 DEF StoreOk, Abs!AbsNext

\* delete_session removes a record: Rework of AtomicSessions.
LEMMA DeleteStore ==
    ASSUME TypeOK, LockInv, NEW p \in Peers, NEW d \in Devices, DeleteSession(p, d)
    PROVE  StoreOk(p)
<1>1. /\ sessions' \in [Peers -> [Devices -> Session]]
      /\ chains' \in [Peers -> [Devices -> Nat]]
  BY DeleteTypes
<1>2. /\ \A q \in Peers \ {p} : sessions'[q] = sessions[q]
      /\ \A e \in Devices \ {d} : sessions'[p][e] = sessions[p][e]
      /\ sessions'[p][d] = NoSession
      /\ chains' = chains /\ used' = used
  BY DEF DeleteSession, TypeOK
<1>3. NoChainNoSession'
  BY <1>2 DEF LockInv, NoChainNoSession
<1>4. \A e \in Devices : Abs!KeepChain(p, e) \/ Abs!Delete(p, e)
  BY <1>2 DEF Abs!KeepChain, Abs!Delete, NoSession
<1>5. Abs!Rework(p)
  BY <1>1, <1>2, <1>4 DEF Abs!Rework, Session
<1> QED BY <1>2, <1>3, <1>5 DEF StoreOk, Abs!AbsNext

\* What a step of a specification that is to refine AtomicSessions must show.
StepOk == LockInv' /\ [Abs!AbsNext]_(Abs!absVars)

\* A working task ends.
LEMMA EndStep ==
    ASSUME TypeOK, LockInv, NEW t \in Tasks, pc[t] \in Holding, NEW r, Finish(t, r),
           dev' = dev, peer' = peer,
           \A u \in Tasks \ {t} : snap'[u] = snap[u],
           StoreOk(peer[t])
    PROVE  StepOk
<1>1. pc'[t] = "done" /\ \A u \in Tasks \ {t} : pc'[u] = pc[u]
  BY DEF Finish, Goto, TypeOK
<1>2. \A p \in Peers \ {peer[t]} : lock'[p] = lock[p]
  BY DEF Finish, Release, TypeOK
<1>3. pc'[t] \notin Holding /\ pc'[t] \notin {"store", "write"}
  BY <1>1 DEF Holding
<1> QED BY <1>1, <1>2, <1>3, LockInvStep DEF StepOk, StoreOk

\* A working task goes on, holding its lock and nothing loaded.
LEMMA WorkStep ==
    ASSUME TypeOK, LockInv, NEW t \in Tasks, pc[t] \in Holding,
           NEW l \in Holding \ {"store", "write"},
           Goto(t, l), lock' = lock, peer' = peer,
           \A u \in Tasks \ {t} : dev'[u] = dev[u] /\ snap'[u] = snap[u],
           StoreOk(peer[t])
    PROVE  StepOk
<1>1. pc'[t] = l /\ \A u \in Tasks \ {t} : pc'[u] = pc[u]
  BY DEF Goto, TypeOK
<1>2. lock'[peer[t]] = t
  BY DEF LockInv, LockHeld
<1> QED BY <1>1, <1>2, LockInvStep DEF StepOk, StoreOk

\* The steps of create_encrypted_message keep the lock invariant and
\* implement AtomicSessions.
LEMMA EncryptStepOk ==
    ASSUME TypeOK, LockInv, NEW t \in Senders, EncryptStep(t)
    PROVE  StepOk
<1> USE DEF lockVars, storeVars, serverVars, historyVars
<1>0. t \in Tasks /\ peer[t] \in Peers /\ dev[t] \in Devices
  BY TaskTypes DEF Tasks
<1>1. CASE EnsureSession(t)
  <2>1. pc[t] \in Holding /\ {"fetch", "load"} \subseteq Holding \ {"store", "write"}
    BY <1>1 DEF EnsureSession, Holding, PCs
  <2> QED BY <1>0, <1>1, <2>1, KeepStore, WorkStep DEF EnsureSession
<1>2. ASSUME NEW D \in SUBSET Devices, FetchPreKeys(t, D)
      PROVE  StepOk
  <2>1. pc[t] \in Holding /\ "process" \in Holding \ {"store", "write"}
    BY <1>2 DEF FetchPreKeys, Holding, PCs
  <2> QED BY <1>0, <1>2, <2>1, KeepStore, WorkStep DEF FetchPreKeys
<1>3. CASE PreKeysNotFound(t)
  <2>1. pc[t] \in Holding
    BY <1>3 DEF PreKeysNotFound, Holding, PCs
  <2> QED BY <1>0, <1>3, <2>1, KeepStore, EndStep DEF PreKeysNotFound
<1>4. ASSUME NEW b \in task[t].bundles, ProcessBundle(t, b)
      PROVE  StepOk
  <2>1. pc[t] = "process" /\ "process" \in Holding \ {"store", "write"}
    BY <1>4 DEF ProcessBundle, Holding, PCs
  <2>2. Goto(t, "process")
    BY <1>4, <2>1 DEF ProcessBundle, Goto, TypeOK
  <2>3. task[t].bundles \subseteq Target
    BY <1>0, TaskTypes DEF Locals
  <2>4. b.dev \in Devices /\ b.reg \in Nat
    BY <2>3 DEF Target
  <2>5. StoreOk(peer[t])
    BY <1>0, <1>4, <2>4, KeepStore, BuildStore DEF ProcessBundle
  <2> QED BY <1>0, <1>4, <2>1, <2>2, <2>5, WorkStep DEF ProcessBundle
<1>5. CASE BundlesProcessed(t)
  <2>1. pc[t] \in Holding /\ "load" \in Holding \ {"store", "write"}
    BY <1>5 DEF BundlesProcessed, Holding, PCs
  <2> QED BY <1>0, <1>5, <2>1, KeepStore, WorkStep DEF BundlesProcessed
<1>6. CASE LoadUsable(t)
  <2>1. pc[t] \in Holding
    BY <1>6 DEF LoadUsable, Holding, PCs
  <2>2. /\ pc'[t] = "store" /\ \A u \in Tasks \ {t} : pc'[u] = pc[u]
        /\ snap'[t] = sessions[peer[t]][dev[t]] /\ \A u \in Tasks \ {t} : snap'[u] = snap[u]
    BY <1>0, <1>6 DEF LoadUsable, Goto, TypeOK
  <2>3. snap'[t].usable
    BY <1>6, <2>2 DEF LoadUsable
  <2>4. lock'[peer[t]] = t
    BY <1>0, <1>6, <2>1 DEF LoadUsable, LockInv, LockHeld
  <2>5. StoreOk(peer[t])
    BY <1>0, <1>6, KeepStore DEF LoadUsable
  <2>6. LockInv'
    BY <1>0, <1>6, <2>1, <2>2, <2>3, <2>4, <2>5, LockInvStep DEF LoadUsable, StoreOk
  <2> QED BY <2>5, <2>6 DEF StepOk, StoreOk
<1>7. CASE StoreRatchet(t)
  <2> DEFINE p == peer[t]
             d == dev[t]
  <2>1. pc[t] \in Holding /\ "device" \in Holding \ {"store", "write"}
    BY <1>7 DEF StoreRatchet, Holding, PCs
  <2>2. snap[t] = sessions[p][d] /\ snap[t].usable
    BY <1>0, <1>7 DEF StoreRatchet, LockInv, SnapCurrent, SnapUsable
  <2>3. sessions[p][d] \in Session /\ sessions[p][d].chain # 0
    BY <1>0, <2>2 DEF TypeOK, LockInv, NoChainNoSession, NoSession, Abs!NoSession
  <2>4. sessions' = [sessions EXCEPT ![p][d].snd = @ + 1]
    BY <1>0, <1>7, <2>2, <2>3 DEF StoreRatchet, TypeOK, Session, Abs!Session
  <2>5. <<t, task[t].attempt>> \in Tokens
    <3>1. task[t].attempt \in 1 .. MaxAttempts
      BY <1>0, TaskTypes DEF Locals
    <3> QED BY <1>0, <3>1 DEF Tokens
  <2>6. Abs!Encrypt(p, d, <<t, task[t].attempt>>)
    BY <1>7, <2>2, <2>3, <2>4 DEF StoreRatchet, Abs!Encrypt
  <2>7. Abs!AbsNext
    BY <1>0, <2>5, <2>6 DEF Abs!AbsNext
  <2>8. /\ \A q \in Peers \ {p} : sessions'[q] = sessions[q]
        /\ \A e \in Devices \ {d} : sessions'[p][e] = sessions[p][e]
        /\ sessions'[p][d] = [sessions[p][d] EXCEPT !.snd = @ + 1]
    BY <1>0, <2>4 DEF TypeOK
  <2>9. sessions'[p][d].chain # 0
    BY <2>3, <2>8 DEF Session, Abs!Session
  <2>10. NoChainNoSession'
    <3>1. \A q \in Peers, e \in Devices :
             sessions'[q][e] = sessions[q][e] \/ sessions'[q][e].chain # 0
      BY <2>8, <2>9, Zenon
    <3> QED BY <3>1 DEF LockInv, NoChainNoSession
  <2>11. StoreOk(peer[t])
    BY <2>7, <2>8, <2>10 DEF StoreOk
  <2> QED BY <1>0, <1>7, <2>1, <2>11, WorkStep DEF StoreRatchet, TypeOK
<1> QED BY <1>1, <1>2, <1>3, <1>4, <1>5, <1>6, <1>7 DEF EncryptStep

\* The next attempt keeps the lock, the end of the last gives it back.
LEMMA RetryStepOk ==
    ASSUME TypeOK, LockInv, NEW t \in Tasks, pc[t] \in Holding, NEW x, Retry(t, x),
           dev' = dev, peer' = peer, snap' = snap, UNCHANGED storeVars
    PROVE  StepOk
<1>1. StoreOk(peer[t])
  BY TaskTypes, KeepStore
<1>2. "enumerate" \in Holding \ {"store", "write"}
  BY DEF Holding, PCs
<1> QED BY <1>1, <1>2, EndStep, WorkStep DEF Retry

\* ... the answers of the server to a post do, ...
LEMMA AnswerStepOk ==
    ASSUME TypeOK, LockInv, NEW t \in Senders, AnswerStep(t)
    PROVE  StepOk
<1> USE DEF lockVars, storeVars, serverVars, historyVars
<1>0. t \in Tasks /\ peer[t] \in Peers /\ dev[t] \in Devices
  BY TaskTypes DEF Tasks
<1>1. CASE AnswerOk(t)
  <2>1. pc[t] \in Holding
    BY <1>1 DEF AnswerOk, Holding, PCs
  <2> QED BY <1>0, <1>1, <2>1, KeepStore, EndStep DEF AnswerOk
<1>2. CASE AnswerUnauthorized(t)
  <2>1. pc[t] \in Holding
    BY <1>2 DEF AnswerUnauthorized, Holding, PCs
  <2> QED BY <1>0, <1>2, <2>1, RetryStepOk DEF AnswerUnauthorized
<1>3. CASE AnswerMismatched(t)
  <2>1. pc[t] \in Holding /\ "repair" \in Holding \ {"store", "write"}
    BY <1>3 DEF AnswerMismatched, Holding, PCs
  <2> QED BY <1>0, <1>3, <2>1, KeepStore, WorkStep DEF AnswerMismatched
<1>4. CASE AnswerStale(t)
  <2>1. pc[t] \in Holding /\ "repair" \in Holding \ {"store", "write"}
    BY <1>4 DEF AnswerStale, Holding, PCs
  <2> QED BY <1>0, <1>4, <2>1, KeepStore, WorkStep DEF AnswerStale
<1>5. CASE AnswerUnregistered(t)
  <2>1. pc[t] \in Holding
    BY <1>5 DEF AnswerUnregistered, Holding, PCs
  <2> QED BY <1>0, <1>5, <2>1, KeepStore, EndStep DEF AnswerUnregistered
<1>6. ASSUME NEW r \in Results, AnswerRefused(t, r)
      PROVE  StepOk
  <2>1. pc[t] \in Holding
    BY <1>6 DEF AnswerRefused, Holding, PCs
  <2> QED BY <1>0, <1>6, <2>1, KeepStore, EndStep DEF AnswerRefused
<1>7. CASE AnswerLost(t)
  <2>1. pc[t] \in Holding
    BY <1>7 DEF AnswerLost, Holding, PCs
  <2> QED BY <1>0, <1>7, <2>1, KeepStore, EndStep DEF AnswerLost
<1> QED BY <1>1, <1>2, <1>3, <1>4, <1>5, <1>6, <1>7 DEF AnswerStep

\* ... the session repairs of try_send_content's retry loop do, ...
LEMMA RepairStepOk ==
    ASSUME TypeOK, LockInv, NEW t \in Senders, RepairStep(t)
    PROVE  StepOk
<1> USE DEF lockVars, storeVars, serverVars, historyVars
<1>0. t \in Tasks /\ peer[t] \in Peers /\ dev[t] \in Devices
  BY TaskTypes DEF Tasks
<1>1. ASSUME NEW d \in Devices, DropExtra(t, d)
      PROVE  StepOk
  <2>1. pc[t] = "repair" /\ "repair" \in Holding \ {"store", "write"}
    BY <1>1 DEF DropExtra, Holding, PCs
  <2>2. Goto(t, "repair")
    BY <1>1, <2>1 DEF DropExtra, Goto, TypeOK
  <2> QED BY <1>0, <1>1, <2>1, <2>2, DeleteStore, WorkStep DEF DropExtra
<1>2. ASSUME NEW d \in Devices, CreateMissing(t, d)
      PROVE  StepOk
  <2>1. pc[t] = "repair" /\ "repair" \in Holding \ {"store", "write"}
    BY <1>2 DEF CreateMissing, Holding, PCs
  <2>2. Goto(t, "repair")
    BY <1>2, <2>1 DEF CreateMissing, Goto, TypeOK
  <2>3. srv[peer[t]][d] \in Nat
    BY <1>0 DEF TypeOK
  <2>4. StoreOk(peer[t])
    BY <1>0, <1>2, <2>3, BuildStore DEF CreateMissing
  <2> QED BY <1>0, <1>2, <2>1, <2>2, <2>4, WorkStep DEF CreateMissing
<1>3. ASSUME NEW d \in Devices, MissingGone(t, d)
      PROVE  StepOk
  <2>1. pc[t] \in Holding
    BY <1>3 DEF MissingGone, Holding, PCs
  <2> QED BY <1>0, <1>3, <2>1, KeepStore, EndStep DEF MissingGone
<1>4. CASE Repaired(t)
  <2>1. pc[t] \in Holding
    BY <1>4 DEF Repaired, Holding, PCs
  <2> QED BY <1>0, <1>4, <2>1, RetryStepOk DEF Repaired
<1> QED BY <1>1, <1>2, <1>3, <1>4 DEF RepairStep

\* ... and so does every step of a sender that has the lock.
LEMMA SendStepOk ==
    ASSUME TypeOK, LockInv, NEW t \in Senders, SendStep(t)
    PROVE  StepOk
<1> USE DEF lockVars, storeVars, serverVars, historyVars
<1>0. t \in Tasks /\ peer[t] \in Peers /\ dev[t] \in Devices
  BY TaskTypes DEF Tasks
<1>1. CASE EnumerateDevices(t)
  <2>1. pc[t] \in Holding /\ "device" \in Holding \ {"store", "write"}
    BY <1>1 DEF EnumerateDevices, Holding, PCs
  <2> QED BY <1>0, <1>1, <2>1, KeepStore, WorkStep DEF EnumerateDevices
<1>2. ASSUME NEW d \in Devices, NextDevice(t, d)
      PROVE  StepOk
  <2>1. pc[t] \in Holding /\ "ensure" \in Holding \ {"store", "write"}
    BY <1>2 DEF NextDevice, Holding, PCs
  <2>2. \A u \in Tasks \ {t} : dev'[u] = dev[u]
    BY <1>0, <1>2 DEF NextDevice, TypeOK
  <2> QED BY <1>0, <1>2, <2>1, <2>2, KeepStore, WorkStep DEF NextDevice
<1>3. CASE LoadPlaintext(t)
  <2>1. pc[t] \in Holding /\ "device" \in Holding \ {"store", "write"}
    BY <1>3 DEF LoadPlaintext, Holding, PCs
  <2> QED BY <1>0, <1>3, <2>1, KeepStore, WorkStep DEF LoadPlaintext
<1>4. CASE DropCorruptSession(t)
  <2>1. pc[t] \in Holding /\ {"ensure", "device"} \subseteq Holding \ {"store", "write"}
    BY <1>4 DEF DropCorruptSession, Holding, PCs
  <2> QED BY <1>0, <1>4, <2>1, DeleteStore, WorkStep DEF DropCorruptSession
<1>5. CASE NoMessagesToSend(t)
  <2>1. pc[t] \in Holding
    BY <1>5 DEF NoMessagesToSend, Holding, PCs
  <2> QED BY <1>0, <1>5, <2>1, KeepStore, EndStep DEF NoMessagesToSend
<1>6. CASE Post(t)
  <2>1. pc[t] \in Holding /\ "posted" \in Holding \ {"store", "write"}
    BY <1>6 DEF Post, Holding, PCs
  <2> QED BY <1>0, <1>6, <2>1, KeepStore, WorkStep DEF Post
<1> QED BY <1>1, <1>2, <1>3, <1>4, <1>5, <1>6, EncryptStepOk, AnswerStepOk, RepairStepOk
       DEF SendStep

\* The steps of ServiceCipher::decrypt keep the lock invariant and implement
\* AtomicSessions.
LEMMA DecryptStepOk ==
    ASSUME TypeOK, LockInv, NEW t \in Receivers, DecryptStep(t)
    PROVE  StepOk
<1> USE DEF lockVars, storeVars, serverVars, historyVars
<1>0. /\ t \in Tasks /\ peer[t] \in Peers /\ dev[t] \in Devices
      /\ snap[t] \in Session /\ "write" \in Holding
  BY TaskTypes DEF Tasks, Holding, PCs
<1>1. CASE LoadDecrypt(t)
  <2>1. pc[t] \in Holding
    BY <1>1 DEF LoadDecrypt, Holding, PCs
  <2>2. /\ pc'[t] = "write" /\ \A u \in Tasks \ {t} : pc'[u] = pc[u]
        /\ snap'[t] = sessions[peer[t]][dev[t]] /\ \A u \in Tasks \ {t} : snap'[u] = snap[u]
    BY <1>0, <1>1 DEF LoadDecrypt, Goto, TypeOK
  <2>3. lock'[peer[t]] = t
    BY <1>0, <1>1, <2>1 DEF LoadDecrypt, LockInv, LockHeld
  <2>4. StoreOk(peer[t])
    BY <1>0, <1>1, KeepStore DEF LoadDecrypt
  <2>5. LockInv'
    BY <1>0, <1>1, <2>1, <2>2, <2>3, <2>4, LockInvStep DEF LoadDecrypt, StoreOk
  <2> QED BY <2>4, <2>5 DEF StepOk, StoreOk
<1>2. ASSUME NEW r, DecryptEnds(t, r), StoreOk(peer[t])
      PROVE  StepOk
  <2>1. \A u \in Tasks \ {t} : snap'[u] = snap[u]
    BY <1>0, <1>2 DEF DecryptEnds, TypeOK
  <2> QED BY <1>0, <1>2, <2>1, EndStep DEF DecryptEnds
<1>3. ASSUME NEW reg \in 1 .. FreshReg - 1, DecryptPreKeyMessage(t, reg)
      PROVE  StepOk
  <2>1. reg \in Nat
    OBVIOUS
  <2> QED BY <1>0, <1>2, <1>3, <2>1, BuildStore DEF DecryptPreKeyMessage
<1>4. CASE DecryptSameChain(t)
  <2> DEFINE p == peer[t]
             d == dev[t]
  <2>1. snap[t] = sessions[p][d] /\ snap[t] # NoSession
    BY <1>0, <1>4 DEF DecryptSameChain, DecryptEnds, LockInv, SnapCurrent
  <2>2. snap[t].chain # 0
    BY <1>0, <2>1 DEF LockInv, NoChainNoSession
  <2>3. /\ \A q \in Peers \ {p} : sessions'[q] = sessions[q]
        /\ \A e \in Devices \ {d} : sessions'[p][e] = sessions[p][e]
        /\ sessions'[p][d] = [snap[t] EXCEPT !.usable = TRUE]
        /\ chains' = chains /\ used' = used
    BY <1>0, <1>4 DEF DecryptSameChain, TypeOK
  <2>4. sessions'[p][d].chain = snap[t].chain /\ sessions'[p][d].snd = snap[t].snd
    BY <1>0, <2>3 DEF Session, Abs!Session
  <2>5. NoChainNoSession'
    <3>1. \A q \in Peers, e \in Devices :
             sessions'[q][e] = sessions[q][e] \/ sessions'[q][e].chain # 0
      BY <2>2, <2>3, <2>4, Zenon
    <3> QED BY <3>1 DEF LockInv, NoChainNoSession
  <2>6. \A e \in Devices : Abs!KeepChain(p, e)
    BY <2>1, <2>3, <2>4 DEF Abs!KeepChain
  <2>7. [snap[t] EXCEPT !.usable = TRUE] \in Session
    BY <1>0 DEF Session, Abs!Session
  <2>8. /\ sessions' \in [Peers -> [Devices -> Session]]
        /\ chains' \in [Peers -> [Devices -> Nat]]
    BY <1>0, <1>4, <2>7 DEF DecryptSameChain, TypeOK
  <2>9. Abs!Rework(p)
    BY <2>3, <2>6, <2>8 DEF Abs!Rework, Session
  <2>10. StoreOk(peer[t])
    BY <1>0, <2>3, <2>5, <2>9 DEF StoreOk, Abs!AbsNext
  <2> QED BY <1>2, <1>4, <2>10 DEF DecryptSameChain
<1>5. CASE DecryptNewChain(t)
  <2>1. snap[t].reg \in Nat
    BY <1>0 DEF Session, Abs!Session
  <2> QED BY <1>0, <1>2, <1>5, <2>1, BuildStore DEF DecryptNewChain
<1>6. CASE DecryptFails(t)
  BY <1>0, <1>2, <1>6, KeepStore DEF DecryptFails
<1> QED BY <1>1, <1>3, <1>4, <1>5, <1>6 DEF DecryptStep

\* A step that leaves the store, the locks of working tasks and their locals
\* alone: the start of a call, the lock's hand-over, a waiting task's end.
LEMMA IdleStep ==
    ASSUME TypeOK, LockInv, NEW t \in Tasks, pc[t] \notin Holding,
           \A u \in Tasks \ {t} : /\ pc'[u] = pc[u] /\ peer'[u] = peer[u]
                                  /\ dev'[u] = dev[u] /\ snap'[u] = snap[u],
           \A p \in Peers : lock[p] # None => lock'[p] = lock[p],
           pc'[t] \in Holding => pc'[t] \notin {"store", "write"} /\ lock'[peer'[t]] = t,
           UNCHANGED storeVars
    PROVE  StepOk
<1>1. None \notin Tasks
  BY ConstantsAssumption
<1>2. {"store", "write"} \subseteq Holding
  BY DEF Holding, PCs
<1>3. peer \in [Tasks -> Peers]
  BY DEF TypeOK
<1>4. LockHeld'
  BY <1>1, <1>3 DEF LockInv, LockHeld
<1>5. SnapCurrent' /\ SnapUsable' /\ NoChainNoSession'
  BY <1>2 DEF LockInv, SnapCurrent, SnapUsable, NoChainNoSession, storeVars
<1> QED BY <1>4, <1>5 DEF StepOk, LockInv, storeVars, Abs!absVars

\* An error passed on by `?`, or a dropped future, does so too: the guard goes
\* with the task.
LEMMA EarlyEndOk ==
    ASSUME TypeOK, LockInv, NEW t \in Tasks, EarlyEnd(t)
    PROVE  StepOk
<1> USE DEF lockVars, storeVars, serverVars, historyVars
<1>0. peer[t] \in Peers
  BY TaskTypes
<1>1. ASSUME NEW r \in Results, Fail(t, r)
      PROVE  StepOk
  <2>1. pc[t] \in Holding
    BY <1>1 DEF Fail, Errors, Holding, PCs
  <2>2. \A u \in Tasks \ {t} : snap'[u] = snap[u]
    BY <1>1 DEF Fail, TypeOK
  <2> QED BY <1>0, <1>1, <2>1, <2>2, KeepStore, EndStep DEF Fail
<1>2. CASE DropWorking(t)
  <2>1. \A u \in Tasks \ {t} : snap'[u] = snap[u]
    BY <1>2 DEF DropWorking, TypeOK
  <2> QED BY <1>0, <1>2, <2>1, KeepStore, EndStep DEF DropWorking
<1>3. CASE DropWaiting(t)
  <2>1. /\ pc[t] \notin Holding /\ pc'[t] \notin Holding
        /\ \A u \in Tasks \ {t} : pc'[u] = pc[u]
    BY <1>3 DEF DropWaiting, Finish, Goto, TypeOK, Holding
  <2>2. CASE \A p \in Peers : lock[p] # None => lock'[p] = lock[p]
    BY <1>3, <2>1, <2>2, IdleStep DEF DropWaiting
  <2>3. CASE lock[peer[t]] = t
    <3>1. \A u \in Tasks : pc[u] \in Holding => peer[u] # peer[t]
      BY <2>1, <2>3 DEF LockInv, LockHeld
    <3>2. \A p \in Peers \ {peer[t]} : lock'[p] = lock[p]
      BY <1>3 DEF DropWaiting, Finish, Release, TypeOK
    <3>3. LockHeld'
      BY <1>3, <2>1, <3>1, <3>2 DEF DropWaiting, LockInv, LockHeld, TypeOK
    <3>4. SnapCurrent' /\ SnapUsable' /\ NoChainNoSession'
      BY <1>3, <2>1 DEF DropWaiting, LockInv, SnapCurrent, SnapUsable, NoChainNoSession, Holding, PCs
    <3> QED BY <1>3, <3>3, <3>4 DEF DropWaiting, StepOk, LockInv, Abs!absVars
  <2> QED BY <1>0, <1>3, <2>2, <2>3 DEF DropWaiting, Finish, Release, TypeOK
<1> QED BY <1>1, <1>2, <1>3 DEF EarlyEnd

\* Every step keeps the lock invariant and implements AtomicSessions.
LEMMA NextStepOk ==
    ASSUME TypeOK, LockInv, [Next]_vars
    PROVE  StepOk
<1> USE DEF lockVars, storeVars, serverVars, historyVars
<1>1. ASSUME NEW t \in Tasks, NEW l \in Holding \ {"store", "write"}, Acquire(t, l),
             UNCHANGED <<storeVars, peer, dev, snap>>
      PROVE  StepOk
  <2>1. /\ pc[t] \notin Holding /\ pc'[t] = l
        /\ \A u \in Tasks \ {t} : pc'[u] = pc[u]
    BY <1>1 DEF Acquire, Goto, TypeOK, Holding
  <2>2. /\ lock'[peer[t]] = t
        /\ \A p \in Peers : lock[p] # None => lock'[p] = lock[p]
    BY <1>1, TaskTypes DEF Acquire, TypeOK
  <2> QED BY <1>1, <2>1, <2>2, IdleStep
<1>2. Senders \subseteq Tasks /\ Receivers \subseteq Tasks
      /\ {"enumerate", "decrypt"} \subseteq Holding \ {"store", "write"}
  BY DEF Tasks, Holding, PCs
<1>3. ASSUME NEW t \in Senders, NEW c \in Calls, StartSend(t, c)
      PROVE  StepOk
  <2>1. /\ pc[t] \notin Holding /\ pc'[t] \notin Holding
        /\ \A u \in Tasks \ {t} : pc'[u] = pc[u] /\ peer'[u] = peer[u]
    BY <1>2, <1>3 DEF StartSend, Goto, TypeOK, Holding
  <2> QED BY <1>2, <1>3, <2>1, IdleStep DEF StartSend
<1>4. ASSUME NEW t \in Receivers, NEW p \in Peers, NEW d \in Devices, StartDecrypt(t, p, d)
      PROVE  StepOk
  <2>1. /\ pc[t] \notin Holding /\ pc'[t] \notin Holding
        /\ \A u \in Tasks \ {t} : /\ pc'[u] = pc[u] /\ peer'[u] = peer[u]
                                  /\ dev'[u] = dev[u]
    BY <1>2, <1>4 DEF StartDecrypt, Goto, TypeOK, Holding
  <2> QED BY <1>2, <1>4, <2>1, IdleStep DEF StartDecrypt
<1>5. ASSUME NEW t \in Senders, SenderNext(t)
      PROVE  StepOk
  BY <1>1, <1>2, <1>3, <1>5, SendStepOk DEF SenderNext, AcquireSend
<1>6. ASSUME NEW t \in Receivers, ReceiverNext(t)
      PROVE  StepOk
  BY <1>1, <1>2, <1>4, <1>6, DecryptStepOk DEF ReceiverNext, AcquireDecrypt
<1>7. ASSUME UNCHANGED <<lock, sessions, chains, used, pc, peer, dev, snap>>
      PROVE  StepOk
  BY <1>7 DEF StepOk, LockInv, LockHeld, SnapCurrent, SnapUsable, NoChainNoSession, Abs!absVars
<1>8. CASE ServerStep
  BY <1>7, <1>8 DEF ServerStep, LateArrival, LinkDevice, UnlinkDevice, Register,
                    Unregister, ChangeDevices
<1>9. CASE Terminated \/ UNCHANGED vars
  BY <1>7, <1>9 DEF Terminated, vars
<1> QED BY <1>5, <1>6, <1>8, <1>9, EarlyEndOk DEF Next

\* At first nobody works, and every record has a chain.
LEMMA InitLockInv == Init => LockInv
<1> SUFFICES ASSUME Init PROVE LockInv
  OBVIOUS
<1>1. PICK s \in Starts : sessions = s.sessions
  BY DEF Init
<1>2. NoChainNoSession
  BY <1>1, ConstantsAssumption DEF NoChainNoSession
<1> QED BY <1>2 DEF Init, LockInv, LockHeld, SnapCurrent, SnapUsable, Holding

\* The lock invariant holds: a task between load and store has the peer's lock,
\* and what it loaded is still what is stored.
LEMMA LockInvariant == Spec => []LockInv
<1>1. TypeOK /\ LockInv /\ [Next]_vars => LockInv'
  BY NextStepOk DEF StepOk
<1> QED BY <1>1, InitLockInv, TypeCorrect, PTL DEF Spec

\* The sends and decryptions of MessageSender, each many awaits long and
\* interleaved in any way, implement AtomicSessions: under the session locks
\* every load-ratchet-store cycle behaves as one step.
THEOREM Refinement == Spec => SessionsAreAtomic
<1>1. Init => Abs!AbsInit
  <2> SUFFICES ASSUME Init PROVE Abs!AbsInit
    OBVIOUS
  <2>1. sessions \in [Peers -> [Devices -> Session]] /\ chains \in [Peers -> [Devices -> Nat]]
    BY InitTypes DEF TypeOK
  <2>2. \A p \in Peers, d \in Devices :
           chains[p][d] = sessions[p][d].chain /\ chains[p][d] \in Nat
    BY <2>1 DEF Init
  <2> QED BY <2>1, <2>2 DEF Init, Abs!AbsInit, Session
<1>2. TypeOK /\ LockInv /\ [Next]_vars => [Abs!AbsNext]_(Abs!absVars)
  BY NextStepOk DEF StepOk
<1> QED BY <1>1, <1>2, TypeCorrect, LockInvariant, PTL DEF Spec, SessionsAreAtomic, Abs!AbsSpec

-----------------------------------------------------------------------------
(* No message key is used twice.  The argument is about AtomicSessions: the  *)
(* keys used on the current sending chain of a device lie below its index,   *)
(* and a chain that was left never comes back.                               *)

\* The current chain is the newest that was started, or no chain at all.
ChainsBound ==
    \A p \in Peers, d \in Devices : sessions[p][d].chain <= chains[p][d]

KeysSpent ==
    \A k \in used :
        /\ k.chain # 0
        /\ k.chain <= chains[k.peer][k.dev]
        /\ k.chain = sessions[k.peer][k.dev].chain => k.idx < sessions[k.peer][k.dev].snd

KeyInv == ChainsBound /\ KeysSpent /\ NoKeyReuse

\* The natural numbers a record and a key are made of.
LEMMA KeyNumbers ==
    ASSUME TypeOK
    PROVE  /\ \A p \in Peers, d \in Devices :
                 /\ sessions[p][d].chain \in Nat
                 /\ sessions[p][d].snd \in Nat
                 /\ chains[p][d] \in Nat
           /\ \A k \in used : /\ k.peer \in Peers /\ k.dev \in Devices
                              /\ k.chain \in Nat /\ k.idx \in Nat
<1>1. \A p \in Peers, d \in Devices : sessions[p][d] \in Session /\ chains[p][d] \in Nat
  BY DEF TypeOK
<1>2. \A k \in used : k \in Abs!MessageKey
  BY DEF TypeOK
<1> QED BY <1>1, <1>2 DEF Session, Abs!Session, Abs!MessageKey

\* An encryption spends the first unspent key.
LEMMA EncryptKeys ==
    ASSUME TypeOK, TypeOK', KeyInv, NEW p \in Peers, NEW d \in Devices, NEW by,
           Abs!Encrypt(p, d, by)
    PROVE  KeyInv'
<1> DEFINE new == [peer |-> p, dev |-> d, chain |-> sessions[p][d].chain,
                   idx |-> sessions[p][d].snd, by |-> by]
<1>1. /\ used' = used \cup {new} /\ chains' = chains
      /\ sessions[p][d].chain # 0
      /\ \A q \in Peers \ {p} : sessions'[q] = sessions[q]
      /\ \A e \in Devices \ {d} : sessions'[p][e] = sessions[p][e]
      /\ sessions'[p][d] = [sessions[p][d] EXCEPT !.snd = @ + 1]
  BY DEF Abs!Encrypt, TypeOK
<1>2. /\ sessions'[p][d].chain = sessions[p][d].chain
      /\ sessions'[p][d].snd = sessions[p][d].snd + 1
  <2>1. sessions[p][d] \in Session
    BY DEF TypeOK
  <2> QED BY <1>1, <2>1 DEF Session, Abs!Session
<1>3. \A q \in Peers, e \in Devices :
         /\ sessions'[q][e].chain = sessions[q][e].chain
         /\ sessions'[q][e].snd = sessions[q][e].snd
               \/ sessions'[q][e].snd = sessions[q][e].snd + 1
  BY <1>1, <1>2
<1>4. ChainsBound'
  BY <1>1, <1>3 DEF KeyInv, ChainsBound
<1>5. new.peer = p /\ new.dev = d /\ new.chain = sessions[p][d].chain
      /\ new.idx = sessions[p][d].snd
  OBVIOUS
<1> HIDE DEF new
<1>6. KeysSpent'
  <2> SUFFICES ASSUME NEW k \in used'
               PROVE  /\ k.chain # 0
                      /\ k.chain <= chains'[k.peer][k.dev]
                      /\ k.chain = sessions'[k.peer][k.dev].chain
                            => k.idx < sessions'[k.peer][k.dev].snd
    BY DEF KeysSpent
  <2>1. CASE k \in used
    BY <1>1, <1>3, <2>1, KeyNumbers DEF KeyInv, KeysSpent
  <2>2. CASE k = new
    <3>1. /\ k.peer = p /\ k.dev = d
          /\ k.chain = sessions[p][d].chain /\ k.idx = sessions[p][d].snd
      BY <1>5, <2>2
    <3>2. sessions[p][d].snd \in Nat /\ sessions[p][d].chain <= chains[p][d]
      BY KeyNumbers DEF KeyInv, ChainsBound
    <3>3. chains' = chains /\ sessions[p][d].chain # 0
      BY <1>1
    <3>4. k.idx < sessions'[p][d].snd
      BY <1>2, <3>1, <3>2
    <3> QED BY <3>1, <3>2, <3>3, <3>4
  <2> QED BY <1>1, <2>1, <2>2
<1>7. NoKeyReuse'
  <2>1. \A k \in used : ~(/\ k.peer = p /\ k.dev = d
                          /\ k.chain = new.chain /\ k.idx = new.idx)
    BY <1>5, KeyNumbers DEF KeyInv, KeysSpent
  <2> QED BY <1>1, <1>5, <2>1 DEF KeyInv, NoKeyReuse, Abs!NoKeyReuse
<1> QED BY <1>4, <1>6, <1>7 DEF KeyInv

\* Other session work only moves to chains no key was used on.
LEMMA ReworkKeys ==
    ASSUME TypeOK, TypeOK', KeyInv, NEW p \in Peers, Abs!Rework(p)
    PROVE  KeyInv'
<1>1. used' = used
  BY DEF Abs!Rework
<1>2. \A q \in Peers, e \in Devices :
         /\ chains[q][e] \in Nat /\ chains'[q][e] \in Nat
         /\ \/ /\ sessions'[q][e].chain = sessions[q][e].chain
               /\ sessions'[q][e].snd = sessions[q][e].snd
               /\ chains'[q][e] = chains[q][e]
            \/ sessions'[q][e].chain = 0 /\ chains'[q][e] = chains[q][e]
            \/ /\ chains'[q][e] = chains[q][e] + 1
               /\ sessions'[q][e].chain = chains'[q][e]
  <2> SUFFICES ASSUME NEW q \in Peers, NEW e \in Devices
               PROVE  /\ chains[q][e] \in Nat /\ chains'[q][e] \in Nat
                      /\ \/ /\ sessions'[q][e].chain = sessions[q][e].chain
                            /\ sessions'[q][e].snd = sessions[q][e].snd
                            /\ chains'[q][e] = chains[q][e]
                         \/ sessions'[q][e].chain = 0 /\ chains'[q][e] = chains[q][e]
                         \/ /\ chains'[q][e] = chains[q][e] + 1
                            /\ sessions'[q][e].chain = chains'[q][e]
    OBVIOUS
  <2>1. chains[q][e] \in Nat /\ chains'[q][e] \in Nat
    BY DEF TypeOK
  <2>2. CASE q # p
    BY <2>1, <2>2 DEF Abs!Rework
  <2>3. CASE q = p
    <3>1. Abs!KeepChain(p, e) \/ Abs!Delete(p, e) \/ Abs!NewChain(p, e)
      BY DEF Abs!Rework
    <3>2. Abs!Delete(p, e) => sessions'[p][e].chain = 0 /\ chains'[p][e] = chains[p][e]
      BY DEF Abs!Delete, Abs!NoSession
    <3> QED BY <2>1, <2>3, <3>1, <3>2 DEF Abs!KeepChain, Abs!NewChain
  <2> QED BY <2>2, <2>3
<1>3. ChainsBound'
  BY <1>2 DEF KeyInv, ChainsBound
<1>4. KeysSpent'
  BY <1>1, <1>2, KeyNumbers DEF KeyInv, KeysSpent
<1>5. NoKeyReuse'
  BY <1>1 DEF KeyInv, NoKeyReuse, Abs!NoKeyReuse
<1> QED BY <1>3, <1>4, <1>5 DEF KeyInv

\* No message key of any session is ever used for two ciphertexts, however the
\* awaits of sends and decryptions interleave, fail or are dropped.
THEOREM KeysNeverReused == Spec => []NoKeyReuse
<1>1. Init => KeyInv
  <2> SUFFICES ASSUME Init PROVE KeyInv
    OBVIOUS
  <2>1. TypeOK
    BY InitTypes
  <2>2. \A p \in Peers, d \in Devices :
           chains[p][d] = sessions[p][d].chain /\ chains[p][d] \in Nat
    BY <2>1, KeyNumbers DEF Init
  <2> QED BY <2>2 DEF Init, KeyInv, ChainsBound, KeysSpent, NoKeyReuse, Abs!NoKeyReuse
<1>2. TypeOK /\ TypeOK' /\ KeyInv /\ [Abs!AbsNext]_(Abs!absVars) => KeyInv'
  <2> SUFFICES ASSUME TypeOK, TypeOK', KeyInv, [Abs!AbsNext]_(Abs!absVars)
               PROVE  KeyInv'
    OBVIOUS
  <2>1. CASE UNCHANGED Abs!absVars
    BY <2>1 DEF Abs!absVars, KeyInv, ChainsBound, KeysSpent, NoKeyReuse, Abs!NoKeyReuse
  <2>2. CASE Abs!AbsNext
    BY <2>2, EncryptKeys, ReworkKeys DEF Abs!AbsNext
  <2> QED BY <2>1, <2>2
<1>3. TypeOK /\ LockInv /\ [Next]_vars => [Abs!AbsNext]_(Abs!absVars)
  BY NextStepOk DEF StepOk
<1>4. KeyInv => NoKeyReuse
  BY DEF KeyInv
<1> QED BY <1>1, <1>2, <1>3, <1>4, TypeCorrect, LockInvariant, PTL DEF Spec
=============================================================================
