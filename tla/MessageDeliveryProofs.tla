------------------------ MODULE MessageDeliveryProofs ------------------------
(***************************************************************************)
(* Proofs about what MessageSender makes of the messages themselves, for   *)
(* any peers, devices, tasks and calls: deliveries come once and in order, *)
(* what the server rejected is not sent again, no session is built with    *)
(* this device, and four attempts are enough.                              *)
(***************************************************************************)
EXTENDS MessageSenderProofs

-----------------------------------------------------------------------------
(* Once and in order.  The queue of a peer's lock is first come, first       *)
(* served, and its holder is not done: so when a task holds the lock, all    *)
(* that were called before it have ended, and one that has ended may be      *)
(* delivered later only if its post was still on its way.                    *)

\* The calls to a peer are those of tasks that work on it, each called once.
CallsOK ==
    \A p \in Peers : \A i, j \in DOMAIN order[p] :
        /\ pc[order[p][i]] # "idle" /\ peer[order[p][i]] = p
        /\ order[p][i] = order[p][j] => i = j

\* The tasks in a lock's queue are those that wait for it, each once.
QueueOK ==
    /\ \A p \in Peers : \A m, n \in DOMAIN waiters[p] :
          /\ pc[waiters[p][m]] = "lock" /\ peer[waiters[p][m]] = p
          /\ waiters[p][m] = waiters[p][n] => m = n
    /\ \A t \in Tasks : pc[t] = "lock" =>
          \E n \in DOMAIN waiters[peer[t]] : waiters[peer[t]][n] = t

\* Senders queue in the order of their calls.
QueueInOrder ==
    \A p \in Peers : \A i, j \in DOMAIN order[p] : \A m, n \in DOMAIN waiters[p] :
        i < j /\ waiters[p][m] = order[p][i] /\ waiters[p][n] = order[p][j] => m < n

\* A post on its way is waited for, or its task ended without an answer.
GaveUp(t) == task[t].result \in {"ServiceError", "Dropped"}
WireOK == \A t \in wire : pc[t] = "posted" \/ (pc[t] = "done" /\ GaveUp(t))

\* What is delivered is of an ended task, and no longer on its way.
IsDelivered(t) == \E p \in Peers : \E k \in DOMAIN delivered[p] : delivered[p][k] = t
DeliveredOK == \A t \in Senders : IsDelivered(t) => pc[t] = "done" /\ t \notin wire

\* Who has had the lock comes after ended calls only.
Served(t) == pc[t] \in Holding \/ t \in wire \/ IsDelivered(t)
ServedInOrder ==
    \A p \in Peers : \A i, j \in DOMAIN order[p] :
        i < j /\ Served(order[p][j]) => pc[order[p][i]] = "done"

DeliveryInv ==
    /\ CallsOK /\ QueueOK /\ QueueInOrder /\ WireOK /\ DeliveredOK /\ ServedInOrder
    /\ AtMostOnce /\ DeliveryInOrder
\* What a working or ended task may do to the queue, the calls, the wire and
\* the deliveries.
Move(t) ==
    /\ pc[t] \in Holding \/ (pc[t] = "done" /\ t \in wire)
    /\ pc'[t] \in Holding \cup {"done"}
    /\ pc[t] = "done" => pc'[t] = "done"
    /\ \A u \in Tasks \ {t} : pc'[u] = pc[u] /\ task'[u] = task[u]
    /\ UNCHANGED <<waiters, peer, order>>
    /\ \/ pc[t] # "posted" /\ pc[t] # "done" /\ UNCHANGED <<wire, delivered>>
       \/ pc'[t] = "posted" /\ wire' = wire \cup {t} /\ UNCHANGED delivered
       \/ pc[t] = "posted" /\ wire' = wire \ {t} /\ UNCHANGED delivered
       \/ t \in Senders /\ pc[t] = "posted" /\ pc'[t] = "done" /\ wire' = wire \ {t} /\ Accept(t)
       \/ pc[t] = "posted" /\ pc'[t] = "done" /\ GaveUp(t)' /\ UNCHANGED <<wire, delivered>>
       \/ /\ t \in Senders /\ pc[t] = "done" /\ wire' = wire \ {t}
          /\ task'[t].result = task[t].result
          /\ UNCHANGED delivered \/ Accept(t)

-----------------------------------------------------------------------------
(* The shape of the steps *)

\* A task that ends.
LEMMA FinishShape ==
    ASSUME TypeOK, NEW t \in Tasks, NEW r, Finish(t, r)
    PROVE  /\ pc'[t] = "done" /\ task'[t].result = r
           /\ \A u \in Tasks \ {t} : pc'[u] = pc[u] /\ task'[u] = task[u]
<1>1. pc \in [Tasks -> PCs] /\ task \in [Tasks -> Locals]
  BY DEF TypeOK
<1>2. pc'[t] = "done" /\ \A u \in Tasks \ {t} : pc'[u] = pc[u]
  BY <1>1 DEF Finish, Goto
<1>3. PICK x : x.result = r /\ task' = [task EXCEPT ![t] = x]
  <2> DEFINE x == [NoLocals EXCEPT
                    !.result = r, !.attempt = task[t].attempt,
                    !.msgs = IF pc[t] = "posted" THEN task[t].msgs ELSE {},
                    !.rejected = task[t].rejected,
                    !.quiet = /\ task[t].quiet
                              /\ pc[t] = "posted" => r # "MaximumRetriesLimitExceeded"]
  <2>1. x.result = r
    BY DEF NoLocals
  <2>2. task' = [task EXCEPT ![t] = x]
    BY DEF Finish, Update
  <2> QED BY <2>1, <2>2
<1> QED BY <1>1, <1>2, <1>3

\* A task that goes on.
LEMMA GotoShape ==
    ASSUME TypeOK, NEW t \in Tasks, NEW l, Goto(t, l)
    PROVE  pc'[t] = l /\ \A u \in Tasks \ {t} : pc'[u] = pc[u]
BY DEF TypeOK, Goto

\* A task that changes its locals.
LEMMA UpdateShape ==
    ASSUME TypeOK, NEW t \in Tasks, NEW x, Update(t, x)
    PROVE  task'[t] = x /\ \A u \in Tasks \ {t} : task'[u] = task[u]
BY DEF TypeOK, Update

\* A step of encrypting or repairing moves nothing.
LEMMA QuietMove ==
    ASSUME TypeOK, NEW t \in Tasks, pc[t] \in Holding \ {"posted"},
           UNCHANGED <<waiters, peer, order, wire, delivered>>,
           \/ \E r : Finish(t, r)
           \/ /\ \E l \in Holding : Goto(t, l)
              /\ UNCHANGED task \/ \E x : Update(t, x)
           \/ UNCHANGED pc /\ \E x : Update(t, x)
    PROVE  Move(t)
<1>1. pc[t] # "done" /\ pc[t] # "posted" /\ pc[t] \in Holding
  BY DEF Holding
<1>2. CASE \E r : Finish(t, r)
  BY <1>1, <1>2, FinishShape DEF Move
<1>3. CASE /\ \E l \in Holding : Goto(t, l)
           /\ UNCHANGED task \/ \E x : Update(t, x)
  BY <1>1, <1>3, GotoShape, UpdateShape DEF Move
<1>4. CASE UNCHANGED pc /\ \E x : Update(t, x)
  BY <1>1, <1>4, UpdateShape DEF Move
<1> QED BY <1>2, <1>3, <1>4

\* The retry loop: once more, or the end.
LEMMA RetryShape ==
    ASSUME TypeOK, NEW t \in Tasks, NEW x, Retry(t, x)
    PROVE  /\ \A u \in Tasks \ {t} : pc'[u] = pc[u] /\ task'[u] = task[u]
           /\ pc'[t] \in {"enumerate", "done"}
<1>1. CASE task[t].attempt < MaxAttempts
  BY <1>1, GotoShape, UpdateShape DEF Retry
<1>2. CASE ~(task[t].attempt < MaxAttempts)
  BY <1>2, FinishShape DEF Retry
<1> QED BY <1>1, <1>2

\* The answers to a post.
LEMMA AnswerMove ==
    ASSUME TypeOK, NEW t \in Senders, AnswerStep(t)
    PROVE  Move(t)
<1> USE DEF lockVars, historyVars
<1>1. t \in Tasks /\ pc[t] = "posted" /\ "posted" \in Holding
      /\ "repair" \in Holding /\ "enumerate" \in Holding
  BY DEF Tasks, AnswerStep, AnswerOk, AnswerUnauthorized, AnswerMismatched, AnswerStale,
         AnswerUnregistered, AnswerRefused, AnswerLost, Holding, PCs
<1>2. CASE AnswerOk(t)
  BY <1>1, <1>2, FinishShape DEF AnswerOk, Move
<1>3. CASE AnswerUnauthorized(t)
  BY <1>1, <1>3, RetryShape DEF AnswerUnauthorized, Move
<1>4. CASE AnswerMismatched(t)
  BY <1>1, <1>4, GotoShape, UpdateShape DEF AnswerMismatched, Move
<1>5. CASE AnswerStale(t)
  BY <1>1, <1>5, GotoShape, UpdateShape DEF AnswerStale, Move
<1>6. CASE AnswerUnregistered(t)
  BY <1>1, <1>6, FinishShape DEF AnswerUnregistered, Move
<1>7. CASE \E r \in Results : AnswerRefused(t, r)
  BY <1>1, <1>7, FinishShape DEF AnswerRefused, Move
<1>8. CASE AnswerLost(t)
  <2>1. task'[t].result = "ServiceError"
    BY <1>1, <1>8, FinishShape DEF AnswerLost
  <2>2. GaveUp(t)'
    BY <2>1 DEF GaveUp
  <2> QED BY <1>1, <1>8, <2>2, FinishShape DEF AnswerLost, Move
<1> QED BY <1>2, <1>3, <1>4, <1>5, <1>6, <1>7, <1>8 DEF AnswerStep

\* The steps of a sender that has the lock.
LEMMA SendMove ==
    ASSUME TypeOK, NEW t \in Senders, SendStep(t)
    PROVE  Move(t)
<1> USE DEF lockVars, historyVars
<1>1. t \in Tasks /\ {"device", "ensure", "fetch", "process", "load", "store", "enumerate", "repair"}
                        \subseteq Holding \ {"posted"}
  BY DEF Tasks, Holding, PCs
<1>2. CASE EnumerateDevices(t) \/ \E d \in Devices : NextDevice(t, d)
  BY <1>1, <1>2, QuietMove DEF EnumerateDevices, NextDevice
<1>3. CASE EncryptStep(t)
  <2>1. CASE EnsureSession(t)
    BY <1>1, <2>1, QuietMove DEF EnsureSession
  <2>2. CASE \E D \in SUBSET Devices : FetchPreKeys(t, D)
    BY <1>1, <2>2, QuietMove DEF FetchPreKeys
  <2>3. CASE PreKeysNotFound(t)
    BY <1>1, <2>3, QuietMove DEF PreKeysNotFound
  <2>4. CASE \E b \in task[t].bundles : ProcessBundle(t, b)
    BY <1>1, <2>4, QuietMove DEF ProcessBundle
  <2>5. CASE BundlesProcessed(t) \/ LoadUsable(t)
    BY <1>1, <2>5, QuietMove DEF BundlesProcessed, LoadUsable
  <2>6. CASE StoreRatchet(t)
    BY <1>1, <2>6, QuietMove DEF StoreRatchet
  <2> QED BY <1>3, <2>1, <2>2, <2>3, <2>4, <2>5, <2>6 DEF EncryptStep
<1>4. CASE LoadPlaintext(t)
  BY <1>1, <1>4, QuietMove DEF LoadPlaintext
<1>5. CASE DropCorruptSession(t)
  BY <1>1, <1>5, QuietMove DEF DropCorruptSession
<1>6. CASE NoMessagesToSend(t)
  BY <1>1, <1>6, QuietMove DEF NoMessagesToSend
<1>7. CASE Post(t)
  <2>1. "posted" \in Holding
    BY DEF Holding, PCs
  <2>2. pc'[t] = "posted" /\ \A u \in Tasks \ {t} : pc'[u] = pc[u]
    BY <1>1, <1>7, GotoShape DEF Post
  <2> QED BY <1>1, <1>7, <2>1, <2>2 DEF Post, Move
<1>8. CASE RepairStep(t)
  <2>1. CASE \E d \in Devices : DropExtra(t, d)
    BY <1>1, <2>1, QuietMove DEF DropExtra
  <2>2. CASE \E d \in Devices : CreateMissing(t, d)
    BY <1>1, <2>2, QuietMove DEF CreateMissing
  <2>3. CASE \E d \in Devices : MissingGone(t, d)
    BY <1>1, <2>3, QuietMove DEF MissingGone
  <2>4. CASE Repaired(t)
    BY <1>1, <2>4, QuietMove DEF Repaired, Retry
  <2> QED BY <1>8, <2>1, <2>2, <2>3, <2>4 DEF RepairStep
<1> QED BY <1>2, <1>3, <1>4, <1>5, <1>6, <1>7, <1>8, AnswerMove DEF SendStep

\* The other steps of a task that has the lock.
LEMMA OtherMoves ==
    ASSUME TypeOK, NEW t \in Tasks,
           \/ DecryptStep(t)
           \/ \E r \in Results : Fail(t, r)
           \/ DropWorking(t)
    PROVE  Move(t)
<1> USE DEF lockVars, historyVars
<1>1. {"decrypt", "write"} \subseteq Holding \ {"posted"}
  BY DEF Holding, PCs
<1>2. CASE DecryptStep(t)
  <2>1. CASE LoadDecrypt(t)
    BY <1>1, <2>1, QuietMove DEF LoadDecrypt
  <2>2. ASSUME NEW r, DecryptEnds(t, r) PROVE Move(t)
    BY <1>1, <2>2, QuietMove DEF DecryptEnds
  <2> QED BY <1>2, <2>1, <2>2 DEF DecryptStep, DecryptPreKeyMessage, DecryptSameChain,
                                  DecryptNewChain, DecryptFails
<1>3. CASE \E r \in Results : Fail(t, r)
  <2>1. pc[t] \in Holding \ {"posted"}
    BY <1>3 DEF Fail, Errors, Holding, PCs
  <2> QED BY <1>3, <2>1, QuietMove DEF Fail
<1>4. CASE DropWorking(t)
  <2>1. task'[t].result = "Dropped" /\ GaveUp(t)'
    BY <1>4, FinishShape DEF DropWorking, GaveUp
  <2>2. CASE pc[t] = "posted"
    BY <1>4, <2>1, <2>2, FinishShape DEF DropWorking, Move
  <2>3. CASE pc[t] # "posted"
    BY <1>4, <2>3, QuietMove DEF DropWorking
  <2> QED BY <2>2, <2>3
<1> QED BY <1>2, <1>3, <1>4

\* A late post reaches the server.
LEMMA LateMove ==
    ASSUME TypeOK, NEW t \in Senders, LateArrival(t)
    PROVE  Move(t)
<1>1. t \in Tasks /\ task[t] \in Locals
  BY TaskTypes DEF Tasks
<1>2. task' = [task EXCEPT ![t] = [task[t] EXCEPT !.msgs = {}]]
  BY DEF LateArrival, Update
<1>3. /\ task'[t].result = task[t].result
      /\ \A u \in Tasks \ {t} : task'[u] = task[u]
  BY <1>1, <1>2 DEF TypeOK, Locals
<1> QED BY <1>1, <1>3 DEF LateArrival, Move, lockVars

-----------------------------------------------------------------------------
(* The steps keep the invariant *)

\* What the server accepts comes last.
LEMMA AcceptFacts ==
    ASSUME TypeOK, NEW t \in Senders, Accept(t)
    PROVE  \E K \in Nat :
              /\ DOMAIN delivered[peer[t]] = 1 .. K
              /\ DOMAIN delivered'[peer[t]] = 1 .. (K + 1)
              /\ delivered'[peer[t]][K + 1] = t
              /\ \A k \in 1 .. K : delivered'[peer[t]][k] = delivered[peer[t]][k]
              /\ \A p \in Peers \ {peer[t]} : delivered'[p] = delivered[p]
<1>1. peer[t] \in Peers /\ delivered \in [Peers -> Seq(Senders)]
  BY DEF TypeOK, Tasks
<1>2. PICK q : q = delivered[peer[t]]
  OBVIOUS
<1>3. q \in Seq(Senders) /\ Len(q) \in Nat
  BY <1>1, <1>2
<1>4. delivered' = [delivered EXCEPT ![peer[t]] = Append(q, t)]
  BY <1>1, <1>2 DEF Accept
<1>5. delivered'[peer[t]] = Append(q, t) /\ \A p \in Peers \ {peer[t]} : delivered'[p] = delivered[p]
  BY <1>1, <1>4
<1>6. /\ DOMAIN q = 1 .. Len(q)
      /\ DOMAIN Append(q, t) = 1 .. (Len(q) + 1)
      /\ Append(q, t)[Len(q) + 1] = t
      /\ \A k \in 1 .. Len(q) : Append(q, t)[k] = q[k]
  BY <1>3
<1> QED BY <1>2, <1>3, <1>5, <1>6

\* A task that moves has not been delivered, and only it can come to be.
LEMMA MoveDelivers ==
    ASSUME TypeOK, DeliveryInv, NEW t \in Tasks, Move(t)
    PROVE  /\ t \in Senders => ~IsDelivered(t)
           /\ \A u \in Senders \ {t} : IsDelivered(u)' => IsDelivered(u)
           /\ UNCHANGED delivered \/ (t \in Senders /\ Accept(t))
<1>1. t \in Senders => ~IsDelivered(t)
  BY DEF DeliveryInv, DeliveredOK, Move, Holding
<1>2. UNCHANGED delivered \/ (t \in Senders /\ Accept(t))
  BY DEF Move
<1>3. CASE UNCHANGED delivered
  BY <1>1, <1>3 DEF IsDelivered
<1>4. CASE t \in Senders /\ Accept(t)
  <2>1. PICK K \in Nat :
              /\ DOMAIN delivered[peer[t]] = 1 .. K
              /\ DOMAIN delivered'[peer[t]] = 1 .. (K + 1)
              /\ delivered'[peer[t]][K + 1] = t
              /\ \A k \in 1 .. K : delivered'[peer[t]][k] = delivered[peer[t]][k]
              /\ \A p \in Peers \ {peer[t]} : delivered'[p] = delivered[p]
    BY <1>4, AcceptFacts
  <2>2. ASSUME NEW u \in Senders \ {t}, NEW p \in Peers, NEW k \in DOMAIN delivered'[p],
               delivered'[p][k] = u
        PROVE  \E l \in DOMAIN delivered[p] : delivered[p][l] = u
    <3>1. CASE p # peer[t]
      BY <2>1, <2>2, <3>1
    <3>2. CASE p = peer[t]
      <4>1. k # K + 1 /\ k \in 1 .. (K + 1)
        BY <2>1, <2>2, <3>2
      <4>2. k \in 1 .. K
        BY <4>1
      <4> QED BY <2>1, <2>2, <3>2, <4>2
    <3> QED BY <3>1, <3>2
  <2>3. \A u \in Senders \ {t} : IsDelivered(u)' => IsDelivered(u)
    BY <2>2 DEF IsDelivered
  <2> QED BY <1>1, <1>4, <2>3
<1> QED BY <1>2, <1>3, <1>4

\* A task's own steps keep the invariant.
LEMMA MoveKeeps ==
    ASSUME TypeOK, DeliveryInv, NEW t \in Tasks, Move(t)
    PROVE  DeliveryInv'
<1>1. /\ pc[t] \notin {"idle", "lock"} /\ pc'[t] \notin {"idle", "lock"}
      /\ \A u \in Tasks \ {t} : pc'[u] = pc[u] /\ task'[u] = task[u]
      /\ UNCHANGED <<waiters, peer, order>>
      /\ \A u \in wire' : u = t \/ u \in wire
  BY DEF Move, Holding
<1>2. /\ \A p \in Peers : \A i \in DOMAIN order[p] : order[p][i] \in Senders
      /\ \A p \in Peers : \A m \in DOMAIN waiters[p] : waiters[p][m] \in Tasks
      /\ Senders \subseteq Tasks /\ wire \subseteq Senders
  BY DEF TypeOK, Tasks
<1>3. /\ t \in Senders => ~IsDelivered(t)
      /\ \A u \in Senders \ {t} : IsDelivered(u)' => IsDelivered(u)
      /\ UNCHANGED delivered \/ (t \in Senders /\ Accept(t))
  BY MoveDelivers
<1>4. CallsOK'
  BY <1>1, <1>2 DEF DeliveryInv, CallsOK
<1>5. QueueOK'
  BY <1>1, <1>2 DEF DeliveryInv, QueueOK
<1>6. QueueInOrder'
  BY <1>1 DEF DeliveryInv, QueueInOrder
<1>7. WireOK'
  <2>1. \A u \in wire' : u # t => pc'[u] = "posted" \/ (pc'[u] = "done" /\ GaveUp(u)')
    BY <1>1, <1>2 DEF DeliveryInv, WireOK, GaveUp
  <2>2. t \in wire' => pc'[t] = "posted" \/ (pc'[t] = "done" /\ GaveUp(t)')
    BY DEF Move, DeliveryInv, WireOK, GaveUp
  <2> QED BY <2>1, <2>2 DEF WireOK
<1>8. DeliveredOK'
  <2>1. \A u \in Senders \ {t} : IsDelivered(u)' => pc'[u] = "done" /\ u \notin wire'
    BY <1>1, <1>2, <1>3 DEF DeliveryInv, DeliveredOK
  <2>2. ASSUME t \in Senders, IsDelivered(t)' PROVE pc'[t] = "done" /\ t \notin wire'
    <3>1. delivered' # delivered
      BY <1>3, <2>2 DEF IsDelivered
    <3> QED BY <3>1 DEF Move
  <2> QED BY <2>1, <2>2 DEF DeliveredOK
<1>9. ServedInOrder'
  <2>1. ASSUME NEW u \in Senders, Served(u)' PROVE Served(u)
    <3>1. CASE u = t
      BY <3>1 DEF Move, Served
    <3>2. CASE u # t
      BY <1>1, <1>2, <1>3, <2>1, <3>2 DEF Served
    <3> QED BY <3>1, <3>2
  <2>2. \A u \in Tasks : pc[u] = "done" => pc'[u] = "done"
    BY <1>1 DEF Move
  <2> QED BY <1>1, <1>2, <2>1, <2>2 DEF DeliveryInv, ServedInOrder
<1>10. CASE UNCHANGED delivered
  <2>1. AtMostOnce'
    BY <1>10 DEF DeliveryInv, AtMostOnce
  <2>2. \A p \in Peers : \A k \in DOMAIN delivered[p] :
           delivered[p][k] \in Senders /\ delivered[p][k] # t
    <3>1. \A p \in Peers : \A k \in DOMAIN delivered[p] : delivered[p][k] \in Senders
      BY DEF TypeOK
    <3> QED BY <1>3, <3>1 DEF IsDelivered
  <2>3. DeliveryInOrder'
    BY <1>1, <1>2, <1>10, <2>2 DEF DeliveryInv, DeliveryInOrder
  <2> QED BY <1>4, <1>5, <1>6, <1>7, <1>8, <1>9, <2>1, <2>3 DEF DeliveryInv
<1>11. CASE t \in Senders /\ Accept(t)
  <2>1. PICK K \in Nat :
              /\ DOMAIN delivered[peer[t]] = 1 .. K
              /\ DOMAIN delivered'[peer[t]] = 1 .. (K + 1)
              /\ delivered'[peer[t]][K + 1] = t
              /\ \A k \in 1 .. K : delivered'[peer[t]][k] = delivered[peer[t]][k]
              /\ \A p \in Peers \ {peer[t]} : delivered'[p] = delivered[p]
    BY <1>11, AcceptFacts
  <2>2. peer[t] \in Peers
    BY DEF TypeOK
  <2>3. \A p \in Peers : \A k \in DOMAIN delivered[p] :
           delivered[p][k] \in Senders /\ delivered[p][k] # t
    <3>1. \A p \in Peers : \A k \in DOMAIN delivered[p] : delivered[p][k] \in Senders
      BY DEF TypeOK
    <3> QED BY <1>3, <3>1 DEF IsDelivered
  <2>4. AtMostOnce'
    <3> SUFFICES ASSUME NEW p \in Peers, NEW i \in DOMAIN delivered'[p],
                        NEW j \in DOMAIN delivered'[p], delivered'[p][i] = delivered'[p][j]
                 PROVE  i = j
      BY DEF AtMostOnce
    <3>1. CASE p # peer[t]
      BY <2>1, <3>1 DEF DeliveryInv, AtMostOnce
    <3>2. CASE p = peer[t]
      <4>1. i \in 1 .. K \/ i = K + 1
        BY <2>1, <3>2
      <4>2. j \in 1 .. K \/ j = K + 1
        BY <2>1, <3>2
      <4>3. i \in 1 .. K => delivered'[p][i] = delivered[p][i] /\ delivered[p][i] # t
        BY <2>1, <2>2, <2>3, <3>2
      <4>4. j \in 1 .. K => delivered'[p][j] = delivered[p][j] /\ delivered[p][j] # t
        BY <2>1, <2>2, <2>3, <3>2
      <4>5. CASE i \in 1 .. K /\ j \in 1 .. K
        BY <2>1, <2>2, <3>2, <4>3, <4>4, <4>5 DEF DeliveryInv, AtMostOnce
      <4> QED BY <2>1, <3>2, <4>1, <4>2, <4>3, <4>4, <4>5
    <3> QED BY <3>1, <3>2
  <2>5. DeliveryInOrder'
    <3> SUFFICES ASSUME NEW p \in Peers, NEW i \in DOMAIN order[p], NEW j \in DOMAIN order[p],
                        NEW k \in DOMAIN delivered'[p], NEW l \in DOMAIN delivered'[p],
                        i < j, l < k,
                        delivered'[p][k] = order[p][i], delivered'[p][l] = order[p][j]
                 PROVE  task'[order[p][i]].result \in {"ServiceError", "Dropped"}
      BY <1>1 DEF DeliveryInOrder
    <3>1. CASE k \in DOMAIN delivered[p] /\ l \in DOMAIN delivered[p]
      <4>1. delivered'[p][k] = delivered[p][k] /\ delivered'[p][l] = delivered[p][l]
        BY <2>1, <2>2, <3>1
      <4>2. task[order[p][i]].result \in {"ServiceError", "Dropped"}
        BY <3>1, <4>1 DEF DeliveryInv, DeliveryInOrder
      <4>3. order[p][i] \in Tasks \ {t}
        BY <1>2, <2>3, <3>1, <4>1
      <4> QED BY <1>1, <4>2, <4>3
    <3>2. CASE ~(k \in DOMAIN delivered[p] /\ l \in DOMAIN delivered[p])
      <4>1. p = peer[t]
        BY <2>1, <3>2
      <4>2. k \in 1 .. (K + 1) /\ l \in 1 .. (K + 1)
        BY <2>1, <4>1
      <4>3. k = K + 1 /\ l \in 1 .. K
        BY <2>1, <3>2, <4>1, <4>2
      <4>4. order[p][i] = t
        BY <2>1, <4>1, <4>3
      <4>5. Served(order[p][j])
        BY <2>1, <4>1, <4>3 DEF Served, IsDelivered
      <4>6. pc[t] = "done"
        BY <4>4, <4>5 DEF DeliveryInv, ServedInOrder
      <4>7. t \in wire /\ task'[t].result = task[t].result
        BY <4>6 DEF Move, Holding
      <4> QED BY <4>4, <4>6, <4>7 DEF DeliveryInv, WireOK, GaveUp
    <3> QED BY <3>1, <3>2
  <2> QED BY <1>4, <1>5, <1>6, <1>7, <1>8, <1>9, <2>4, <2>5 DEF DeliveryInv
<1> QED BY <1>3, <1>10, <1>11

\* q2 is q with e at its end, or q without its k-th element.
Grown(q, q2, e) ==
    \E N \in Nat : /\ DOMAIN q = 1 .. N /\ DOMAIN q2 = 1 .. (N + 1)
                   /\ q2[N + 1] = e
                   /\ \A k \in 1 .. N : q2[k] = q[k]
Without(q, q2, i) ==
    \E N \in Nat : /\ DOMAIN q = 1 .. (N + 1) /\ DOMAIN q2 = 1 .. N
                   /\ \A k \in 1 .. N : q2[k] = q[IF k < i THEN k ELSE k + 1]

\* The sequence operators that the queue and the history of calls use do that.
LEMMA SequenceShapes ==
    ASSUME NEW S, NEW q \in Seq(S), NEW e \in S
    PROVE  /\ Grown(q, Append(q, e), e)
           /\ q # <<>> => Without(q, Tail(q), 1) /\ 1 \in DOMAIN q /\ q[1] = Head(q)
           /\ \A i \in DOMAIN q : Without(q, RemoveAt(q, i), i)
<1>1. Grown(q, Append(q, e), e)
  <2>1. Len(q) \in Nat /\ DOMAIN q = 1 .. Len(q)
    OBVIOUS
  <2>2. DOMAIN Append(q, e) = 1 .. (Len(q) + 1) /\ Append(q, e)[Len(q) + 1] = e
    OBVIOUS
  <2>3. \A k \in 1 .. Len(q) : Append(q, e)[k] = q[k]
    OBVIOUS
  <2> QED BY <2>1, <2>2, <2>3 DEF Grown
<1>2. ASSUME q # <<>> PROVE Without(q, Tail(q), 1) /\ 1 \in DOMAIN q /\ q[1] = Head(q)
  <2>1. Len(q) \in Nat /\ Len(q) # 0 /\ DOMAIN q = 1 .. Len(q)
    BY <1>2
  <2>2. PICK N \in Nat : Len(q) = N + 1
    <3>1. Len(q) - 1 \in Nat /\ Len(q) = (Len(q) - 1) + 1
      BY <2>1
    <3> QED BY <3>1
  <2>3. DOMAIN Tail(q) = 1 .. N /\ \A k \in 1 .. N : Tail(q)[k] = q[k + 1]
    BY <1>2, <2>1, <2>2
  <2>4. \A k \in 1 .. N : Tail(q)[k] = q[IF k < 1 THEN k ELSE k + 1]
    BY <2>2, <2>3
  <2> QED BY <1>2, <2>1, <2>2, <2>3, <2>4 DEF Without
<1>3. ASSUME NEW i \in DOMAIN q PROVE Without(q, RemoveAt(q, i), i)
  <2>1. Len(q) \in Nat /\ i \in 1 .. Len(q) /\ DOMAIN q = 1 .. Len(q)
    OBVIOUS
  <2>2. PICK N \in Nat : Len(q) = N + 1
    <3>1. Len(q) - 1 \in Nat /\ Len(q) = (Len(q) - 1) + 1
      BY <2>1
    <3> QED BY <3>1
  <2>3. PICK a : a = SubSeq(q, 1, i - 1)
    OBVIOUS
  <2>4. PICK b : b = SubSeq(q, i + 1, Len(q))
    OBVIOUS
  <2>5. a \in Seq(S) /\ Len(a) = i - 1 /\ \A k \in 1 .. i - 1 : a[k] = q[k]
    BY <2>1, <2>3
  <2>6. b \in Seq(S) /\ Len(b) = Len(q) - i /\ \A k \in 1 .. Len(q) - i : b[k] = q[i + k]
    BY <2>1, <2>4
  <2>7. RemoveAt(q, i) = a \o b
    BY <2>3, <2>4 DEF RemoveAt
  <2>8. DOMAIN (a \o b) = 1 .. N
    BY <2>1, <2>2, <2>5, <2>6
  <2>9. ASSUME NEW k \in 1 .. N PROVE (a \o b)[k] = q[IF k < i THEN k ELSE k + 1]
    <3>1. CASE k < i
      <4>1. k \in 1 .. Len(a)
        BY <2>1, <2>5, <2>9, <3>1
      <4>2. (a \o b)[k] = a[k]
        BY <2>5, <2>6, <4>1
      <4> QED BY <2>1, <2>5, <3>1, <4>1, <4>2
    <3>2. CASE ~(k < i)
      <4>1. k \in (Len(a) + 1) .. (Len(a) + Len(b)) /\ k - Len(a) \in 1 .. Len(q) - i
            /\ i + (k - Len(a)) = k + 1
        BY <2>1, <2>2, <2>5, <2>6, <2>9, <3>2
      <4>2. (a \o b)[k] = b[k - Len(a)]
        <5>1. k \in 1 .. (Len(a) + Len(b)) /\ ~(k <= Len(a))
          BY <2>1, <2>5, <2>6, <4>1
        <5>2. (a \o b)[k] = IF k <= Len(a) THEN a[k] ELSE b[k - Len(a)]
          BY <2>5, <2>6, <5>1, ConcatProperties
        <5> QED BY <5>1, <5>2
      <4> QED BY <2>6, <3>2, <4>1, <4>2
    <3> QED BY <3>1, <3>2
  <2> QED BY <2>1, <2>2, <2>7, <2>8, <2>9 DEF Without
<1> QED BY <1>1, <1>2, <1>3

\* A task that has not begun, or waits for the lock, is nowhere but in the queue.
LEMMA Absent ==
    ASSUME TypeOK, DeliveryInv, NEW t \in Tasks, pc[t] \in {"idle", "lock"}
    PROVE  /\ t \notin wire
           /\ \A p \in Peers : \A k \in DOMAIN delivered[p] :
                 delivered[p][k] \in Senders /\ delivered[p][k] # t
           /\ t \in Senders => ~Served(t)
           /\ pc[t] = "idle" => \A p \in Peers :
                 /\ \A i \in DOMAIN order[p] : order[p][i] \in Senders \ {t}
                 /\ \A m \in DOMAIN waiters[p] : waiters[p][m] \in Tasks \ {t}
<1>1. \A p \in Peers : \A k \in DOMAIN delivered[p] : delivered[p][k] \in Senders
  BY DEF TypeOK
<1>2. t \notin wire
  BY DEF DeliveryInv, WireOK
<1>3. t \in Senders => ~IsDelivered(t)
  BY DEF DeliveryInv, DeliveredOK
<1>4. \A p \in Peers : \A k \in DOMAIN delivered[p] :
         delivered[p][k] \in Senders /\ delivered[p][k] # t
  BY <1>1, <1>3 DEF IsDelivered
<1>5. t \in Senders => ~Served(t)
  BY <1>2, <1>3 DEF Served, Holding
<1>6. ASSUME pc[t] = "idle", NEW p \in Peers
      PROVE  /\ \A i \in DOMAIN order[p] : order[p][i] \in Senders \ {t}
             /\ \A m \in DOMAIN waiters[p] : waiters[p][m] \in Tasks \ {t}
  <2>1. ASSUME NEW i \in DOMAIN order[p] PROVE order[p][i] \in Senders \ {t}
    <3>1. order[p][i] \in Senders
      BY DEF TypeOK
    <3>2. order[p][i] # t
      BY <1>6 DEF DeliveryInv, CallsOK
    <3> QED BY <3>1, <3>2
  <2>2. ASSUME NEW m \in DOMAIN waiters[p] PROVE waiters[p][m] \in Tasks \ {t}
    <3>1. waiters[p][m] \in Tasks
      BY DEF TypeOK
    <3>2. waiters[p][m] # t
      BY <1>6 DEF DeliveryInv, QueueOK
    <3> QED BY <3>1, <3>2
  <2> QED BY <2>1, <2>2
<1> QED BY <1>2, <1>4, <1>5, <1>6

\* A call that queues for the lock keeps the invariant.
LEMMA EnqueueKeeps ==
    ASSUME TypeOK, DeliveryInv, NEW t \in Tasks, NEW p \in Peers, pc[t] = "idle",
           Goto(t, "lock"), peer' = [peer EXCEPT ![t] = p], Enqueue(t, p),
           \A u \in Tasks \ {t} : task'[u] = task[u],
           \/ t \in Senders /\ order' = [order EXCEPT ![p] = Append(@, t)]
           \/ UNCHANGED order,
           UNCHANGED <<wire, delivered>>
    PROVE  DeliveryInv'
<1>1. /\ t \notin wire
      /\ \A q \in Peers : \A k \in DOMAIN delivered[q] :
            delivered[q][k] \in Senders /\ delivered[q][k] # t
      /\ \A q \in Peers :
            /\ \A i \in DOMAIN order[q] : order[q][i] \in Senders \ {t}
            /\ \A m \in DOMAIN waiters[q] : waiters[q][m] \in Tasks \ {t}
  BY Absent
<1>2. /\ pc'[t] = "lock" /\ peer'[t] = p
      /\ \A u \in Tasks \ {t} : pc'[u] = pc[u] /\ peer'[u] = peer[u]
      /\ Senders \subseteq Tasks /\ wire \subseteq Senders /\ peer \in [Tasks -> Peers]
  BY DEF TypeOK, Goto, Tasks
<1>3. /\ Grown(waiters[p], waiters'[p], t)
      /\ \A q \in Peers \ {p} : waiters'[q] = waiters[q]
  <2>1. waiters \in [Peers -> Seq(Tasks)] /\ waiters[p] \in Seq(Tasks)
    BY DEF TypeOK
  <2>2. waiters'[p] = Append(waiters[p], t) /\ \A q \in Peers \ {p} : waiters'[q] = waiters[q]
    BY <2>1 DEF Enqueue
  <2> QED BY <2>1, <2>2, SequenceShapes
<1>4. /\ order'[p] = order[p] \/ (t \in Senders /\ Grown(order[p], order'[p], t))
      /\ \A q \in Peers \ {p} : order'[q] = order[q]
  <2>1. order \in [Peers -> Seq(Senders)] /\ order[p] \in Seq(Senders)
    BY DEF TypeOK
  <2>2. CASE t \in Senders /\ order' = [order EXCEPT ![p] = Append(@, t)]
    <3>1. order'[p] = Append(order[p], t) /\ \A q \in Peers \ {p} : order'[q] = order[q]
      BY <2>1, <2>2
    <3> QED BY <2>1, <2>2, <3>1, SequenceShapes
  <2> QED BY <2>2
<1>5. PICK W \in Nat : /\ DOMAIN waiters[p] = 1 .. W /\ DOMAIN waiters'[p] = 1 .. (W + 1)
                       /\ waiters'[p][W + 1] = t
                       /\ \A k \in 1 .. W : waiters'[p][k] = waiters[p][k]
  BY <1>3 DEF Grown
<1>6. \A q \in Peers : \A m \in DOMAIN waiters'[q] :
         \/ m \in DOMAIN waiters[q] /\ waiters'[q][m] = waiters[q][m] /\ waiters'[q][m] \in Tasks \ {t}
         \/ q = p /\ waiters'[q][m] = t /\ m = W + 1
  BY <1>1, <1>3, <1>5
<1>7. PICK N \in Nat : \A i \in DOMAIN order'[p] :
         \/ i \in DOMAIN order[p] /\ i \in 1 .. N /\ order'[p][i] = order[p][i]
            /\ order'[p][i] \in Senders \ {t}
         \/ t \in Senders /\ order'[p][i] = t /\ i = N + 1
  <2>1. CASE order'[p] = order[p]
    <3>1. DOMAIN order[p] = 1 .. Len(order[p]) /\ Len(order[p]) \in Nat
      BY DEF TypeOK
    <3> QED BY <1>1, <2>1, <3>1
  <2>2. CASE t \in Senders /\ Grown(order[p], order'[p], t)
    <3>1. PICK N \in Nat : /\ DOMAIN order[p] = 1 .. N /\ DOMAIN order'[p] = 1 .. (N + 1)
                           /\ order'[p][N + 1] = t
                           /\ \A k \in 1 .. N : order'[p][k] = order[p][k]
      BY <2>2 DEF Grown
    <3>2. ASSUME NEW i \in DOMAIN order'[p]
          PROVE  \/ i \in DOMAIN order[p] /\ i \in 1 .. N /\ order'[p][i] = order[p][i]
                    /\ order'[p][i] \in Senders \ {t}
                 \/ t \in Senders /\ order'[p][i] = t /\ i = N + 1
      <4>1. i \in 1 .. N \/ i = N + 1
        BY <3>1
      <4> QED BY <1>1, <2>2, <3>1, <4>1
    <3> QED BY <3>1, <3>2
  <2> QED BY <1>4, <2>1, <2>2
<1>8. \A q \in Peers : \A i \in DOMAIN order'[q] :
         \/ i \in DOMAIN order[q] /\ order'[q][i] = order[q][i] /\ order'[q][i] \in Senders \ {t}
         \/ q = p /\ t \in Senders /\ order'[q][i] = t /\ i = N + 1
  BY <1>1, <1>4, <1>7
<1>9. CallsOK'
  BY <1>2, <1>8 DEF DeliveryInv, CallsOK
<1>10. QueueOK'
  <2>1. ASSUME NEW q \in Peers, NEW m \in DOMAIN waiters'[q], NEW n \in DOMAIN waiters'[q]
        PROVE  /\ pc'[waiters'[q][m]] = "lock" /\ peer'[waiters'[q][m]] = q
               /\ waiters'[q][m] = waiters'[q][n] => m = n
    BY <1>2, <1>6 DEF DeliveryInv, QueueOK
  <2>2. ASSUME NEW u \in Tasks, pc'[u] = "lock"
        PROVE  \E n \in DOMAIN waiters'[peer'[u]] : waiters'[peer'[u]][n] = u
    <3>1. CASE u = t
      <4>1. W + 1 \in 1 .. (W + 1)
        OBVIOUS
      <4> QED BY <1>2, <1>5, <3>1, <4>1
    <3>2. CASE u # t
      <4>1. PICK n \in DOMAIN waiters[peer[u]] : waiters[peer[u]][n] = u
        BY <1>2, <2>2, <3>2 DEF DeliveryInv, QueueOK
      <4>2. n \in DOMAIN waiters'[peer[u]] /\ waiters'[peer[u]][n] = u
        BY <1>2, <1>3, <1>5, <4>1
      <4> QED BY <1>2, <3>2, <4>2
    <3> QED BY <3>1, <3>2
  <2> QED BY <2>1, <2>2 DEF QueueOK
<1>11. QueueInOrder'
  <2> SUFFICES ASSUME NEW q \in Peers, NEW i \in DOMAIN order'[q], NEW j \in DOMAIN order'[q],
                      NEW m \in DOMAIN waiters'[q], NEW n \in DOMAIN waiters'[q], i < j,
                      waiters'[q][m] = order'[q][i], waiters'[q][n] = order'[q][j]
               PROVE  m < n
    BY DEF QueueInOrder
  <2>1. CASE q # p
    BY <1>3, <1>4, <2>1 DEF DeliveryInv, QueueInOrder
  <2>2. CASE q = p
    <3>1. order'[p][i] # t
      BY <1>7, <2>2
    <3>2. i \in DOMAIN order[p] /\ order'[p][i] = order[p][i]
      BY <1>7, <2>2, <3>1
    <3>3. m \in 1 .. W /\ waiters'[p][m] = waiters[p][m]
      BY <1>5, <1>6, <2>2, <3>1
    <3>4. CASE order'[p][j] = t
      <4>1. n = W + 1
        BY <1>6, <2>2, <3>4
      <4> QED BY <3>3, <4>1
    <3>5. CASE order'[p][j] # t
      <4>1. j \in DOMAIN order[p] /\ order'[p][j] = order[p][j]
        BY <1>7, <2>2, <3>5
      <4>2. n \in DOMAIN waiters[p] /\ waiters'[p][n] = waiters[p][n]
        BY <1>6, <2>2, <3>5
      <4> QED BY <1>5, <2>2, <3>2, <3>3, <4>1, <4>2 DEF DeliveryInv, QueueInOrder
    <3> QED BY <3>4, <3>5
  <2> QED BY <2>1, <2>2
<1>12. WireOK' /\ DeliveredOK'
  <2>1. WireOK'
    BY <1>1, <1>2 DEF DeliveryInv, WireOK, GaveUp
  <2>2. \A u \in Senders : IsDelivered(u)' => IsDelivered(u) /\ u # t
    BY <1>1 DEF IsDelivered
  <2> QED BY <1>2, <2>1, <2>2 DEF DeliveryInv, DeliveredOK
<1>13. ServedInOrder'
  <2> SUFFICES ASSUME NEW q \in Peers, NEW i \in DOMAIN order'[q], NEW j \in DOMAIN order'[q],
                      i < j, NEW b, b = order'[q][j], Served(b)'
               PROVE  pc'[order'[q][i]] = "done"
    BY DEF ServedInOrder, Served, IsDelivered
  <2>1. b # t
    BY <1>1, <1>2 DEF Served, IsDelivered, Holding
  <2>2. j \in DOMAIN order[q] /\ order'[q][j] = order[q][j] /\ order[q][j] \in Senders
    BY <1>8, <2>1
  <2>3. b = order[q][j] /\ b \in Senders /\ Served(b)
    BY <1>2, <2>1, <2>2 DEF Served, IsDelivered
  <2>4. i \in DOMAIN order[q] /\ order'[q][i] = order[q][i] /\ order[q][i] \in Senders \ {t}
    BY <1>1, <1>4, <1>7, <2>1
  <2> QED BY <1>2, <2>2, <2>3, <2>4 DEF DeliveryInv, ServedInOrder
<1>14. AtMostOnce'
  BY DEF DeliveryInv, AtMostOnce
<1>15. DeliveryInOrder'
  BY <1>1, <1>2, <1>8 DEF DeliveryInv, DeliveryInOrder
<1> QED BY <1>9, <1>10, <1>11, <1>12, <1>13, <1>14, <1>15 DEF DeliveryInv

\* A task that leaves the lock's queue, with the lock or without, keeps the
\* invariant.
LEMMA LeaveQueueKeeps ==
    ASSUME TypeOK, LockInv, DeliveryInv, NEW t \in Tasks, pc[t] = "lock",
           NEW i0 \in DOMAIN waiters[peer[t]], waiters[peer[t]][i0] = t,
           Without(waiters[peer[t]], waiters'[peer[t]], i0),
           \A q \in Peers \ {peer[t]} : waiters'[q] = waiters[q],
           \/ pc'[t] = "done"
           \/ pc'[t] \in Holding /\ lock[peer[t]] = None /\ i0 = 1,
           \A u \in Tasks \ {t} : pc'[u] = pc[u] /\ task'[u] = task[u],
           UNCHANGED <<peer, order, wire, delivered>>
    PROVE  DeliveryInv'
<1>1. /\ t \notin wire
      /\ \A q \in Peers : \A k \in DOMAIN delivered[q] :
            delivered[q][k] \in Senders /\ delivered[q][k] # t
      /\ t \in Senders => ~Served(t)
  BY Absent
<1>2. PICK p \in Peers : p = peer[t]
  BY DEF TypeOK
<1>3. /\ \A q \in Peers : \A i \in DOMAIN order[q] : order[q][i] \in Senders
      /\ \A q \in Peers : \A m \in DOMAIN waiters[q] : waiters[q][m] \in Tasks
      /\ Senders \subseteq Tasks /\ wire \subseteq Senders /\ peer \in [Tasks -> Peers]
  <2>1. \A q \in Peers : \A i \in DOMAIN order[q] : order[q][i] \in Senders
    BY DEF TypeOK
  <2>2. \A q \in Peers : \A m \in DOMAIN waiters[q] : waiters[q][m] \in Tasks
    BY DEF TypeOK
  <2>3. Senders \subseteq Tasks /\ wire \subseteq Senders /\ peer \in [Tasks -> Peers]
    BY DEF TypeOK, Tasks
  <2> QED BY <2>1, <2>2, <2>3
<1>4. PICK N \in Nat : /\ DOMAIN waiters[p] = 1 .. (N + 1) /\ DOMAIN waiters'[p] = 1 .. N
                       /\ \A k \in 1 .. N : waiters'[p][k] = waiters[p][IF k < i0 THEN k ELSE k + 1]
  BY <1>2 DEF Without
<1>5. i0 \in 1 .. (N + 1) /\ waiters[p][i0] = t
  BY <1>2, <1>4
<1>6. pc'[t] \notin {"idle", "lock"}
  BY DEF Holding
\* Where an element of the new queue was.
<1> DEFINE Was(k) == IF k < i0 THEN k ELSE k + 1
<1>7. ASSUME NEW k \in DOMAIN waiters'[p]
      PROVE  /\ k \in 1 .. N /\ Was(k) \in DOMAIN waiters[p]
             /\ waiters'[p][k] = waiters[p][Was(k)] /\ waiters'[p][k] \in Tasks \ {t}
  <2>1. k \in 1 .. N /\ Was(k) \in 1 .. (N + 1) /\ Was(k) # i0
    BY <1>4, <1>5, <1>7
  <2>2. waiters'[p][k] = waiters[p][Was(k)]
    BY <1>4, <2>1
  <2>3. waiters[p][Was(k)] # t
    BY <1>4, <1>5, <2>1 DEF DeliveryInv, QueueOK
  <2>4. waiters[p][Was(k)] \in Tasks
    BY <1>3, <1>4, <2>1
  <2> QED BY <1>4, <2>1, <2>2, <2>3, <2>4
<1>8. CallsOK'
  BY <1>3, <1>6 DEF DeliveryInv, CallsOK
<1>9. QueueOK'
  <2>1. ASSUME NEW q \in Peers, NEW m \in DOMAIN waiters'[q], NEW n \in DOMAIN waiters'[q]
        PROVE  /\ pc'[waiters'[q][m]] = "lock" /\ peer'[waiters'[q][m]] = q
               /\ waiters'[q][m] = waiters'[q][n] => m = n
    <3>1. CASE q # p
      <4>1. waiters'[q] = waiters[q]
        BY <1>2, <3>1
      <4>2. waiters[q][m] # t
        BY <1>2, <3>1, <4>1 DEF DeliveryInv, QueueOK
      <4> QED BY <1>3, <4>1, <4>2 DEF DeliveryInv, QueueOK
    <3>2. CASE q = p
      <4>1. /\ pc[waiters[p][Was(m)]] = "lock" /\ peer[waiters[p][Was(m)]] = p
            /\ waiters[p][Was(m)] = waiters[p][Was(n)] => Was(m) = Was(n)
        BY <1>7, <3>2 DEF DeliveryInv, QueueOK
      <4>2. Was(m) = Was(n) => m = n
        BY <1>5, <1>7, <3>2
      <4>3. /\ waiters'[p][m] = waiters[p][Was(m)] /\ waiters'[p][m] \in Tasks \ {t}
            /\ waiters'[p][n] = waiters[p][Was(n)]
        BY <1>7, <3>2
      <4> HIDE DEF Was
      <4> QED BY <3>2, <4>1, <4>2, <4>3
    <3> QED BY <3>1, <3>2
  <2>2. ASSUME NEW u \in Tasks, pc'[u] = "lock"
        PROVE  \E n \in DOMAIN waiters'[peer'[u]] : waiters'[peer'[u]][n] = u
    <3>1. u # t
      BY <1>6, <2>2
    <3>2. PICK n \in DOMAIN waiters[peer[u]] : waiters[peer[u]][n] = u
      BY <2>2, <3>1 DEF DeliveryInv, QueueOK
    <3>3. CASE peer[u] # p
      BY <1>2, <1>3, <3>2, <3>3
    <3>4. CASE peer[u] = p
      <4>1. n \in 1 .. (N + 1) /\ n # i0
        BY <1>4, <1>5, <3>1, <3>2, <3>4
      <4>2. PICK k \in 1 .. N : Was(k) = n
        <5>1. CASE n < i0
          <6>1. n \in 1 .. N /\ Was(n) = n
            BY <1>5, <4>1, <5>1
          <6> QED BY <6>1
        <5>2. CASE ~(n < i0)
          <6>1. n - 1 \in 1 .. N /\ Was(n - 1) = n
            BY <1>5, <4>1, <5>2
          <6> QED BY <6>1
        <5> QED BY <5>1, <5>2
      <4>3. waiters'[p][k] = u
        BY <1>4, <3>2, <3>4, <4>2
      <4> QED BY <1>4, <3>4, <4>2, <4>3
    <3> QED BY <3>3, <3>4
  <2> QED BY <2>1, <2>2 DEF QueueOK
<1>10. QueueInOrder'
  <2> SUFFICES ASSUME NEW q \in Peers, NEW i \in DOMAIN order[q], NEW j \in DOMAIN order[q],
                      NEW m \in DOMAIN waiters'[q], NEW n \in DOMAIN waiters'[q], i < j,
                      waiters'[q][m] = order[q][i], waiters'[q][n] = order[q][j]
               PROVE  m < n
    BY DEF QueueInOrder
  <2>1. CASE q # p
    BY <1>2, <2>1 DEF DeliveryInv, QueueInOrder
  <2>2. CASE q = p
    <3>1. Was(m) < Was(n)
      BY <1>7, <2>2 DEF DeliveryInv, QueueInOrder
    <3> QED BY <1>5, <1>7, <2>2, <3>1
  <2> QED BY <2>1, <2>2
<1>11. WireOK' /\ DeliveredOK'
  <2>1. WireOK'
    BY <1>1, <1>3 DEF DeliveryInv, WireOK, GaveUp
  <2>2. \A u \in Senders : IsDelivered(u)' => IsDelivered(u) /\ u # t
    BY <1>1 DEF IsDelivered
  <2> QED BY <1>3, <2>1, <2>2 DEF DeliveryInv, DeliveredOK
<1>12. ServedInOrder'
  <2> SUFFICES ASSUME NEW q \in Peers, NEW i \in DOMAIN order[q], NEW j \in DOMAIN order[q],
                      i < j, NEW b, b = order[q][j], Served(b)'
               PROVE  pc'[order[q][i]] = "done"
    BY DEF ServedInOrder, Served, IsDelivered
  <2>1. order[q][i] \in Tasks /\ b \in Senders /\ order[q][i] # b
    <3>1. order[q] \in Seq(Senders)
      BY DEF TypeOK
    <3>2. i \in Nat /\ j \in Nat /\ i # j
      BY <3>1
    <3>3. order[q][i] # order[q][j]
      BY <3>2 DEF DeliveryInv, CallsOK
    <3> QED BY <1>3, <3>3
  <2>2. CASE b # t
    <3>1. Served(b)
      BY <1>3, <2>1, <2>2 DEF Served, IsDelivered
    <3>2. pc[order[q][i]] = "done"
      BY <3>1 DEF DeliveryInv, ServedInOrder
    <3> QED BY <2>1, <3>2
  <2>3. CASE b = t
    <3>1. pc'[t] \in Holding
      BY <1>1, <2>1, <2>3 DEF Served, IsDelivered
    <3>2. lock[p] = None /\ i0 = 1
      BY <1>2, <3>1 DEF Holding
    <3>3. q = p /\ pc[order[p][i]] # "idle" /\ peer[order[p][i]] = p
      <4>1. peer[order[q][j]] = q
        BY DEF DeliveryInv, CallsOK
      <4>2. pc[order[q][i]] # "idle" /\ peer[order[q][i]] = q
        BY DEF DeliveryInv, CallsOK
      <4> QED BY <1>2, <2>3, <4>1, <4>2
    <3>4. pc[order[p][i]] \notin Holding
      BY <2>1, <3>2, <3>3, ConstantsAssumption DEF LockInv, LockHeld
    <3>5. ASSUME pc[order[p][i]] = "lock" PROVE FALSE
      <4>1. PICK m \in DOMAIN waiters[p] : waiters[p][m] = order[p][i]
        BY <2>1, <3>3, <3>5 DEF DeliveryInv, QueueOK
      <4>2. i0 \in DOMAIN waiters[p] /\ waiters[p][i0] = order[p][j] /\ j \in DOMAIN order[p]
            /\ i \in DOMAIN order[p]
        BY <1>4, <1>5, <2>3, <3>3
      <4>3. m < i0
        BY <4>1, <4>2 DEF DeliveryInv, QueueInOrder
      <4> QED BY <1>4, <3>2, <4>1, <4>3
    <3>6. pc[order[p][i]] \in PCs
      BY <2>1, <3>3 DEF TypeOK
    <3>7. pc[order[p][i]] = "done"
      BY <3>3, <3>4, <3>5, <3>6 DEF Holding
    <3> QED BY <2>1, <2>3, <3>3, <3>7
  <2> QED BY <2>2, <2>3
<1>13. AtMostOnce'
  BY DEF DeliveryInv, AtMostOnce
<1>14. DeliveryInOrder'
  BY <1>1, <1>3 DEF DeliveryInv, DeliveryInOrder
<1> QED BY <1>8, <1>9, <1>10, <1>11, <1>12, <1>13, <1>14 DEF DeliveryInv

\* Getting the lock, and giving up while waiting for it, keep the invariant.
LEMMA AcquireKeeps ==
    ASSUME TypeOK, LockInv, DeliveryInv, NEW t \in Tasks,
           UNCHANGED <<peer, order, wire, delivered>>,
           \/ \E l \in Holding : Acquire(t, l) /\ UNCHANGED task
           \/ DropWaiting(t)
    PROVE  DeliveryInv'
<1>1. peer[t] \in Peers /\ waiters \in [Peers -> Seq(Tasks)] /\ waiters[peer[t]] \in Seq(Tasks)
  BY DEF TypeOK
<1>2. ASSUME NEW l \in Holding, Acquire(t, l), UNCHANGED task
      PROVE  DeliveryInv'
  <2>1. waiters'[peer[t]] = Tail(waiters[peer[t]])
        /\ \A q \in Peers \ {peer[t]} : waiters'[q] = waiters[q]
    BY <1>1, <1>2 DEF Acquire
  <2>2. /\ Without(waiters[peer[t]], waiters'[peer[t]], 1)
        /\ 1 \in DOMAIN waiters[peer[t]] /\ waiters[peer[t]][1] = t
    BY <1>1, <1>2, <2>1, SequenceShapes DEF Acquire
  <2>3. pc'[t] = l /\ \A u \in Tasks \ {t} : pc'[u] = pc[u]
    BY <1>2, GotoShape DEF Acquire
  <2> QED BY <1>2, <2>1, <2>2, <2>3, LeaveQueueKeeps DEF Acquire
<1>3. CASE DropWaiting(t)
  <2>1. PICK i \in DOMAIN waiters[peer[t]] :
           /\ waiters[peer[t]][i] = t
           /\ waiters' = [waiters EXCEPT ![peer[t]] = RemoveAt(@, i)]
    BY <1>3 DEF DropWaiting
  <2>2. waiters'[peer[t]] = RemoveAt(waiters[peer[t]], i)
        /\ \A q \in Peers \ {peer[t]} : waiters'[q] = waiters[q]
    BY <1>1, <2>1
  <2>3. Without(waiters[peer[t]], waiters'[peer[t]], i)
    BY <1>1, <2>2, SequenceShapes
  <2>4. pc'[t] = "done" /\ \A u \in Tasks \ {t} : pc'[u] = pc[u] /\ task'[u] = task[u]
    BY <1>3, FinishShape DEF DropWaiting
  <2> QED BY <1>3, <2>1, <2>2, <2>3, <2>4, LeaveQueueKeeps DEF DropWaiting
<1> QED BY <1>2, <1>3

\* What changes no queue, no call, no delivery and no result keeps it.
LEMMA FrameKeeps ==
    ASSUME TypeOK, DeliveryInv, UNCHANGED <<waiters, pc, peer, order, wire, delivered>>,
           \A t \in Tasks : task'[t].result = task[t].result
    PROVE  DeliveryInv'
<1>1. /\ \A q \in Peers : \A i \in DOMAIN order[q] : order[q][i] \in Tasks
      /\ wire \subseteq Tasks
  BY DEF TypeOK, Tasks
<1>2. CallsOK' /\ QueueOK' /\ QueueInOrder' /\ AtMostOnce'
  BY DEF DeliveryInv, CallsOK, QueueOK, QueueInOrder, AtMostOnce
<1>3. WireOK'
  BY <1>1 DEF DeliveryInv, WireOK, GaveUp
<1>4. DeliveredOK' /\ ServedInOrder'
  BY DEF DeliveryInv, DeliveredOK, ServedInOrder, Served, IsDelivered
<1>5. DeliveryInOrder'
  BY <1>1 DEF DeliveryInv, DeliveryInOrder
<1> QED BY <1>2, <1>3, <1>4, <1>5 DEF DeliveryInv

\* Every step keeps the invariant.
LEMMA NextDelivery ==
    ASSUME TypeOK, LockInv, DeliveryInv, [Next]_vars
    PROVE  DeliveryInv'
<1> USE DEF lockVars, historyVars
<1>1. Senders \subseteq Tasks /\ Receivers \subseteq Tasks
      /\ {"enumerate", "decrypt"} \subseteq Holding
  BY DEF Tasks, Holding, PCs
<1>2. ASSUME NEW t \in Senders, NEW c \in Calls, StartSend(t, c)
      PROVE  DeliveryInv'
  <2>1. c.peer \in Peers
    BY ConstantsAssumption
  <2>2. \A u \in Tasks \ {t} : task'[u] = task[u]
    BY <1>1, <1>2, UpdateShape DEF StartSend
  <2> QED BY <1>1, <1>2, <2>1, <2>2, EnqueueKeeps DEF StartSend
<1>3. ASSUME NEW t \in Receivers, NEW p \in Peers, NEW d \in Devices, StartDecrypt(t, p, d)
      PROVE  DeliveryInv'
  BY <1>1, <1>3, EnqueueKeeps DEF StartDecrypt
<1>4. ASSUME NEW t \in Senders, SenderNext(t)
      PROVE  DeliveryInv'
  <2>1. CASE AcquireSend(t)
    BY <1>1, <2>1, AcquireKeeps DEF AcquireSend
  <2> QED BY <1>1, <1>2, <1>4, <2>1, SendMove, MoveKeeps DEF SenderNext
<1>5. ASSUME NEW t \in Receivers, ReceiverNext(t)
      PROVE  DeliveryInv'
  <2>1. CASE AcquireDecrypt(t)
    BY <1>1, <2>1, AcquireKeeps DEF AcquireDecrypt
  <2> QED BY <1>1, <1>3, <1>5, <2>1, OtherMoves, MoveKeeps DEF ReceiverNext
<1>6. ASSUME NEW t \in Tasks, EarlyEnd(t)
      PROVE  DeliveryInv'
  <2>1. CASE DropWaiting(t)
    BY <2>1, AcquireKeeps DEF DropWaiting
  <2> QED BY <1>6, <2>1, OtherMoves, MoveKeeps DEF EarlyEnd
<1>7. CASE ServerStep
  <2>1. ASSUME NEW p, NEW regs, ChangeDevices(p, regs)
        PROVE  DeliveryInv'
    <3>1. ASSUME NEW t \in Tasks PROVE task'[t].result = task[t].result
      <4>1. task[t] \in Locals
        BY TaskTypes
      <4>2. task'[t] = IF peer[t] = p /\ pc[t] # "done"
                         THEN [task[t] EXCEPT !.quiet = FALSE] ELSE task[t]
        BY <2>1 DEF ChangeDevices
      <4> QED BY <4>1, <4>2 DEF Locals
    <3> QED BY <2>1, <3>1, FrameKeeps DEF ChangeDevices
  <2>2. ASSUME NEW t \in Senders, LateArrival(t)
        PROVE  DeliveryInv'
    BY <1>1, <2>2, LateMove, MoveKeeps
  <2> QED BY <1>7, <2>1, <2>2 DEF ServerStep, LinkDevice, UnlinkDevice, Register, Unregister
<1>8. CASE Terminated \/ UNCHANGED vars
  BY <1>8, FrameKeeps DEF Terminated, vars
<1> QED BY <1>4, <1>5, <1>6, <1>7, <1>8 DEF Next

\* At first nothing has been called.
LEMMA InitDelivery == Init => DeliveryInv
BY DEF Init, DeliveryInv, CallsOK, QueueOK, QueueInOrder, WireOK, DeliveredOK, IsDelivered,
       ServedInOrder, AtMostOnce, DeliveryInOrder

\* The queue, the lock, the wire and the deliveries agree in every state.
LEMMA DeliveryInvariant == Spec => []DeliveryInv
<1>1. TypeOK /\ LockInv /\ DeliveryInv /\ [Next]_vars => DeliveryInv'
  BY NextDelivery
<1> QED BY <1>1, InitDelivery, TypeCorrect, LockInvariant, PTL DEF Spec

\* However often a call retries, whatever answers are lost and whenever its
\* future is dropped, the server accepts its message at most once: an attempt
\* is repeated only after an answer that says it was not accepted.
THEOREM DeliveredOnce == Spec => []AtMostOnce
<1>1. DeliveryInv => AtMostOnce
  BY DEF DeliveryInv
<1> QED BY <1>1, DeliveryInvariant, PTL

\* Deliveries to one peer come in the order of the calls of try_send_content,
\* but for those that their callers had given up on.
THEOREM DeliveredInOrder == Spec => []DeliveryInOrder
<1>1. DeliveryInv => DeliveryInOrder
  BY DEF DeliveryInv
<1> QED BY <1>1, DeliveryInvariant, PTL

-----------------------------------------------------------------------------
(* What the server rejected is not sent again, and no session is built with  *)
(* this device.  A registration id that was called stale or extra is never   *)
(* the server's again, so a session for it can come from nowhere once the    *)
(* repair has deleted it: while the task holds the lock, nobody else stores. *)

Issued == 1 .. (changes + 2)

\* Registration ids come from the server, in the order it gave them out.
RegsIssued ==
    \A p \in Peers, d \in Devices :
        /\ srv[p][d] \in Issued \cup {0}
        /\ sessions[p][d] # NoSession => sessions[p][d].reg \in Issued

Encrypting == {"ensure", "fetch", "process", "load", "store"}

\* This device is neither sent to nor asked for.
OwnDeviceSpared(t) ==
    /\ task[t].todo \cap SenderDevice(peer[t]) = {}
    /\ task[t].missing \cap SenderDevice(peer[t]) = {}
    /\ \A m \in task[t].msgs : m.dev \notin SenderDevice(peer[t])
    /\ pc[t] \in Encrypting => dev[t] \notin SenderDevice(peer[t])

\* Bundles and devices to repair are there only where they are dealt with, and
\* nothing is rejected before there was an answer.
TidyLocals(t) ==
    /\ pc[t] # "repair" => task[t].extra = {} /\ task[t].missing = {}
    /\ pc[t] # "process" => task[t].bundles = {}
    /\ pc[t] \in {"idle", "lock"} => task[t].rejected = {}

\* What was rejected is gone from the server for good, from the store once
\* repaired, and from what is fetched and built meanwhile.
RejectedGone(t) ==
    /\ \A m \in task[t].msgs \cup task[t].bundles \cup task[t].rejected : m.reg \in Issued
    /\ \A m \in task[t].rejected :
          /\ srv[peer[t]][m.dev] # m.reg
          /\ pc[t] \in Holding =>
                m.dev \in task[t].extra \/ sessions[peer[t]][m.dev].reg # m.reg
    /\ task[t].bundles \cap task[t].rejected = {}
    /\ pc[t] \in Encrypting \cup {"device", "posted"} => task[t].msgs \cap task[t].rejected = {}

RepairOK(t) == OwnDeviceSpared(t) /\ TidyLocals(t) /\ RejectedGone(t)

\* No envelope comes from this device.
EnvelopesForeign ==
    \A t \in Receivers :
        pc[t] \in {"lock", "decrypt", "write"} => dev[t] \notin SenderDevice(peer[t])

RepairInv ==
    /\ NoSessionWithSelf /\ RegsIssued /\ EnvelopesForeign
    /\ \A t \in Senders : RepairOK(t)

\* What a step for peer p leaves true of the store: it changes p's records only,
\* to issued registration ids, and has none with this device.
StoreFine(p) ==
    /\ NoSessionWithSelf' /\ RegsIssued'
    /\ \A q \in Peers \ {p} : sessions'[q] = sessions[q]

\* A step that leaves the store and the server alone.
LEMMA SameStore ==
    ASSUME RepairInv, NEW p \in Peers, UNCHANGED <<sessions, srv, changes>>
    PROVE  StoreFine(p)
BY DEF StoreFine, RepairInv, NoSessionWithSelf, RegsIssued, Issued

\* A device that is not spared at all is no reason to pass over a bundle.
LEMMA OwnBundleSpared ==
    ASSUME NEW p, NEW d, d \notin SenderDevice(p)
    PROVE  d \notin OwnBundle(p)
BY DEF SenderDevice, OwnBundle, OwnIds

\* process_prekey_bundle for a bundle that is not passed over, with an issued id.
LEMMA BuildFine ==
    ASSUME TypeOK, RepairInv, NEW p \in Peers, NEW d \in Devices, NEW reg \in Issued,
           d \notin OwnBundle(p), BuildSession(p, d, reg), UNCHANGED <<srv, changes>>
    PROVE  /\ StoreFine(p)
           /\ sessions'[p][d].reg = reg
           /\ \A e \in Devices \ {d} : sessions'[p][e] = sessions[p][e]
<1>1. sessions \in [Peers -> [Devices -> Session]]
  BY DEF TypeOK
<1>2. PICK s : s = [chain |-> chains[p][d] + 1, snd |-> 0, reg |-> reg, usable |-> TRUE]
  OBVIOUS
<1>3. sessions' = [sessions EXCEPT ![p][d] = s] /\ s.reg = reg
  BY <1>2 DEF BuildSession
<1>4. /\ sessions'[p][d] = s
      /\ \A e \in Devices \ {d} : sessions'[p][e] = sessions[p][e]
      /\ \A q \in Peers \ {p} : sessions'[q] = sessions[q]
  BY <1>1, <1>3
<1>5. NoSessionWithSelf'
  <2>1. ~(p = Self /\ d = OwnDevice) /\ Self \in Peers /\ OwnDevice \in Devices
    BY ConstantsAssumption DEF OwnBundle
  <2> QED BY <1>4, <2>1 DEF RepairInv, NoSessionWithSelf
<1>6. RegsIssued'
  BY <1>3, <1>4 DEF RepairInv, RegsIssued, Issued
<1> QED BY <1>3, <1>4, <1>5, <1>6 DEF StoreFine

\* A deletion.
LEMMA DeleteFine ==
    ASSUME TypeOK, RepairInv, NEW p \in Peers, NEW d \in Devices,
           DeleteSession(p, d), UNCHANGED <<srv, changes>>
    PROVE  /\ StoreFine(p)
           /\ sessions'[p][d] = NoSession
           /\ \A e \in Devices \ {d} : sessions'[p][e] = sessions[p][e]
<1>1. sessions \in [Peers -> [Devices -> Session]]
  BY DEF TypeOK
<1>2. /\ sessions'[p][d] = NoSession
      /\ \A e \in Devices \ {d} : sessions'[p][e] = sessions[p][e]
      /\ \A q \in Peers \ {p} : sessions'[q] = sessions[q]
  BY <1>1 DEF DeleteSession
<1>3. NoSessionWithSelf'
  BY <1>2, ConstantsAssumption DEF RepairInv, NoSessionWithSelf
<1>4. RegsIssued'
  BY <1>2 DEF RepairInv, RegsIssued, Issued
<1> QED BY <1>2, <1>3, <1>4 DEF StoreFine

\* A record is written back with the registration id it had.
LEMMA RewriteFine ==
    ASSUME TypeOK, RepairInv, NEW p \in Peers, NEW d \in Devices, NEW s,
           sessions[p][d] # NoSession, s.reg = sessions[p][d].reg,
           sessions' = [sessions EXCEPT ![p][d] = s], UNCHANGED <<srv, changes>>
    PROVE  /\ StoreFine(p)
           /\ \A e \in Devices : sessions'[p][e].reg = sessions[p][e].reg
<1>1. sessions \in [Peers -> [Devices -> Session]]
  BY DEF TypeOK
<1>2. /\ sessions'[p][d] = s
      /\ \A e \in Devices \ {d} : sessions'[p][e] = sessions[p][e]
      /\ \A q \in Peers \ {p} : sessions'[q] = sessions[q]
  BY <1>1
<1>3. NoSessionWithSelf'
  BY <1>2, ConstantsAssumption DEF RepairInv, NoSessionWithSelf
<1>4. RegsIssued'
  BY <1>2 DEF RepairInv, RegsIssued, Issued
<1> QED BY <1>2, <1>3, <1>4 DEF StoreFine

\* A step of one task leaves the others what they had: those that work on the
\* same peer do not have the lock.
LEMMA OneTaskRepair ==
    ASSUME TypeOK, LockInv, RepairInv, NEW t \in Tasks,
           UNCHANGED <<srv, changes>>,
           \/ UNCHANGED sessions
           \/ pc[t] \in Holding /\ \A q \in Peers \ {peer[t]} : sessions'[q] = sessions[q],
           \A u \in Tasks \ {t} : /\ pc'[u] = pc[u] /\ task'[u] = task[u]
                                  /\ peer'[u] = peer[u] /\ dev'[u] = dev[u],
           NoSessionWithSelf', RegsIssued',
           t \in Senders => RepairOK(t)',
           t \in Receivers /\ pc'[t] \in {"lock", "decrypt", "write"}
              => dev'[t] \notin SenderDevice(peer'[t])
    PROVE  RepairInv'
<1>1. Senders \subseteq Tasks /\ Receivers \subseteq Tasks /\ peer \in [Tasks -> Peers]
  BY DEF TypeOK, Tasks
<1>2. ASSUME NEW u \in Senders \ {t} PROVE RepairOK(u)'
  <2>1. /\ pc'[u] = pc[u] /\ task'[u] = task[u] /\ peer'[u] = peer[u] /\ dev'[u] = dev[u]
        /\ RepairOK(u)
    BY <1>1, <1>2 DEF RepairInv
  <2>2. pc[u] \in Holding => sessions'[peer[u]] = sessions[peer[u]]
    BY <1>1, <1>2 DEF LockInv, LockHeld
  <2>3. OwnDeviceSpared(u)' /\ TidyLocals(u)'
    BY <2>1 DEF RepairOK, OwnDeviceSpared, TidyLocals
  <2>4. RejectedGone(u)'
    BY <2>1, <2>2 DEF RepairOK, RejectedGone, Issued
  <2> QED BY <2>3, <2>4 DEF RepairOK
<1>3. EnvelopesForeign'
  BY <1>1 DEF RepairInv, EnvelopesForeign
<1> QED BY <1>2, <1>3 DEF RepairInv

\* A sender's end, or a drop while it waits.
LEMMA FinishRepair ==
    ASSUME TypeOK, RepairInv, NEW t \in Senders, NEW r, Finish(t, r),
           UNCHANGED <<srv, changes, peer>>
    PROVE  RepairOK(t)'
<1>1. t \in Tasks /\ task[t] \in Locals /\ RepairOK(t) /\ pc'[t] = "done"
  BY TaskTypes, FinishShape DEF Tasks, RepairInv
<1>2. PICK x : /\ x.todo = {} /\ x.missing = {} /\ x.extra = {} /\ x.bundles = {}
               /\ x.msgs \subseteq task[t].msgs /\ x.rejected = task[t].rejected
               /\ task' = [task EXCEPT ![t] = x]
  <2> DEFINE x == [NoLocals EXCEPT
                    !.result = r, !.attempt = task[t].attempt,
                    !.msgs = IF pc[t] = "posted" THEN task[t].msgs ELSE {},
                    !.rejected = task[t].rejected,
                    !.quiet = /\ task[t].quiet
                              /\ pc[t] = "posted" => r # "MaximumRetriesLimitExceeded"]
  <2>1. /\ x.todo = {} /\ x.missing = {} /\ x.extra = {} /\ x.bundles = {}
        /\ x.msgs \subseteq task[t].msgs /\ x.rejected = task[t].rejected
    BY DEF NoLocals
  <2>2. task' = [task EXCEPT ![t] = x]
    BY DEF Finish, Update
  <2> QED BY <2>1, <2>2
<1>3. task'[t] = x
  BY <1>1, <1>2 DEF TypeOK
<1>4. OwnDeviceSpared(t)' /\ TidyLocals(t)'
  BY <1>1, <1>2, <1>3 DEF RepairOK, OwnDeviceSpared, TidyLocals, Encrypting
<1>5. RejectedGone(t)'
  BY <1>1, <1>2, <1>3 DEF RepairOK, RejectedGone, Issued, Encrypting, Holding
<1> QED BY <1>4, <1>5 DEF RepairOK

\* The values the repair invariant speaks of have their types.
LEMMA RepairValues ==
    ASSUME TypeOK, NEW t \in Senders
    PROVE  /\ t \in Tasks /\ task[t] \in Locals /\ peer[t] \in Peers /\ dev[t] \in Devices
           /\ task[t].msgs \subseteq Target /\ task[t].bundles \subseteq Target
           /\ task[t].rejected \subseteq Target
           /\ \A m \in Target : m.dev \in Devices /\ m.reg \in Nat
                               /\ m = [dev |-> m.dev, reg |-> m.reg]
<1>1. t \in Tasks /\ task[t] \in Locals /\ peer[t] \in Peers /\ dev[t] \in Devices
  BY TaskTypes DEF Tasks
<1>2. /\ task[t].msgs \subseteq Target /\ task[t].bundles \subseteq Target
      /\ task[t].rejected \subseteq Target
  BY <1>1 DEF Locals
<1>3. \A m \in Target : m.dev \in Devices /\ m.reg \in Nat
                        /\ m = [dev |-> m.dev, reg |-> m.reg]
  BY DEF Target
<1> QED BY <1>1, <1>2, <1>3

\* A message made from the stored record is none of the rejected ones.
LEMMA MadeFromRecord ==
    ASSUME TypeOK, RepairInv, NEW t \in Senders, pc[t] \in Encrypting,
           sessions[peer[t]][dev[t]] # NoSession, NEW x,
           x.msgs = task[t].msgs \cup {[dev |-> dev[t], reg |-> sessions[peer[t]][dev[t]].reg]},
           x.todo = task[t].todo, x.missing = task[t].missing, x.extra = task[t].extra,
           x.bundles = task[t].bundles, x.rejected = task[t].rejected,
           Update(t, x), Goto(t, "device"), UNCHANGED <<peer, srv, changes>>,
           pc[t] # "process",
           \A d \in Devices : sessions'[peer[t]][d].reg = sessions[peer[t]][d].reg
    PROVE  RepairOK(t)'
<1>1. /\ t \in Tasks /\ task[t] \in Locals /\ peer[t] \in Peers /\ dev[t] \in Devices
      /\ task[t].rejected \subseteq Target
      /\ \A m \in Target : m.dev \in Devices
  BY RepairValues
<1>2. RepairOK(t)
  BY DEF RepairInv
<1>3. pc'[t] = "device" /\ task'[t] = x
  BY <1>1, GotoShape, UpdateShape
<1>4. PICK m0 : m0 = [dev |-> dev[t], reg |-> sessions[peer[t]][dev[t]].reg]
  OBVIOUS
<1>5. m0.dev = dev[t] /\ m0.reg = sessions[peer[t]][dev[t]].reg
  BY <1>4
<1>6. m0.reg \in Issued
  BY <1>1, <1>5 DEF RepairInv, RegsIssued
<1>7. pc[t] \in Holding /\ pc[t] # "repair"
  BY DEF Encrypting, Holding, PCs
<1>8. m0 \notin task[t].rejected
  BY <1>2, <1>5, <1>7 DEF RepairOK, TidyLocals, RejectedGone
<1>9. x.msgs = task[t].msgs \cup {m0}
  BY <1>4
<1>10. OwnDeviceSpared(t)'
  BY <1>2, <1>3, <1>5, <1>9 DEF RepairOK, OwnDeviceSpared, Encrypting
<1>11. TidyLocals(t)'
  BY <1>2, <1>3, <1>7 DEF RepairOK, TidyLocals
<1>12. RejectedGone(t)'
  <2>1. \A m \in x.msgs \cup x.bundles \cup x.rejected : m.reg \in Issued
    BY <1>2, <1>6, <1>9 DEF RepairOK, RejectedGone
  <2>2. x.msgs \cap x.rejected = {} /\ x.bundles \cap x.rejected = {}
    BY <1>2, <1>8, <1>9 DEF RepairOK, RejectedGone
  <2>3. \A m \in x.rejected : /\ srv[peer[t]][m.dev] # m.reg
                              /\ sessions'[peer[t]][m.dev].reg # m.reg
    BY <1>1, <1>2, <1>7 DEF RepairOK, RejectedGone, TidyLocals
  <2> QED BY <1>3, <2>1, <2>2, <2>3 DEF RejectedGone, Issued
<1> QED BY <1>10, <1>11, <1>12 DEF RepairOK

\* A sender that only goes on to the next await.
LEMMA GoOnRepair ==
    ASSUME TypeOK, RepairInv, NEW t \in Senders, pc[t] \in Encrypting, NEW l \in Encrypting,
           Goto(t, l), pc[t] = "process" => task[t].bundles = {},
           UNCHANGED <<task, peer, dev, sessions, srv, changes>>
    PROVE  RepairOK(t)'
<1>1. t \in Tasks /\ RepairOK(t)
  BY RepairValues DEF RepairInv
<1>2. pc'[t] = l
  BY <1>1, GotoShape
<1>3. pc[t] \in Holding /\ pc[t] # "repair" /\ l # "repair" /\ l \notin {"idle", "lock"}
  BY DEF Encrypting, Holding, PCs
<1>4. OwnDeviceSpared(t)'
  BY <1>1, <1>2 DEF RepairOK, OwnDeviceSpared
<1>5. TidyLocals(t)'
  BY <1>1, <1>2, <1>3 DEF RepairOK, TidyLocals
<1>6. RejectedGone(t)'
  BY <1>1, <1>2, <1>3 DEF RepairOK, RejectedGone, Issued
<1> QED BY <1>4, <1>5, <1>6 DEF RepairOK

\* create_encrypted_message keeps what was rejected away.
LEMMA EncryptRepair ==
    ASSUME TypeOK, LockInv, RepairInv, NEW t \in Senders, EncryptStep(t)
    PROVE  RepairOK(t)' /\ StoreFine(peer[t])
<1> USE DEF serverVars, storeVars
<1>1. /\ t \in Tasks /\ task[t] \in Locals /\ peer[t] \in Peers /\ dev[t] \in Devices
      /\ task[t].msgs \subseteq Target /\ task[t].bundles \subseteq Target
      /\ task[t].rejected \subseteq Target
      /\ \A m \in Target : m.dev \in Devices /\ m.reg \in Nat
                          /\ m = [dev |-> m.dev, reg |-> m.reg]
  BY RepairValues
<1>2. RepairOK(t) /\ {"ensure", "fetch", "process", "load", "store"} \subseteq Encrypting
  BY DEF RepairInv, Encrypting
<1>3. CASE EnsureSession(t) \/ BundlesProcessed(t) \/ LoadUsable(t)
  BY <1>1, <1>2, <1>3, GoOnRepair, SameStore DEF EnsureSession, BundlesProcessed, LoadUsable
<1>4. ASSUME NEW D \in SUBSET Devices, FetchPreKeys(t, D)
      PROVE  RepairOK(t)' /\ StoreFine(peer[t])
  <2>1. StoreFine(peer[t])
    BY <1>1, <1>4, SameStore DEF FetchPreKeys
  <2>2. PICK B : B = Bundles(peer[t], D)
    OBVIOUS
  <2>3. PICK x : x = [task[t] EXCEPT !.bundles = B,
                                     !.quiet = @ /\ D = KeysAsked(peer[t], dev[t])]
    OBVIOUS
  <2>4. /\ x.msgs = task[t].msgs /\ x.todo = task[t].todo /\ x.missing = task[t].missing
        /\ x.extra = task[t].extra /\ x.bundles = B /\ x.rejected = task[t].rejected
    BY <1>1, <2>3 DEF Locals
  <2>5. pc[t] = "fetch" /\ pc'[t] = "process" /\ task'[t] = x
    BY <1>1, <1>4, <2>2, <2>3, GotoShape, UpdateShape DEF FetchPreKeys
  <2>6. ASSUME NEW m \in B PROVE m.reg = srv[peer[t]][m.dev] /\ m.reg \in Issued
    <3>1. PICK d \in D : m = [dev |-> d, reg |-> srv[peer[t]][d]]
      BY <2>2, <2>6 DEF Bundles
    <3>2. srv[peer[t]][d] # 0 /\ d \in Devices
      BY <1>4, <3>1 DEF FetchPreKeys, KeysAsked, Linked
    <3>3. m.dev = d /\ m.reg = srv[peer[t]][d]
      BY <3>1
    <3> QED BY <1>1, <3>2, <3>3 DEF RepairInv, RegsIssued
  <2>7. OwnDeviceSpared(t)'
    BY <1>2, <1>4, <2>4, <2>5 DEF FetchPreKeys, RepairOK, OwnDeviceSpared
  <2>8. TidyLocals(t)'
    BY <1>2, <2>4, <2>5 DEF RepairOK, TidyLocals
  <2>9. RejectedGone(t)'
    <3>1. \A m \in x.msgs \cup x.bundles \cup x.rejected : m.reg \in Issued
      BY <1>2, <2>4, <2>6 DEF RepairOK, RejectedGone
    <3>2. x.bundles \cap x.rejected = {}
      BY <1>2, <2>4, <2>6 DEF RepairOK, RejectedGone
    <3>3. x.msgs \cap x.rejected = {}
      BY <1>2, <2>4, <2>5 DEF RepairOK, RejectedGone
    <3>4. \A m \in x.rejected : /\ srv[peer[t]][m.dev] # m.reg
                                /\ m.dev \in x.extra \/ sessions[peer[t]][m.dev].reg # m.reg
      BY <1>2, <2>4, <2>5 DEF RepairOK, RejectedGone, Holding, PCs
    <3>5. peer' = peer /\ sessions' = sessions /\ srv' = srv /\ changes' = changes
      BY <1>4 DEF FetchPreKeys
    <3>6. \A m \in x.rejected :
             /\ srv'[peer'[t]][m.dev] # m.reg
             /\ m.dev \in x.extra \/ sessions'[peer'[t]][m.dev].reg # m.reg
      BY <3>4, <3>5
    <3>7. Issued' = Issued
      BY <3>5 DEF Issued
    <3> QED BY <2>5, <3>1, <3>2, <3>3, <3>6, <3>7 DEF RejectedGone
  <2> QED BY <2>1, <2>7, <2>8, <2>9 DEF RepairOK
<1>5. CASE PreKeysNotFound(t)
  BY <1>1, <1>5, FinishRepair, SameStore DEF PreKeysNotFound
<1>6. ASSUME NEW b \in task[t].bundles, ProcessBundle(t, b)
      PROVE  RepairOK(t)' /\ StoreFine(peer[t])
  <2>1. PICK x : x = [task[t] EXCEPT !.bundles = @ \ {b}]
    OBVIOUS
  <2>2. /\ x.msgs = task[t].msgs /\ x.todo = task[t].todo /\ x.missing = task[t].missing
        /\ x.extra = task[t].extra /\ x.bundles = task[t].bundles \ {b}
        /\ x.rejected = task[t].rejected
    BY <1>1, <2>1 DEF Locals
  <2>3. pc[t] = "process" /\ pc' = pc /\ task'[t] = x
    BY <1>1, <1>6, <2>1, UpdateShape DEF ProcessBundle
  <2>4. b \in Target /\ b.dev \in Devices /\ b.reg \in Issued /\ b \notin task[t].rejected
    BY <1>1, <1>2, <1>6 DEF RepairOK, RejectedGone
  <2>5. /\ StoreFine(peer[t])
        /\ \A m \in task[t].rejected :
              m.dev \in task[t].extra \/ sessions'[peer[t]][m.dev].reg # m.reg
    <3>1. \A m \in task[t].rejected :
             m.dev \in task[t].extra \/ sessions[peer[t]][m.dev].reg # m.reg
      BY <1>2, <2>3 DEF RepairOK, RejectedGone, Holding, PCs
    <3>2. CASE b.dev \in OwnBundle(peer[t])
      BY <1>1, <1>6, <3>1, <3>2, SameStore DEF ProcessBundle
    <3>3. CASE b.dev \notin OwnBundle(peer[t])
      <4>1. /\ StoreFine(peer[t])
            /\ sessions'[peer[t]][b.dev].reg = b.reg
            /\ \A e \in Devices \ {b.dev} : sessions'[peer[t]][e] = sessions[peer[t]][e]
        BY <1>1, <1>6, <2>4, <3>3, BuildFine DEF ProcessBundle
      <4>2. \A m \in task[t].rejected : m.dev = b.dev => m.reg # b.reg
        BY <1>1, <2>4
      <4> QED BY <1>1, <3>1, <4>1, <4>2
    <3> QED BY <3>2, <3>3
  <2>6. OwnDeviceSpared(t)'
    BY <1>2, <1>6, <2>2, <2>3 DEF ProcessBundle, RepairOK, OwnDeviceSpared
  <2>7. TidyLocals(t)'
    BY <1>2, <2>2, <2>3 DEF RepairOK, TidyLocals
  <2>8. RejectedGone(t)'
    <3>1. /\ \A m \in x.msgs \cup x.bundles \cup x.rejected : m.reg \in Issued
          /\ \A m \in x.rejected : srv[peer[t]][m.dev] # m.reg
          /\ x.bundles \cap x.rejected = {}
      BY <1>2, <2>2 DEF RepairOK, RejectedGone
    <3>2. x.msgs \cap x.rejected = {}
      BY <1>2, <2>2, <2>3 DEF RepairOK, RejectedGone
    <3>3. peer' = peer /\ srv' = srv /\ changes' = changes
      BY <1>6 DEF ProcessBundle
    <3>4. \A m \in x.rejected :
             /\ srv'[peer'[t]][m.dev] # m.reg
             /\ m.dev \in x.extra \/ sessions'[peer'[t]][m.dev].reg # m.reg
      BY <2>2, <2>5, <3>1, <3>3
    <3>5. Issued' = Issued
      BY <3>3 DEF Issued
    <3> QED BY <2>3, <3>1, <3>2, <3>4, <3>5 DEF RejectedGone
  <2> QED BY <2>5, <2>6, <2>7, <2>8 DEF RepairOK
<1>7. CASE StoreRatchet(t)
  <2>1. pc[t] = "store" /\ snap[t] = sessions[peer[t]][dev[t]] /\ snap[t].usable
    BY <1>1, <1>7 DEF StoreRatchet, LockInv, SnapCurrent, SnapUsable
  <2>2. sessions[peer[t]][dev[t]] # NoSession /\ snap[t] \in Session
    BY <1>1, <2>1, TaskTypes DEF NoSession, Abs!NoSession
  <2>3. PICK s : s = [snap[t] EXCEPT !.snd = @ + 1]
    OBVIOUS
  <2>4. s.reg = sessions[peer[t]][dev[t]].reg
    BY <2>1, <2>2, <2>3 DEF Session, Abs!Session
  <2>5. /\ StoreFine(peer[t])
        /\ \A e \in Devices : sessions'[peer[t]][e].reg = sessions[peer[t]][e].reg
    <3>1. sessions' = [sessions EXCEPT ![peer[t]][dev[t]] = s]
      BY <1>7, <2>3 DEF StoreRatchet
    <3>2. UNCHANGED <<srv, changes>>
      BY <1>7 DEF StoreRatchet
    <3> QED BY <1>1, <2>2, <2>4, <3>1, <3>2, RewriteFine
  <2>6. PICK m : m = [dev |-> dev[t], reg |-> sessions[peer[t]][dev[t]].reg]
    OBVIOUS
  <2>7. PICK x : x = [task[t] EXCEPT !.msgs = @ \cup {m}]
    OBVIOUS
  <2>8. /\ x.msgs = task[t].msgs \cup {m} /\ x.todo = task[t].todo
        /\ x.missing = task[t].missing /\ x.extra = task[t].extra
        /\ x.bundles = task[t].bundles /\ x.rejected = task[t].rejected
    BY <1>1, <2>7 DEF Locals
  <2>9. Update(t, x)
    BY <1>7, <2>1, <2>6, <2>7 DEF StoreRatchet
  <2> QED BY <1>2, <1>7, <2>1, <2>2, <2>5, <2>6, <2>8, <2>9, MadeFromRecord DEF StoreRatchet
<1> QED BY <1>3, <1>4, <1>5, <1>6, <1>7 DEF EncryptStep

\* A sender that goes on with what was rejected as it was.
LEMMA OnwardRepair ==
    ASSUME TypeOK, RepairInv, NEW t \in Senders, NEW x, task'[t] = x,
           x.extra = task[t].extra, x.missing = task[t].missing,
           x.bundles = task[t].bundles, x.rejected = task[t].rejected,
           x.msgs \subseteq task[t].msgs, x.todo \cap SenderDevice(peer[t]) = {},
           pc'[t] \in Holding \ {"repair", "process"},
           task[t].extra = {}, task[t].missing = {}, task[t].bundles = {},
           pc'[t] \in Encrypting => dev'[t] \notin SenderDevice(peer[t]),
           pc'[t] \in Encrypting \cup {"device", "posted"} => x.msgs \cap x.rejected = {},
           peer' = peer, srv' = srv, changes' = changes,
           \A m \in task[t].rejected : sessions'[peer[t]][m.dev].reg # m.reg
    PROVE  RepairOK(t)'
<1>1. RepairOK(t)
  BY DEF RepairInv
<1>2. OwnDeviceSpared(t)'
  BY <1>1 DEF RepairOK, OwnDeviceSpared
<1>3. TidyLocals(t)'
  BY DEF TidyLocals, Holding
<1>4. RejectedGone(t)'
  <2>1. /\ \A m \in x.msgs \cup x.bundles \cup x.rejected : m.reg \in Issued
        /\ \A m \in x.rejected : srv[peer[t]][m.dev] # m.reg
        /\ x.bundles \cap x.rejected = {}
    BY <1>1 DEF RepairOK, RejectedGone
  <2>2. Issued' = Issued
    BY DEF Issued
  <2> QED BY <2>1, <2>2 DEF RejectedGone
<1> QED BY <1>2, <1>3, <1>4 DEF RepairOK

\* Where nothing is being repaired or fetched.
LEMMA Tidy ==
    ASSUME TypeOK, RepairInv, NEW t \in Senders, pc[t] \in Holding,
           \/ pc[t] \notin {"repair", "process"}
           \/ pc[t] = "repair" /\ task[t].extra = {} /\ task[t].missing = {}
    PROVE  /\ task[t].extra = {} /\ task[t].missing = {} /\ task[t].bundles = {}
           /\ task[t].todo \cap SenderDevice(peer[t]) = {}
           /\ \A m \in task[t].rejected : /\ m.reg \in Issued
                                          /\ sessions[peer[t]][m.dev].reg # m.reg
<1>1. RepairOK(t)
  BY DEF RepairInv
<1>2. task[t].extra = {} /\ task[t].missing = {} /\ task[t].bundles = {}
  BY <1>1 DEF RepairOK, TidyLocals
<1> QED BY <1>1, <1>2 DEF RepairOK, OwnDeviceSpared, RejectedGone

\* The next turn of the retry loop.
LEMMA RetryRepair ==
    ASSUME TypeOK, RepairInv, NEW t \in Senders, NEW x \in Locals, Retry(t, x),
           \/ pc[t] = "posted"
           \/ pc[t] = "repair" /\ task[t].extra = {} /\ task[t].missing = {},
           x.extra = task[t].extra, x.missing = task[t].missing,
           x.bundles = task[t].bundles, x.rejected = task[t].rejected,
           x.msgs = task[t].msgs, x.todo = task[t].todo,
           UNCHANGED <<peer, sessions, srv, changes>>
    PROVE  RepairOK(t)'
<1>1. t \in Tasks /\ pc[t] \in Holding /\ "enumerate" \in Holding
  BY DEF Tasks, Holding, PCs
<1>2. /\ task[t].extra = {} /\ task[t].missing = {} /\ task[t].bundles = {}
      /\ task[t].todo \cap SenderDevice(peer[t]) = {}
      /\ \A m \in task[t].rejected : /\ m.reg \in Issued
                                     /\ sessions[peer[t]][m.dev].reg # m.reg
  BY <1>1, Tidy
<1>3. CASE task[t].attempt < MaxAttempts
  <2>1. PICK y : y = [x EXCEPT !.attempt = @ + 1]
    OBVIOUS
  <2>2. /\ y.extra = x.extra /\ y.missing = x.missing /\ y.bundles = x.bundles
        /\ y.rejected = x.rejected /\ y.msgs = x.msgs /\ y.todo = x.todo
    BY <2>1 DEF Locals
  <2>3. task'[t] = y /\ pc'[t] = "enumerate"
    BY <1>1, <1>3, <2>1, GotoShape, UpdateShape DEF Retry
  <2>4. pc'[t] \notin Encrypting \cup {"device", "posted"}
    BY <2>3 DEF Encrypting
  <2>5. /\ peer' = peer /\ srv' = srv /\ changes' = changes
        /\ \A m \in task[t].rejected : sessions'[peer[t]][m.dev].reg # m.reg
        /\ pc'[t] \in Holding \ {"repair", "process"} /\ pc'[t] \notin Encrypting
    BY <1>1, <1>2, <2>3, <2>4
  <2>6. /\ y.extra = task[t].extra /\ y.missing = task[t].missing
        /\ y.bundles = task[t].bundles /\ y.rejected = task[t].rejected
        /\ y.msgs \subseteq task[t].msgs /\ y.todo \cap SenderDevice(peer[t]) = {}
    BY <1>2, <2>2
  <2> QED BY <1>2, <2>3, <2>4, <2>5, <2>6, OnwardRepair
<1>4. CASE ~(task[t].attempt < MaxAttempts)
  BY <1>4, FinishRepair DEF Retry
<1> QED BY <1>3, <1>4

\* The answers keep what was rejected away.
LEMMA AnswerRepair ==
    ASSUME TypeOK, RepairInv, NEW t \in Senders, AnswerStep(t)
    PROVE  RepairOK(t)' /\ StoreFine(peer[t])
<1> USE DEF serverVars, storeVars
<1>1. /\ t \in Tasks /\ task[t] \in Locals /\ peer[t] \in Peers /\ dev[t] \in Devices
      /\ task[t].msgs \subseteq Target
      /\ task[t].rejected \subseteq Target
      /\ \A m \in Target : m.dev \in Devices /\ m.reg \in Nat
                          /\ m = [dev |-> m.dev, reg |-> m.reg]
  BY RepairValues
<1>2. /\ peer' = peer /\ sessions' = sessions /\ srv' = srv /\ changes' = changes
      /\ dev' = dev
      /\ pc[t] = "posted" /\ RepairOK(t) /\ pc[t] \in Holding
  BY DEF AnswerStep, AnswerOk, AnswerUnauthorized, AnswerMismatched, AnswerStale,
         AnswerUnregistered, AnswerRefused, AnswerLost, RepairInv, Holding, PCs
<1>3. StoreFine(peer[t])
  BY <1>1, <1>2, SameStore
<1>4. /\ task[t].extra = {} /\ task[t].missing = {} /\ task[t].bundles = {}
      /\ task[t].todo \cap SenderDevice(peer[t]) = {}
      /\ \A m \in task[t].rejected : /\ m.reg \in Issued
                                     /\ sessions[peer[t]][m.dev].reg # m.reg
  BY <1>2, Tidy
<1>5. CASE \E r : Finish(t, r)
  BY <1>2, <1>3, <1>5, FinishRepair
<1>6. CASE AnswerUnauthorized(t)
  <2>1. PICK x : x = [task[t] EXCEPT !.sealed = FALSE, !.quiet = FALSE]
    OBVIOUS
  <2>2. /\ x \in Locals /\ x.extra = task[t].extra /\ x.missing = task[t].missing
        /\ x.bundles = task[t].bundles /\ x.rejected = task[t].rejected
        /\ x.msgs = task[t].msgs /\ x.todo = task[t].todo
    BY <1>1, <2>1 DEF Locals
  <2>3. Retry(t, x)
    BY <1>6, <2>1 DEF AnswerUnauthorized
  <2> QED BY <1>2, <1>3, <2>2, <2>3, RetryRepair
\* 409 and 410: R is what they reject, all of it among the sessions to drop.
<1>7. ASSUME NEW x, NEW R \in SUBSET task[t].msgs, Update(t, x), Goto(t, "repair"),
             x.todo = task[t].todo, x.msgs = task[t].msgs, x.bundles = task[t].bundles,
             x.rejected = task[t].rejected \cup R,
             \A m \in R : m.dev \in x.extra /\ srv[peer[t]][m.dev] # m.reg,
             x.missing \cap SenderDevice(peer[t]) = {}
      PROVE  RepairOK(t)'
  <2>1. pc'[t] = "repair" /\ task'[t] = x
    BY <1>1, <1>7, GotoShape, UpdateShape
  <2>2. OwnDeviceSpared(t)'
    BY <1>2, <1>7, <2>1 DEF RepairOK, OwnDeviceSpared, Encrypting
  <2>3. TidyLocals(t)'
    BY <1>4, <1>7, <2>1 DEF TidyLocals
  <2>4. RejectedGone(t)'
    <3>1. \A m \in x.msgs \cup x.bundles \cup x.rejected : m.reg \in Issued
      BY <1>2, <1>7 DEF RepairOK, RejectedGone
    <3>2. \A m \in x.rejected :
             /\ srv[peer[t]][m.dev] # m.reg
             /\ m.dev \in x.extra \/ sessions[peer[t]][m.dev].reg # m.reg
      BY <1>2, <1>4, <1>7 DEF RepairOK, RejectedGone
    <3>3. x.bundles \cap x.rejected = {}
      BY <1>4, <1>7
    <3>4. pc'[t] \notin Encrypting \cup {"device", "posted"} /\ Issued' = Issued
      BY <1>2, <2>1 DEF Encrypting, Issued
    <3> QED BY <1>2, <2>1, <3>1, <3>2, <3>3, <3>4 DEF RejectedGone
  <2> QED BY <2>2, <2>3, <2>4 DEF RepairOK
<1>8. CASE AnswerMismatched(t)
  <2>1. PICK E : E = Addressed(t) \ Expected(t)
    OBVIOUS
  <2>2. PICK M : M = Expected(t) \ Addressed(t)
    OBVIOUS
  <2>3. PICK R : R = {m \in task[t].msgs : m.dev \notin Expected(t)}
    OBVIOUS
  <2>4. PICK x : x = [task[t] EXCEPT !.extra = E, !.missing = M, !.rejected = @ \cup R]
    OBVIOUS
  <2>5. /\ x.todo = task[t].todo /\ x.msgs = task[t].msgs /\ x.bundles = task[t].bundles
        /\ x.rejected = task[t].rejected \cup R /\ x.extra = E /\ x.missing = M
    BY <1>1, <2>4 DEF Locals
  <2>6. Update(t, x) /\ Goto(t, "repair")
    BY <1>8, <2>1, <2>2, <2>3, <2>4 DEF AnswerMismatched
  <2>7. M \cap SenderDevice(peer[t]) = {}
    BY <2>2 DEF Expected
  <2>8. ASSUME NEW m \in R PROVE m.dev \in E /\ srv[peer[t]][m.dev] # m.reg
    <3>1. m \in task[t].msgs /\ m.dev \notin Expected(t)
      BY <2>3
    <3>2. m.dev \in E
      BY <2>1, <3>1 DEF Addressed
    <3>3. m.dev \notin SenderDevice(peer[t]) /\ m.dev \in Devices /\ m.reg \in Issued
      BY <1>1, <1>2, <3>1 DEF RepairOK, OwnDeviceSpared, RejectedGone
    <3>4. srv[peer[t]][m.dev] = 0
      BY <3>1, <3>3 DEF Expected, Linked
    <3>5. m.reg # 0
      BY <3>3 DEF Issued
    <3> QED BY <3>2, <3>4, <3>5
  <2>9. R \in SUBSET task[t].msgs
    BY <2>3
  <2> QED BY <1>3, <1>7, <2>5, <2>6, <2>7, <2>8, <2>9
<1>9. CASE AnswerStale(t)
  <2>1. PICK R : R = Stale(t)
    OBVIOUS
  <2>2. PICK E : E = {m.dev : m \in R}
    OBVIOUS
  <2>3. PICK x : x = [task[t] EXCEPT !.extra = E, !.rejected = @ \cup R]
    OBVIOUS
  <2>4. /\ x.todo = task[t].todo /\ x.msgs = task[t].msgs /\ x.bundles = task[t].bundles
        /\ x.rejected = task[t].rejected \cup R /\ x.extra = E /\ x.missing = task[t].missing
    BY <1>1, <2>3 DEF Locals
  <2>5. Update(t, x) /\ Goto(t, "repair")
    BY <1>9, <2>1, <2>2, <2>3 DEF AnswerStale
  <2>6. R \in SUBSET task[t].msgs /\ \A m \in R : m.dev \in E /\ srv[peer[t]][m.dev] # m.reg
    BY <2>1, <2>2 DEF Stale
  <2> QED BY <1>3, <1>4, <1>7, <2>4, <2>5, <2>6
<1> QED BY <1>3, <1>5, <1>6, <1>8, <1>9 DEF AnswerStep, AnswerOk, AnswerUnregistered,
                                          AnswerRefused, AnswerLost

\* The repair drops the sessions that were rejected, before anything else.
LEMMA RepairRepair ==
    ASSUME TypeOK, RepairInv, NEW t \in Senders, RepairStep(t)
    PROVE  RepairOK(t)' /\ StoreFine(peer[t])
<1> USE DEF serverVars, storeVars
<1>1. /\ t \in Tasks /\ task[t] \in Locals /\ peer[t] \in Peers
      /\ task[t].rejected \subseteq Target
      /\ \A m \in Target : m.dev \in Devices /\ m.reg \in Nat
  BY RepairValues
<1>2. RepairOK(t) /\ "repair" \in Holding /\ "repair" \notin Encrypting \cup {"device", "posted"}
  BY DEF RepairInv, Holding, PCs, Encrypting
\* A session is dropped or built for device d, and x is left to do.
<1>3. ASSUME NEW x, pc[t] = "repair", pc' = pc, Update(t, x),
             UNCHANGED <<peer, dev, srv, changes>>,
             x.todo = task[t].todo, x.msgs = task[t].msgs, x.bundles = task[t].bundles,
             x.rejected = task[t].rejected, x.missing \subseteq task[t].missing,
             \A m \in task[t].rejected :
                m.dev \in x.extra \/ sessions'[peer[t]][m.dev].reg # m.reg
      PROVE  RepairOK(t)'
  <2>1. task'[t] = x /\ pc'[t] = "repair"
    BY <1>1, <1>3, UpdateShape
  <2>2. OwnDeviceSpared(t)'
    BY <1>2, <1>3, <2>1 DEF RepairOK, OwnDeviceSpared
  <2>3. TidyLocals(t)'
    BY <1>2, <1>3, <2>1 DEF RepairOK, TidyLocals
  <2>4. RejectedGone(t)'
    <3>1. /\ \A m \in x.msgs \cup x.bundles \cup x.rejected : m.reg \in Issued
          /\ \A m \in x.rejected : srv[peer[t]][m.dev] # m.reg
          /\ x.bundles \cap x.rejected = {}
      BY <1>2, <1>3 DEF RepairOK, RejectedGone
    <3>2. Issued' = Issued
      BY <1>3 DEF Issued
    <3> QED BY <1>2, <1>3, <2>1, <3>1, <3>2 DEF RejectedGone
  <2> QED BY <2>2, <2>3, <2>4 DEF RepairOK
<1>4. ASSUME pc[t] = "repair"
      PROVE  \A m \in task[t].rejected :
                /\ m.reg # 0 /\ srv[peer[t]][m.dev] # m.reg
                /\ m.dev \in task[t].extra \/ sessions[peer[t]][m.dev].reg # m.reg
  BY <1>2, <1>4 DEF RepairOK, RejectedGone, Issued
<1>5. ASSUME NEW d \in Devices, DropExtra(t, d)
      PROVE  RepairOK(t)' /\ StoreFine(peer[t])
  <2>1. PICK x : x = [task[t] EXCEPT !.extra = @ \ {d}]
    OBVIOUS
  <2>2. /\ x.todo = task[t].todo /\ x.msgs = task[t].msgs /\ x.bundles = task[t].bundles
        /\ x.rejected = task[t].rejected /\ x.missing = task[t].missing
        /\ x.extra = task[t].extra \ {d}
    BY <1>1, <2>1 DEF Locals
  <2>3. /\ StoreFine(peer[t])
        /\ sessions'[peer[t]][d] = NoSession
        /\ \A e \in Devices \ {d} : sessions'[peer[t]][e] = sessions[peer[t]][e]
    BY <1>1, <1>5, DeleteFine DEF DropExtra
  <2>4. sessions'[peer[t]][d].reg = 0
    BY <2>3 DEF NoSession, Abs!NoSession
  <2>5. pc[t] = "repair" /\ pc' = pc /\ Update(t, x) /\ UNCHANGED <<peer, dev, srv, changes>>
    BY <1>5, <2>1 DEF DropExtra
  <2>6. \A m \in task[t].rejected :
           m.dev \in x.extra \/ sessions'[peer[t]][m.dev].reg # m.reg
    BY <1>1, <1>4, <2>2, <2>3, <2>4, <2>5
  <2> QED BY <1>3, <2>2, <2>3, <2>5, <2>6
<1>6. ASSUME NEW d \in Devices, CreateMissing(t, d)
      PROVE  RepairOK(t)' /\ StoreFine(peer[t])
  <2>1. PICK x : x = [task[t] EXCEPT !.missing = @ \ {d}]
    OBVIOUS
  <2>2. /\ x.todo = task[t].todo /\ x.msgs = task[t].msgs /\ x.bundles = task[t].bundles
        /\ x.rejected = task[t].rejected /\ x.missing = task[t].missing \ {d}
        /\ x.extra = task[t].extra
    BY <1>1, <2>1 DEF Locals
  <2>3. pc[t] = "repair" /\ pc' = pc /\ Update(t, x) /\ UNCHANGED <<peer, dev, srv, changes>>
    BY <1>6, <2>1 DEF CreateMissing
  <2>4. d \notin SenderDevice(peer[t]) /\ srv[peer[t]][d] \in Issued
    BY <1>1, <1>2, <1>6 DEF CreateMissing, RepairOK, OwnDeviceSpared, RepairInv, RegsIssued
  <2>5. /\ StoreFine(peer[t])
        /\ sessions'[peer[t]][d].reg = srv[peer[t]][d]
        /\ \A e \in Devices \ {d} : sessions'[peer[t]][e] = sessions[peer[t]][e]
    BY <1>1, <1>6, <2>3, <2>4, BuildFine, OwnBundleSpared DEF CreateMissing
  <2>6. \A m \in task[t].rejected :
           m.dev \in x.extra \/ sessions'[peer[t]][m.dev].reg # m.reg
    BY <1>1, <1>4, <2>2, <2>3, <2>5
  <2> QED BY <1>3, <2>2, <2>3, <2>5, <2>6
<1>7. ASSUME NEW d \in Devices, MissingGone(t, d)
      PROVE  RepairOK(t)' /\ StoreFine(peer[t])
  BY <1>1, <1>7, FinishRepair, SameStore DEF MissingGone
<1>8. CASE Repaired(t)
  BY <1>1, <1>8, RetryRepair, SameStore DEF Repaired
<1> QED BY <1>5, <1>6, <1>7, <1>8 DEF RepairStep

\* Every step of a sender that has the lock keeps its part.
LEMMA SendRepair ==
    ASSUME TypeOK, LockInv, RepairInv, NEW t \in Senders, SendStep(t)
    PROVE  RepairOK(t)' /\ StoreFine(peer[t])
<1> USE DEF serverVars, storeVars
<1>1. /\ t \in Tasks /\ task[t] \in Locals /\ peer[t] \in Peers /\ dev[t] \in Devices
      /\ task[t].rejected \subseteq Target
      /\ \A m \in Target : m.dev \in Devices /\ m.reg \in Nat
  BY RepairValues
<1>2. RepairOK(t) /\ {"enumerate", "device", "load", "posted", "ensure"} \subseteq Holding
      /\ "device" \notin Encrypting /\ "posted" \notin Encrypting /\ "ensure" \in Encrypting
      /\ "load" \in Encrypting
  BY DEF RepairInv, Holding, PCs, Encrypting
<1>3. ASSUME pc[t] \in {"enumerate", "device", "load"}
      PROVE  /\ task[t].extra = {} /\ task[t].missing = {} /\ task[t].bundles = {}
             /\ task[t].todo \cap SenderDevice(peer[t]) = {}
             /\ \A m \in task[t].rejected :
                   m.reg \in Issued /\ sessions[peer[t]][m.dev].reg # m.reg
             /\ pc[t] # "enumerate" => task[t].msgs \cap task[t].rejected = {}
  <2>1. pc[t] \in Holding /\ pc[t] \notin {"repair", "process"}
    BY <1>2, <1>3
  <2>2. pc[t] # "enumerate" => task[t].msgs \cap task[t].rejected = {}
    BY <1>2, <1>3 DEF RepairOK, RejectedGone
  <2> QED BY <2>1, <2>2, Tidy
<1>4. CASE EnumerateDevices(t)
  <2>1. PICK D : D = (SubDevices(peer[t]) \cup {DEFAULT_DEVICE_ID}) \ SenderDevice(peer[t])
    OBVIOUS
  <2>2. PICK x : x = [task[t] EXCEPT !.todo = D, !.msgs = {}]
    OBVIOUS
  <2>3. /\ x.todo = D /\ x.msgs = {} /\ x.bundles = task[t].bundles /\ x.extra = task[t].extra
        /\ x.missing = task[t].missing /\ x.rejected = task[t].rejected
    BY <1>1, <2>2 DEF Locals
  <2>4. task'[t] = x /\ pc[t] = "enumerate" /\ pc'[t] = "device"
    BY <1>1, <1>4, <2>1, <2>2, GotoShape, UpdateShape DEF EnumerateDevices
  <2>5. peer' = peer /\ sessions' = sessions /\ srv' = srv /\ changes' = changes
    BY <1>4 DEF EnumerateDevices
  <2>6. x.todo \cap SenderDevice(peer[t]) = {} /\ x.msgs \cap x.rejected = {}
    BY <2>1, <2>3
  <2>7. RepairOK(t)'
    BY <1>2, <1>3, <2>3, <2>4, <2>5, <2>6, OnwardRepair
  <2> QED BY <1>1, <2>5, <2>7, SameStore
<1>5. ASSUME NEW d \in Devices, NextDevice(t, d)
      PROVE  RepairOK(t)' /\ StoreFine(peer[t])
  <2>1. PICK x : x = [task[t] EXCEPT !.todo = @ \ {d}, !.tries = 0]
    OBVIOUS
  <2>2. /\ x.todo = task[t].todo \ {d} /\ x.msgs = task[t].msgs
        /\ x.bundles = task[t].bundles /\ x.extra = task[t].extra
        /\ x.missing = task[t].missing /\ x.rejected = task[t].rejected
    BY <1>1, <2>1 DEF Locals
  <2>3. task'[t] = x /\ pc[t] = "device" /\ pc'[t] = "ensure"
    BY <1>1, <1>5, <2>1, GotoShape, UpdateShape DEF NextDevice
  <2>4. peer' = peer /\ sessions' = sessions /\ srv' = srv /\ changes' = changes
    BY <1>5 DEF NextDevice
  <2>5. dev'[t] \notin SenderDevice(peer[t])
    <3>1. dev'[t] = d /\ d \in task[t].todo
      BY <1>1, <1>5 DEF NextDevice, TypeOK
    <3> QED BY <1>3, <2>3, <3>1
  <2>6. RepairOK(t)'
    BY <1>2, <1>3, <2>2, <2>3, <2>4, <2>5, OnwardRepair
  <2> QED BY <1>1, <2>4, <2>6, SameStore
<1>6. CASE LoadPlaintext(t)
  <2>1. PICK m : m = [dev |-> dev[t], reg |-> sessions[peer[t]][dev[t]].reg]
    OBVIOUS
  <2>2. PICK x : x = [task[t] EXCEPT !.msgs = @ \cup {m}]
    OBVIOUS
  <2>3. /\ x.msgs = task[t].msgs \cup {m} /\ x.todo = task[t].todo
        /\ x.missing = task[t].missing /\ x.extra = task[t].extra
        /\ x.bundles = task[t].bundles /\ x.rejected = task[t].rejected
    BY <1>1, <2>2 DEF Locals
  <2>4. /\ Update(t, x) /\ pc[t] = "load" /\ sessions[peer[t]][dev[t]] # NoSession
        /\ Goto(t, "device") /\ UNCHANGED <<peer, sessions, srv, changes>>
    BY <1>6, <2>1, <2>2 DEF LoadPlaintext
  <2> QED BY <1>1, <1>2, <2>1, <2>3, <2>4, MadeFromRecord, SameStore
<1>7. CASE DropCorruptSession(t)
  <2>1. PICK x : x = [task[t] EXCEPT !.tries = @ + 1]
    OBVIOUS
  <2>2. /\ x.msgs = task[t].msgs /\ x.todo = task[t].todo
        /\ x.missing = task[t].missing /\ x.extra = task[t].extra
        /\ x.bundles = task[t].bundles /\ x.rejected = task[t].rejected
    BY <1>1, <2>1 DEF Locals
  <2>3. PICK l \in {"ensure", "device"} : Goto(t, l)
    BY <1>7 DEF DropCorruptSession
  <2>4. task'[t] = x /\ pc[t] = "load" /\ pc'[t] = l
    BY <1>1, <1>7, <2>1, <2>3, GotoShape, UpdateShape DEF DropCorruptSession
  <2>5. peer' = peer /\ dev' = dev /\ srv' = srv /\ changes' = changes
    BY <1>7 DEF DropCorruptSession
  <2>6. /\ StoreFine(peer[t])
        /\ sessions'[peer[t]][dev[t]] = NoSession
        /\ \A e \in Devices \ {dev[t]} : sessions'[peer[t]][e] = sessions[peer[t]][e]
    BY <1>1, <1>7, <2>5, DeleteFine DEF DropCorruptSession
  <2>7. sessions'[peer[t]][dev[t]].reg = 0
    BY <2>6 DEF NoSession, Abs!NoSession
  <2>8. \A m \in task[t].rejected : sessions'[peer[t]][m.dev].reg # m.reg
    BY <1>1, <1>3, <2>4, <2>6, <2>7 DEF Issued
  <2>9. dev'[t] \notin SenderDevice(peer[t])
    BY <1>2, <2>4, <2>5 DEF RepairOK, OwnDeviceSpared
  <2>10. pc'[t] \in Holding \ {"repair", "process"}
    BY <1>2, <2>3, <2>4
  <2>11. RepairOK(t)'
    BY <1>3, <2>2, <2>4, <2>5, <2>8, <2>9, <2>10, OnwardRepair
  <2> QED BY <2>6, <2>11
<1>8. CASE NoMessagesToSend(t)
  BY <1>1, <1>8, FinishRepair, SameStore DEF NoMessagesToSend
<1>9. CASE Post(t)
  <2>1. task'[t] = task[t] /\ pc[t] = "device" /\ pc'[t] = "posted"
    BY <1>1, <1>9, GotoShape DEF Post
  <2>2. peer' = peer /\ sessions' = sessions /\ srv' = srv /\ changes' = changes
    BY <1>9 DEF Post
  <2>3. RepairOK(t)'
    BY <1>2, <1>3, <2>1, <2>2, OnwardRepair
  <2> QED BY <1>1, <2>2, <2>3, SameStore
<1> QED BY <1>4, <1>5, <1>6, <1>7, <1>8, <1>9, EncryptRepair, AnswerRepair, RepairRepair
        DEF SendStep

\* What a sender's step leaves alone.
LEMMA SendFrame ==
    ASSUME TypeOK, NEW t \in Senders, SendStep(t)
    PROVE  /\ pc[t] \in Holding /\ peer' = peer /\ srv' = srv /\ changes' = changes
           /\ \A u \in Tasks \ {t} : dev'[u] = dev[u]
<1> USE DEF serverVars
<1>1. CASE \E d \in Devices : NextDevice(t, d)
  BY <1>1 DEF NextDevice, TypeOK, Holding, PCs
<1>2. CASE EncryptStep(t)
  BY <1>2 DEF EncryptStep, EnsureSession, FetchPreKeys, PreKeysNotFound, ProcessBundle,
              BundlesProcessed, LoadUsable, StoreRatchet, Holding, PCs
<1>3. CASE AnswerStep(t)
  BY <1>3 DEF AnswerStep, AnswerOk, AnswerUnauthorized, AnswerMismatched, AnswerStale,
              AnswerUnregistered, AnswerRefused, AnswerLost, Holding, PCs
<1>4. CASE RepairStep(t)
  BY <1>4 DEF RepairStep, DropExtra, CreateMissing, MissingGone, Repaired, Holding, PCs
<1>5. CASE EnumerateDevices(t) \/ LoadPlaintext(t) \/ DropCorruptSession(t)
           \/ NoMessagesToSend(t) \/ Post(t)
  BY <1>5 DEF EnumerateDevices, LoadPlaintext, DropCorruptSession, NoMessagesToSend, Post,
              Holding, PCs
<1> QED BY <1>1, <1>2, <1>3, <1>4, <1>5 DEF SendStep

\* A decryption keeps the invariant: its envelope is not from this device.
LEMMA DecryptRepair ==
    ASSUME TypeOK, LockInv, RepairInv, NEW t \in Receivers, DecryptStep(t)
    PROVE  RepairInv'
<1> USE DEF serverVars, storeVars
<1>1. t \in Tasks /\ t \notin Senders /\ peer[t] \in Peers /\ dev[t] \in Devices
  BY TaskTypes, ConstantsAssumption DEF Tasks
<1>2. /\ pc[t] \in {"decrypt", "write"} /\ pc[t] \in Holding
      /\ peer' = peer /\ dev' = dev /\ srv' = srv /\ changes' = changes
  BY DEF DecryptStep, LoadDecrypt, DecryptPreKeyMessage, DecryptSameChain, DecryptNewChain,
         DecryptFails, DecryptEnds, Holding, PCs
<1>3. dev[t] \notin SenderDevice(peer[t])
  BY <1>2 DEF RepairInv, EnvelopesForeign
<1>4. StoreFine(peer[t])
  <2>1. CASE LoadDecrypt(t) \/ DecryptFails(t)
    BY <1>1, <1>2, <2>1, SameStore DEF LoadDecrypt, DecryptFails
  <2>2. ASSUME NEW reg \in 1 .. FreshReg - 1, DecryptPreKeyMessage(t, reg)
        PROVE  StoreFine(peer[t])
    <3>1. reg \in Issued
      <4>1. changes \in Nat
        BY ConstantsAssumption DEF TypeOK
      <4> QED BY <4>1 DEF FreshReg, Issued
    <3> QED BY <1>1, <1>2, <1>3, <2>2, <3>1, BuildFine, OwnBundleSpared DEF DecryptPreKeyMessage
  <2>3. ASSUME pc[t] = "write", snap[t] # NoSession
        PROVE  snap[t] = sessions[peer[t]][dev[t]] /\ snap[t].reg \in Issued /\ snap[t] \in Session
    BY <1>1, <2>3, TaskTypes DEF LockInv, SnapCurrent, RepairInv, RegsIssued
  <2>4. CASE DecryptSameChain(t)
    <3>1. pc[t] = "write" /\ snap[t] # NoSession
      BY <2>4 DEF DecryptSameChain, DecryptEnds
    <3>2. PICK s : s = [snap[t] EXCEPT !.usable = TRUE]
      OBVIOUS
    <3>3. s.reg = sessions[peer[t]][dev[t]].reg
      BY <2>3, <3>1, <3>2 DEF Session, Abs!Session
    <3>4. sessions' = [sessions EXCEPT ![peer[t]][dev[t]] = s]
      BY <2>4, <3>2 DEF DecryptSameChain
    <3> QED BY <1>1, <1>2, <2>3, <3>1, <3>3, <3>4, RewriteFine
  <2>5. CASE DecryptNewChain(t)
    <3>1. pc[t] = "write" /\ snap[t] # NoSession /\ BuildSession(peer[t], dev[t], snap[t].reg)
      BY <2>5 DEF DecryptNewChain, DecryptEnds
    <3> QED BY <1>1, <1>2, <1>3, <2>3, <3>1, BuildFine, OwnBundleSpared
  <2> QED BY <2>1, <2>2, <2>4, <2>5 DEF DecryptStep
<1>5. \A u \in Tasks \ {t} : pc'[u] = pc[u] /\ task'[u] = task[u]
  BY <1>1, OtherMoves DEF Move
<1> QED BY <1>1, <1>2, <1>3, <1>4, <1>5, OneTaskRepair DEF StoreFine

\* Calls, envelopes, the lock and dropped futures keep the invariant.
LEMMA QueueRepair ==
    ASSUME TypeOK, LockInv, RepairInv, NEW t \in Tasks,
           \/ t \in Senders /\ \E c \in Calls : StartSend(t, c)
           \/ t \in Senders /\ AcquireSend(t)
           \/ t \in Receivers /\ \E p \in Peers, d \in Devices : StartDecrypt(t, p, d)
           \/ t \in Receivers /\ AcquireDecrypt(t)
           \/ EarlyEnd(t)
           \/ t \in Senders /\ LateArrival(t)
    PROVE  RepairInv'
<1> USE DEF serverVars, storeVars
<1>1. UNCHANGED <<sessions, srv, changes>>
  BY DEF StartSend, AcquireSend, StartDecrypt, AcquireDecrypt, EarlyEnd, Fail, DropWorking,
         DropWaiting, LateArrival
<1>2. NoSessionWithSelf' /\ RegsIssued'
  BY <1>1 DEF RepairInv, NoSessionWithSelf, RegsIssued, Issued
<1>3. Senders \cap Receivers = {} /\ t \in Tasks /\ task[t] \in Locals
  BY TaskTypes, ConstantsAssumption
<1>4. ASSUME t \in Senders, NEW c \in Calls, StartSend(t, c)
      PROVE  RepairInv'
  <2>1. PICK x : x = [NoLocals EXCEPT !.content = c.content, !.sealed = c.sealed]
    OBVIOUS
  <2>2. /\ x.todo = {} /\ x.msgs = {} /\ x.bundles = {} /\ x.extra = {} /\ x.missing = {}
        /\ x.rejected = {}
    BY <2>1 DEF NoLocals
  <2>3. /\ pc'[t] = "lock" /\ task'[t] = x /\ dev' = dev
        /\ \A u \in Tasks \ {t} : pc'[u] = pc[u] /\ task'[u] = task[u] /\ peer'[u] = peer[u]
    BY <1>4, <2>1, GotoShape, UpdateShape DEF StartSend, TypeOK
  <2>4. RepairOK(t)'
    BY <2>2, <2>3 DEF RepairOK, OwnDeviceSpared, TidyLocals, RejectedGone, Encrypting
  <2> QED BY <1>1, <1>2, <1>3, <1>4, <2>3, <2>4, OneTaskRepair
<1>5. ASSUME t \in Senders, AcquireSend(t)
      PROVE  RepairInv'
  <2>1. /\ pc[t] = "lock" /\ pc'[t] = "enumerate" /\ peer' = peer /\ dev' = dev /\ task' = task
        /\ \A u \in Tasks \ {t} : pc'[u] = pc[u]
    BY <1>5, GotoShape DEF AcquireSend, Acquire
  <2>2. RepairOK(t)
    BY <1>5 DEF RepairInv
  <2>3. OwnDeviceSpared(t)' /\ TidyLocals(t)'
    BY <2>1, <2>2 DEF RepairOK, OwnDeviceSpared, TidyLocals, Encrypting
  <2>4. RejectedGone(t)'
    BY <1>1, <2>1, <2>2 DEF RepairOK, TidyLocals, RejectedGone, Encrypting, Issued
  <2> QED BY <1>1, <1>2, <1>3, <1>5, <2>1, <2>3, <2>4, OneTaskRepair DEF RepairOK
<1>6. ASSUME t \in Receivers, NEW p \in Peers, NEW d \in Devices, StartDecrypt(t, p, d)
      PROVE  RepairInv'
  <2>1. /\ dev'[t] = d /\ peer'[t] = p /\ d \notin SenderDevice(p) /\ task' = task
        /\ \A u \in Tasks \ {t} : pc'[u] = pc[u] /\ peer'[u] = peer[u] /\ dev'[u] = dev[u]
    BY <1>6, GotoShape DEF StartDecrypt, TypeOK
  <2> QED BY <1>1, <1>2, <1>3, <1>6, <2>1, OneTaskRepair
<1>7. ASSUME t \in Receivers, AcquireDecrypt(t)
      PROVE  RepairInv'
  <2>1. /\ pc[t] = "lock" /\ peer' = peer /\ dev' = dev /\ task' = task
        /\ \A u \in Tasks \ {t} : pc'[u] = pc[u]
    BY <1>7, GotoShape DEF AcquireDecrypt, Acquire
  <2>2. dev[t] \notin SenderDevice(peer[t])
    BY <1>7, <2>1 DEF RepairInv, EnvelopesForeign
  <2> QED BY <1>1, <1>2, <1>3, <1>7, <2>1, <2>2, OneTaskRepair
<1>8. CASE EarlyEnd(t)
  <2>1. PICK r : Finish(t, r)
    BY <1>8 DEF EarlyEnd, Fail, DropWorking, DropWaiting
  <2>2. /\ pc'[t] = "done" /\ peer' = peer /\ dev' = dev
        /\ \A u \in Tasks \ {t} : pc'[u] = pc[u] /\ task'[u] = task[u]
    BY <1>8, <2>1, FinishShape DEF EarlyEnd, Fail, DropWorking, DropWaiting
  <2>3. t \in Senders => RepairOK(t)'
    BY <1>1, <2>1, <2>2, FinishRepair
  <2> QED BY <1>1, <1>2, <2>2, <2>3, OneTaskRepair
<1>9. ASSUME t \in Senders, LateArrival(t)
      PROVE  RepairInv'
  <2>1. PICK x : x = [task[t] EXCEPT !.msgs = {}]
    OBVIOUS
  <2>2. /\ x.todo = task[t].todo /\ x.msgs = {} /\ x.bundles = task[t].bundles
        /\ x.extra = task[t].extra /\ x.missing = task[t].missing
        /\ x.rejected = task[t].rejected
    BY <1>3, <2>1 DEF Locals
  <2>3. /\ pc' = pc /\ pc[t] = "done" /\ peer' = peer /\ dev' = dev /\ task'[t] = x
        /\ \A u \in Tasks \ {t} : task'[u] = task[u]
    BY <1>9, <2>1, UpdateShape DEF LateArrival
  <2>4. RepairOK(t)
    BY <1>9 DEF RepairInv
  <2>5. OwnDeviceSpared(t)' /\ TidyLocals(t)'
    BY <2>2, <2>3, <2>4 DEF RepairOK, OwnDeviceSpared, TidyLocals
  <2>6. RejectedGone(t)'
    BY <1>1, <2>2, <2>3, <2>4 DEF RepairOK, RejectedGone, Issued
  <2> QED BY <1>1, <1>2, <1>3, <1>9, <2>3, <2>5, <2>6, OneTaskRepair DEF RepairOK
<1> QED BY <1>4, <1>5, <1>6, <1>7, <1>8, <1>9

\* When an account's devices change, what was rejected stays wrong: the server
\* gives out new registration ids only.
LEMMA ChangeRepair ==
    ASSUME TypeOK, RepairInv, NEW p \in Peers, NEW regs, ChangeDevices(p, regs),
           \A d \in Devices : regs[d] \in {srv[p][d], 0, FreshReg}
    PROVE  RepairInv'
<1> USE DEF storeVars
<1>1. changes \in Nat /\ changes' = changes + 1 /\ srv \in [Peers -> [Devices -> Nat]]
  BY ConstantsAssumption DEF TypeOK, ChangeDevices
<1>2. Issued \subseteq Issued' /\ FreshReg \in Issued' /\ FreshReg \notin Issued /\ 0 \notin Issued
  BY <1>1 DEF Issued, FreshReg
<1>3. \A q \in Peers, d \in Devices : srv'[q][d] \in {srv[q][d], 0, FreshReg}
  BY <1>1 DEF ChangeDevices
<1>4. pc' = pc /\ peer' = peer /\ dev' = dev /\ sessions' = sessions
  BY DEF ChangeDevices
<1>5. RegsIssued' /\ NoSessionWithSelf' /\ EnvelopesForeign'
  BY <1>2, <1>3, <1>4 DEF RepairInv, RegsIssued, NoSessionWithSelf, EnvelopesForeign
<1>6. ASSUME NEW t \in Senders PROVE RepairOK(t)'
  <2>1. /\ t \in Tasks /\ task[t] \in Locals /\ peer[t] \in Peers
        /\ task[t].rejected \subseteq Target /\ \A m \in Target : m.dev \in Devices
    BY RepairValues
  <2>2. RepairOK(t)
    BY DEF RepairInv
  <2>3. task'[t] = IF peer[t] = p /\ pc[t] # "done"
                     THEN [task[t] EXCEPT !.quiet = FALSE] ELSE task[t]
    BY <2>1 DEF ChangeDevices
  <2>4. PICK x : x = task'[t]
    OBVIOUS
  <2>5. /\ x.todo = task[t].todo /\ x.msgs = task[t].msgs /\ x.bundles = task[t].bundles
        /\ x.extra = task[t].extra /\ x.missing = task[t].missing
        /\ x.rejected = task[t].rejected
    BY <2>1, <2>3, <2>4 DEF Locals
  <2>6. OwnDeviceSpared(t)' /\ TidyLocals(t)'
    BY <1>4, <2>2, <2>4, <2>5 DEF RepairOK, OwnDeviceSpared, TidyLocals
  <2>7. \A m \in x.rejected : srv'[peer[t]][m.dev] # m.reg
    BY <1>2, <1>3, <2>1, <2>2, <2>5 DEF RepairOK, RejectedGone
  <2>8. \A m \in x.msgs \cup x.bundles \cup x.rejected : m.reg \in Issued'
    BY <1>2, <2>2, <2>5 DEF RepairOK, RejectedGone
  <2>9. RejectedGone(t)'
    BY <1>4, <2>2, <2>4, <2>5, <2>7, <2>8 DEF RepairOK, RejectedGone
  <2> QED BY <2>6, <2>9 DEF RepairOK
<1> QED BY <1>5, <1>6 DEF RepairInv

\* Every step keeps the invariant.
LEMMA NextRepair ==
    ASSUME TypeOK, LockInv, RepairInv, [Next]_vars
    PROVE  RepairInv'
<1>1. Senders \subseteq Tasks /\ Receivers \subseteq Tasks /\ Senders \cap Receivers = {}
  BY ConstantsAssumption DEF Tasks
<1>2. ASSUME NEW t \in Senders, SendStep(t)
      PROVE  RepairInv'
  <2>1. RepairOK(t)' /\ StoreFine(peer[t])
    BY <1>2, SendRepair
  <2>2. /\ pc[t] \in Holding /\ peer' = peer /\ srv' = srv /\ changes' = changes
        /\ \A u \in Tasks \ {t} : dev'[u] = dev[u]
    BY <1>2, SendFrame
  <2>3. \A u \in Tasks \ {t} : pc'[u] = pc[u] /\ task'[u] = task[u]
    BY <1>2, SendMove DEF Move
  <2> QED BY <1>1, <2>1, <2>2, <2>3, OneTaskRepair DEF StoreFine
<1>3. ASSUME NEW t \in Senders, SenderNext(t)
      PROVE  RepairInv'
  BY <1>1, <1>2, <1>3, QueueRepair DEF SenderNext
<1>4. ASSUME NEW t \in Receivers, ReceiverNext(t)
      PROVE  RepairInv'
  BY <1>1, <1>4, DecryptRepair, QueueRepair DEF ReceiverNext
<1>5. ASSUME NEW p \in Peers, NEW d \in Devices, LinkDevice(p, d) \/ UnlinkDevice(p, d)
      PROVE  RepairInv'
  <2>1. srv[p] \in [Devices -> Nat]
    BY DEF TypeOK
  <2>2. PICK regs : /\ ChangeDevices(p, regs)
                    /\ \E r \in {0, FreshReg} : regs = [srv[p] EXCEPT ![d] = r]
    BY <1>5 DEF LinkDevice, UnlinkDevice
  <2>3. \A e \in Devices : regs[e] \in {srv[p][e], 0, FreshReg}
    BY <2>1, <2>2
  <2> QED BY <2>2, <2>3, ChangeRepair
<1>6. ASSUME NEW p \in Peers, Register(p) \/ Unregister(p)
      PROVE  RepairInv'
  BY <1>6, ChangeRepair DEF Register, Unregister
<1>7. CASE ServerStep
  BY <1>1, <1>5, <1>6, <1>7, QueueRepair DEF ServerStep
<1>8. CASE Terminated \/ UNCHANGED vars
  <2>1. /\ sessions' = sessions /\ srv' = srv /\ changes' = changes /\ pc' = pc /\ peer' = peer
        /\ dev' = dev /\ task' = task
    BY <1>8 DEF Terminated, vars, storeVars, serverVars
  <2>2. ASSUME NEW t \in Senders PROVE RepairOK(t)'
    <3>1. RepairOK(t)
      BY DEF RepairInv
    <3>2. OwnDeviceSpared(t)' /\ TidyLocals(t)' /\ RejectedGone(t)'
      BY <2>1, <3>1 DEF RepairOK, OwnDeviceSpared, TidyLocals, RejectedGone, Issued
    <3> QED BY <3>2 DEF RepairOK
  <2>3. NoSessionWithSelf' /\ RegsIssued' /\ EnvelopesForeign'
    BY <2>1 DEF RepairInv, NoSessionWithSelf, RegsIssued, Issued, EnvelopesForeign
  <2> QED BY <2>2, <2>3 DEF RepairInv
<1> QED BY <1>1, <1>3, <1>4, <1>7, <1>8, QueueRepair DEF Next

\* At first nothing was rejected, and no session is with this device.
LEMMA InitRepair == Init => RepairInv
<1> SUFFICES ASSUME Init PROVE RepairInv
  OBVIOUS
<1>1. PICK s \in Starts : sessions = s.sessions /\ srv = s.srv
  BY DEF Init
<1>2. NoSessionWithSelf /\ RegsIssued
  BY <1>1, StartsAssumption DEF Init, NoSessionWithSelf, RegsIssued, Issued
<1>3. \A t \in Senders : RepairOK(t)
  BY DEF Init, RepairOK, OwnDeviceSpared, TidyLocals, RejectedGone, NoLocals, Encrypting, Tasks
<1> QED BY <1>2, <1>3 DEF Init, RepairInv, EnvelopesForeign, Tasks

\* What was rejected is gone wherever it could come back from.
LEMMA RepairInvariant == Spec => []RepairInv
<1>1. TypeOK /\ LockInv /\ RepairInv /\ [Next]_vars => RepairInv'
  BY NextRepair
<1> QED BY <1>1, InitRepair, TypeCorrect, LockInvariant, PTL DEF Spec

\* A device and registration id that the server called extra or stale is not
\* posted again by the same call, whatever happens between its attempts.
THEOREM RepairsStick == Spec => []RepairSticks
<1>1. RepairInv => RepairSticks
  BY DEF RepairInv, RepairOK, RejectedGone, RepairSticks
<1> QED BY <1>1, RepairInvariant, PTL

\* Neither sending to the own account's ACI nor decrypting from it builds a
\* session with this very device.
THEOREM OwnDeviceHasNoSession == Spec => []NoSessionWithSelf
<1>1. RepairInv => NoSessionWithSelf
  BY DEF RepairInv
<1> QED BY <1>1, RepairInvariant, PTL

\* A key is used in StoreRatchet only.
LEMMA KeysByRatchet ==
    ASSUME [Next]_vars
    PROVE  used' = used \/ \E t \in Senders : StoreRatchet(t)
<1> USE DEF storeVars, BuildSession, DeleteSession
<1>1. ASSUME NEW t \in Senders, EncryptStep(t), ~StoreRatchet(t) PROVE used' = used
  BY <1>1 DEF EncryptStep, EnsureSession, FetchPreKeys, PreKeysNotFound, ProcessBundle,
              BundlesProcessed, LoadUsable
<1>2. ASSUME NEW t \in Senders, AnswerStep(t) \/ RepairStep(t) PROVE used' = used
  BY <1>2 DEF AnswerStep, AnswerOk, AnswerUnauthorized, AnswerMismatched, AnswerStale,
              AnswerUnregistered, AnswerRefused, AnswerLost, RepairStep, DropExtra,
              CreateMissing, MissingGone, Repaired
<1>3. ASSUME NEW t \in Senders, SenderNext(t), ~StoreRatchet(t) PROVE used' = used
  BY <1>1, <1>2, <1>3 DEF SenderNext, StartSend, AcquireSend, SendStep, EnumerateDevices,
              NextDevice, LoadPlaintext, DropCorruptSession, NoMessagesToSend, Post
<1>4. ASSUME NEW t \in Receivers, ReceiverNext(t) PROVE used' = used
  BY <1>4 DEF ReceiverNext, StartDecrypt, AcquireDecrypt, DecryptStep, LoadDecrypt,
              DecryptPreKeyMessage, DecryptSameChain, DecryptNewChain, DecryptFails
<1>5. ASSUME NEW t \in Tasks, EarlyEnd(t) PROVE used' = used
  BY <1>5 DEF EarlyEnd, Fail, DropWorking, DropWaiting
<1>6. ServerStep => used' = used
  BY DEF ServerStep, LateArrival, LinkDevice, UnlinkDevice, Register, Unregister, ChangeDevices
<1>7. Terminated \/ UNCHANGED vars => used' = used
  BY DEF Terminated, vars
<1> QED BY <1>3, <1>4, <1>5, <1>6, <1>7 DEF Next

\* No message is ever encrypted for the device that sends it, under the ACI or
\* the PNI: not even once a send to the own PNI has built a session with it.
THEOREM NothingIsForSelf == Spec => []NothingForSelf
<1>1. Init => NothingForSelf
  BY DEF Init, NothingForSelf
<1>2. TypeOK /\ RepairInv /\ NothingForSelf /\ [Next]_vars => NothingForSelf'
  <2> SUFFICES ASSUME TypeOK, RepairInv, NothingForSelf, [Next]_vars PROVE NothingForSelf'
    OBVIOUS
  <2>1. CASE used' = used
    BY <2>1 DEF NothingForSelf
  <2>2. ASSUME NEW t \in Senders, StoreRatchet(t) PROVE NothingForSelf'
    <3>1. dev[t] \notin SenderDevice(peer[t])
      BY <2>2 DEF StoreRatchet, RepairInv, RepairOK, OwnDeviceSpared, Encrypting
    <3>2. peer[t] \in OwnIds => dev[t] # OwnDevice
      BY <3>1 DEF SenderDevice
    <3> DEFINE k == [peer |-> peer[t], dev |-> dev[t], chain |-> snap[t].chain,
                     idx |-> snap[t].snd, by |-> <<t, task[t].attempt>>]
    <3>3. k.peer = peer[t] /\ k.dev = dev[t] /\ used' = used \cup {k}
      BY <2>2 DEF StoreRatchet
    <3> HIDE DEF k
    <3> QED BY <3>2, <3>3 DEF NothingForSelf
  <2> QED BY <2>1, <2>2, KeysByRatchet
<1> QED BY <1>1, <1>2, TypeCorrect, RepairInvariant, PTL DEF Spec

-----------------------------------------------------------------------------
(* Four attempts are enough.  While the peer's devices stay what they are,   *)
(* each answer that is not the last leaves the store better: a 409 makes the *)
(* sessions those of the devices the server expects, a 410 leaves only       *)
(* sessions the server knows.  After a first attempt the store is one or the *)
(* other, after a second it is the latter, after a third it is both, and     *)
(* then the fourth is accepted.                                              *)

\* The records of peer p that a send to p looks at: S without the one of this
\* device, which there may be under the PNI.
Others(p, S) == [d \in Devices |-> IF d \in SenderDevice(p) THEN NoSession ELSE S[d]]

\* S: the records of a peer, R: the registration ids at the server, E: the
\* devices it expects, con: the content.
Live(S) == {d \in Devices : S[d] # NoSession}
Sendable(s, con) == s # NoSession /\ (con = "encrypted" => s.usable)
Good(S, R, E, con, d) == d \in E /\ Sendable(S[d], con) /\ S[d].reg = R[d]

\* A session with each expected device and no other; only sessions the server
\* knows.
Full(S, E, con) == Live(S) \subseteq E /\ \A d \in E : Sendable(S[d], con)
Clean(S, R, E, con) == \A d \in Live(S) : Good(S, R, E, con, d)

\* Attempt a begins.
TopOK(S, R, E, con, a) ==
    /\ a = 2 => Full(S, E, con) \/ Clean(S, R, E, con)
    /\ a = 3 => Clean(S, R, E, con)
    /\ a = 4 => Full(S, E, con) /\ Clean(S, R, E, con)

\* An attempt at work, with the devices C in hand: what it has written it has
\* written from the records, and there are no records it will not come to,
\* other than good ones it built meanwhile.
Devs(msgs) == {m.dev : m \in msgs}
Covered(S, R, E, con, todo, msgs, C) ==
    /\ todo \cap Devs(msgs) = {} /\ C \cap (todo \cup Devs(msgs)) = {}
    /\ \A d \in Live(S) : d \in todo \cup C \cup Devs(msgs) \/ Good(S, R, E, con, d)
    /\ \A m \in msgs : /\ Sendable(S[m.dev], con)
                       /\ S[m.dev].reg = m.reg \/ Good(S, R, E, con, m.dev)
Matched(S, E, con, todo, msgs, C) ==
    Full(S, E, con) /\ todo \cup C \cup Devs(msgs) = E
Known(S, R, E, con, msgs) ==
    Clean(S, R, E, con) /\ \A m \in msgs : m.dev \in E /\ m.reg = R[m.dev]
WorkOK(S, R, E, con, a, todo, msgs, C) ==
    /\ Covered(S, R, E, con, todo, msgs, C)
    /\ a = 2 => Matched(S, E, con, todo, msgs, C) \/ Known(S, R, E, con, msgs)
    /\ a = 3 => Known(S, R, E, con, msgs)
    /\ a = 4 => Matched(S, E, con, todo, msgs, C) /\ Known(S, R, E, con, msgs)

\* The repair: sessions with devices extra are still to be dropped, sessions
\* with devices missing to be made.
Filling(S, E, con, extra, missing) ==
    extra \cap E = {} /\ \A d \in E : Sendable(S[d], con) \/ d \in missing
Cleaning(S, R, E, con, extra) ==
    \A d \in Live(S) : d \in extra \/ Good(S, R, E, con, d)
MendOK(S, R, E, con, a, extra, missing) ==
    /\ missing \subseteq E /\ Live(S) \subseteq E \cup extra
    /\ a = 1 => Filling(S, E, con, extra, missing) \/ Cleaning(S, R, E, con, extra)
    /\ a = 2 => Cleaning(S, R, E, con, extra)
    /\ a = 3 => Filling(S, E, con, extra, missing) /\ Cleaning(S, R, E, con, extra)
    /\ a # 4

InHand(t) == IF pc[t] \in Encrypting THEN {dev[t]} ELSE {}
AttemptOK(t) ==
    LET S == Others(peer[t], sessions[peer[t]])
        R == srv[peer[t]]  E == Expected(t)  x == task[t] IN
    /\ pc[t] = "enumerate" => TopOK(S, R, E, x.content, x.attempt)
    /\ pc[t] \in Encrypting \cup {"device", "posted"} =>
          WorkOK(S, R, E, x.content, x.attempt, x.todo, x.msgs, InHand(t))
    /\ pc[t] = "posted" => x.todo = {}
    /\ pc[t] = "process" =>
          \A b \in x.bundles : b.dev \in Linked(peer[t]) /\ b.reg = R[b.dev]
    /\ pc[t] = "repair" => MendOK(S, R, E, x.content, x.attempt, x.extra, x.missing)

RetryOK(t) ==
    /\ pc[t] = "lock" => task[t].attempt = 1
    /\ task[t].result = "MaximumRetriesLimitExceeded" => ~task[t].quiet
    /\ pc[t] = "repair" /\ task[t].quiet => Registered(t)
    /\ pc[t] \in Holding /\ task[t].quiet /\ Registered(t) => AttemptOK(t)

RetryInv == \A t \in Senders : RetryOK(t)

\* A session with device d on the server's registration id is put into the store.
Built(S, S2, R, d) ==
    /\ S2[d] # NoSession /\ S2[d].usable /\ S2[d].reg = R[d]
    /\ \A e \in Devices \ {d} : S2[e] = S[e]

\* It is a good one if the device is expected, and nothing is lost.
LEMMA BuiltGood ==
    ASSUME NEW S, NEW S2, NEW R, NEW E, NEW con, NEW d \in Devices, d \in E, E \subseteq Devices,
           Built(S, S2, R, d)
    PROVE  /\ Good(S2, R, E, con, d)
           /\ \A e \in Devices : Good(S, R, E, con, e) => Good(S2, R, E, con, e)
           /\ \A e \in Devices : Sendable(S[e], con) => Sendable(S2[e], con)
           /\ \A e \in Live(S2) : e = d \/ e \in Live(S)
BY DEF Built, Good, Sendable, Live

\* ... nor does it disturb an attempt at work.
LEMMA BuiltWork ==
    ASSUME NEW S, NEW S2, NEW R, NEW E, NEW con, NEW a, NEW todo, NEW msgs, NEW C,
           NEW d \in Devices, d \in E, E \subseteq Devices, Built(S, S2, R, d),
           \A m \in msgs : m.dev \in Devices,
           WorkOK(S, R, E, con, a, todo, msgs, C)
    PROVE  WorkOK(S2, R, E, con, a, todo, msgs, C)
<1>1. /\ Good(S2, R, E, con, d)
      /\ \A e \in Devices : Good(S, R, E, con, e) => Good(S2, R, E, con, e)
      /\ \A e \in Devices : Sendable(S[e], con) => Sendable(S2[e], con)
      /\ \A e \in Live(S2) : e = d \/ e \in Live(S)
  BY BuiltGood
<1>2. Live(S) \subseteq Devices
  BY DEF Live
<1>3. Covered(S, R, E, con, todo, msgs, C) => Covered(S2, R, E, con, todo, msgs, C)
  <2> SUFFICES ASSUME Covered(S, R, E, con, todo, msgs, C)
               PROVE  Covered(S2, R, E, con, todo, msgs, C)
    OBVIOUS
  <2>1. \A e \in Live(S2) : e \in todo \cup C \cup Devs(msgs) \/ Good(S2, R, E, con, e)
    BY <1>1, <1>2 DEF Covered
  <2>2. ASSUME NEW m \in msgs
        PROVE  Sendable(S2[m.dev], con) /\ (S2[m.dev].reg = m.reg \/ Good(S2, R, E, con, m.dev))
    <3>1. CASE m.dev = d
      BY <1>1, <3>1 DEF Good
    <3>2. CASE m.dev # d
      <4>1. S2[m.dev] = S[m.dev]
        BY <3>2 DEF Built
      <4> QED BY <1>1, <4>1 DEF Covered
    <3> QED BY <3>1, <3>2
  <2> QED BY <2>1, <2>2 DEF Covered
<1>4. Full(S, E, con) => Full(S2, E, con)
  BY <1>1 DEF Full
<1>5. Clean(S, R, E, con) => Clean(S2, R, E, con)
  BY <1>1, <1>2 DEF Clean
<1>6. Matched(S, E, con, todo, msgs, C) => Matched(S2, E, con, todo, msgs, C)
  BY <1>4 DEF Matched
<1>7. Known(S, R, E, con, msgs) => Known(S2, R, E, con, msgs)
  BY <1>5 DEF Known
<1> QED BY <1>3, <1>6, <1>7 DEF WorkOK

\* The attempt begins with the devices it has sessions with and the primary.
LEMMA WorkBegins ==
    ASSUME NEW S, NEW R, NEW E, NEW con, NEW a, NEW todo, TopOK(S, R, E, con, a),
           Live(S) \subseteq todo, Full(S, E, con) => todo = E
    PROVE  WorkOK(S, R, E, con, a, todo, {}, {})
<1>1. Devs({}) = {}
  BY DEF Devs
<1>2. Covered(S, R, E, con, todo, {}, {})
  BY <1>1 DEF Covered
<1>3. Full(S, E, con) => Matched(S, E, con, todo, {}, {})
  BY <1>1 DEF Matched
<1>4. Clean(S, R, E, con) => Known(S, R, E, con, {})
  BY DEF Known
<1> QED BY <1>2, <1>3, <1>4 DEF TopOK, WorkOK

\* The next device is taken in hand.
LEMMA WorkTakes ==
    ASSUME NEW S, NEW R, NEW E, NEW con, NEW a, NEW todo, NEW msgs, NEW d \in todo,
           WorkOK(S, R, E, con, a, todo, msgs, {})
    PROVE  WorkOK(S, R, E, con, a, todo \ {d}, msgs, {d})
<1>1. Covered(S, R, E, con, todo, msgs, {}) => Covered(S, R, E, con, todo \ {d}, msgs, {d})
  BY DEF Covered
<1>2. Matched(S, E, con, todo, msgs, {}) => Matched(S, E, con, todo \ {d}, msgs, {d})
  BY DEF Matched
<1> QED BY <1>1, <1>2 DEF WorkOK

\* A message is written for the device in hand, whose record may be stored anew.
LEMMA WorkWrites ==
    ASSUME NEW S, NEW S2, NEW R, NEW E, NEW con, NEW a, NEW todo, NEW msgs, NEW m,
           m.dev \in Devices, Sendable(S[m.dev], con), Sendable(S2[m.dev], con),
           m.reg = S[m.dev].reg, m.reg = S2[m.dev].reg,
           \A e \in Devices \ {m.dev} : S2[e] = S[e], E \subseteq Devices,
           \A n \in msgs : n.dev \in Devices,
           WorkOK(S, R, E, con, a, todo, msgs, {m.dev})
    PROVE  WorkOK(S2, R, E, con, a, todo, msgs \cup {m}, {})
<1>1. Devs(msgs \cup {m}) = Devs(msgs) \cup {m.dev}
  BY DEF Devs
<1>2. Live(S2) = Live(S) /\ Live(S) \subseteq Devices /\ m.dev \in Live(S)
  BY DEF Live, Sendable
<1>3. \A e \in Devices : Good(S, R, E, con, e) => Good(S2, R, E, con, e)
  BY DEF Good
<1>4. \A e \in Devices : Sendable(S[e], con) => Sendable(S2[e], con)
  OBVIOUS
<1>5. \A e \in Devices : S2[e].reg = S[e].reg
  OBVIOUS
<1>6. ASSUME Covered(S, R, E, con, todo, msgs, {m.dev})
      PROVE  Covered(S2, R, E, con, todo, msgs \cup {m}, {})
  <2>1. todo \cap Devs(msgs \cup {m}) = {} /\ {} \cap (todo \cup Devs(msgs \cup {m})) = {}
    BY <1>1, <1>6 DEF Covered
  <2>2. \A d \in Live(S2) : d \in todo \cup {} \cup Devs(msgs \cup {m}) \/ Good(S2, R, E, con, d)
    BY <1>1, <1>2, <1>3, <1>6 DEF Covered
  <2>3. \A n \in msgs \cup {m} : /\ Sendable(S2[n.dev], con)
                                 /\ S2[n.dev].reg = n.reg \/ Good(S2, R, E, con, n.dev)
    BY <1>3, <1>4, <1>5, <1>6 DEF Covered
  <2> QED BY <2>1, <2>2, <2>3 DEF Covered
<1>7. Matched(S, E, con, todo, msgs, {m.dev}) => Matched(S2, E, con, todo, msgs \cup {m}, {})
  BY <1>1, <1>2, <1>4 DEF Matched, Full
<1>8. Known(S, R, E, con, msgs) => Known(S2, R, E, con, msgs \cup {m})
  <2> SUFFICES ASSUME Known(S, R, E, con, msgs) PROVE Known(S2, R, E, con, msgs \cup {m})
    OBVIOUS
  <2>1. Clean(S2, R, E, con)
    BY <1>2, <1>3 DEF Known, Clean
  <2>2. m.dev \in E /\ m.reg = R[m.dev]
    BY <1>2 DEF Known, Clean, Good
  <2> QED BY <2>1, <2>2 DEF Known
<1> QED BY <1>6, <1>7, <1>8 DEF WorkOK

\* The device in hand has no session that can be sent on: its record is
\* deleted, and it stays in hand or is left out.
LEMMA WorkDrops ==
    ASSUME NEW S, NEW S2, NEW R, NEW E, NEW con, NEW a, NEW todo, NEW msgs, NEW d \in Devices,
           NEW C, C \subseteq {d}, ~Sendable(S[d], con), S2[d] = NoSession,
           \A e \in Devices \ {d} : S2[e] = S[e], E \subseteq Devices,
           \A n \in msgs : n.dev \in Devices,
           WorkOK(S, R, E, con, a, todo, msgs, {d})
    PROVE  WorkOK(S2, R, E, con, a, todo, msgs, C)
<1>1. Live(S2) = Live(S) \ {d}
  BY DEF Live
<1>2. \A e \in Devices \ {d} : Good(S, R, E, con, e) => Good(S2, R, E, con, e)
  BY DEF Good
<1>3. ~Matched(S, E, con, todo, msgs, {d})
  BY DEF Matched, Full
<1>4. Covered(S, R, E, con, todo, msgs, {d})
  BY DEF WorkOK
<1>5. \A n \in msgs : n.dev # d
  BY <1>4 DEF Covered, Devs
<1>6. Covered(S2, R, E, con, todo, msgs, C)
  <2>1. C \cap (todo \cup Devs(msgs)) = {} /\ todo \cap Devs(msgs) = {}
    BY <1>4 DEF Covered
  <2>2. \A e \in Live(S2) : e \in todo \cup C \cup Devs(msgs) \/ Good(S2, R, E, con, e)
    BY <1>1, <1>2, <1>4 DEF Covered, Live
  <2>3. \A n \in msgs : /\ Sendable(S2[n.dev], con)
                        /\ S2[n.dev].reg = n.reg \/ Good(S2, R, E, con, n.dev)
    BY <1>2, <1>4, <1>5 DEF Covered
  <2> QED BY <2>1, <2>2, <2>3 DEF Covered
<1>7. Known(S, R, E, con, msgs) => Known(S2, R, E, con, msgs)
  BY <1>1, <1>2 DEF Known, Clean, Live
<1> QED BY <1>3, <1>6, <1>7 DEF WorkOK

\* A 409: the expected devices that were not addressed are missing, and the
\* addressed ones that are not expected are extra.
LEMMA MismatchMends ==
    ASSUME NEW S, NEW R, NEW E, NEW con, NEW a \in 1 .. 4, NEW msgs,
           WorkOK(S, R, E, con, a, {}, msgs, {}), Devs(msgs) # E
    PROVE  MendOK(S, R, E, con, a, Devs(msgs) \ E, E \ Devs(msgs))
<1>1. Covered(S, R, E, con, {}, msgs, {}) /\ ~Matched(S, E, con, {}, msgs, {})
  BY DEF WorkOK, Matched
<1>2. \A d \in Live(S) : d \in Devs(msgs) \/ Good(S, R, E, con, d)
  BY <1>1 DEF Covered
<1>3. \A d \in Devs(msgs) : Sendable(S[d], con)
  BY <1>1 DEF Covered, Devs
<1>4. Live(S) \subseteq E \cup (Devs(msgs) \ E)
  BY <1>2 DEF Good
<1>5. Filling(S, E, con, Devs(msgs) \ E, E \ Devs(msgs))
  BY <1>3 DEF Filling
<1>6. Known(S, R, E, con, msgs) => Cleaning(S, R, E, con, Devs(msgs) \ E)
  BY DEF Known, Clean, Cleaning
<1>7. a # 4 /\ (a = 2 \/ a = 3 => Known(S, R, E, con, msgs))
  BY <1>1 DEF WorkOK
<1> QED BY <1>4, <1>5, <1>6, <1>7 DEF MendOK

\* A 410: the sessions of the stale messages are to be dropped.
LEMMA StaleMends ==
    ASSUME NEW S, NEW R, NEW E, NEW con, NEW a \in 1 .. 4, NEW msgs, NEW stale,
           stale = {m \in msgs : m.reg # R[m.dev]}, stale # {},
           WorkOK(S, R, E, con, a, {}, msgs, {}), Devs(msgs) = E
    PROVE  MendOK(S, R, E, con, a, Devs(stale), {})
<1>1. Covered(S, R, E, con, {}, msgs, {}) /\ ~Known(S, R, E, con, msgs)
  BY DEF WorkOK, Known
<1>2. \A d \in Live(S) : d \in Devs(msgs) \/ Good(S, R, E, con, d)
  BY <1>1 DEF Covered
<1>3. Live(S) \subseteq E
  BY <1>2 DEF Good
<1>4. Cleaning(S, R, E, con, Devs(stale))
  <2>1. ASSUME NEW d \in Devs(msgs), d \notin Devs(stale) PROVE Good(S, R, E, con, d)
    <3>1. PICK m \in msgs : m.dev = d
      BY DEF Devs
    <3>2. m.reg = R[d]
      BY <2>1, <3>1 DEF Devs
    <3>3. Sendable(S[d], con) /\ (S[d].reg = R[d] \/ Good(S, R, E, con, d))
      BY <1>1, <3>1, <3>2 DEF Covered
    <3> QED BY <3>3 DEF Good
  <2> QED BY <1>2, <2>1 DEF Cleaning
<1>5. a \in {1, 2}
  BY <1>1 DEF WorkOK
<1> QED BY <1>3, <1>4, <1>5 DEF MendOK

\* An extra session is dropped.
LEMMA MendDrops ==
    ASSUME NEW S, NEW S2, NEW R, NEW E, NEW con, NEW a, NEW extra, NEW missing,
           NEW d \in extra, d \in Devices, E \subseteq Devices,
           S2[d] = NoSession, \A e \in Devices \ {d} : S2[e] = S[e],
           MendOK(S, R, E, con, a, extra, missing)
    PROVE  MendOK(S2, R, E, con, a, extra \ {d}, missing)
<1>1. Live(S2) = Live(S) \ {d} /\ Live(S) \subseteq Devices
  BY DEF Live
<1>2. \A e \in Devices \ {d} : Good(S, R, E, con, e) => Good(S2, R, E, con, e)
  BY DEF Good
<1>3. Filling(S, E, con, extra, missing) => Filling(S2, E, con, extra \ {d}, missing)
  BY DEF Filling
<1>4. Cleaning(S, R, E, con, extra) => Cleaning(S2, R, E, con, extra \ {d})
  BY <1>1, <1>2 DEF Cleaning
<1> QED BY <1>1, <1>3, <1>4 DEF MendOK

\* A missing session is made.
LEMMA MendBuilds ==
    ASSUME NEW S, NEW S2, NEW R, NEW E, NEW con, NEW a, NEW extra, NEW missing,
           NEW d \in missing, d \in Devices, E \subseteq Devices, Built(S, S2, R, d),
           MendOK(S, R, E, con, a, extra, missing)
    PROVE  MendOK(S2, R, E, con, a, extra, missing \ {d})
<1>1. d \in E
  BY DEF MendOK
<1>2. /\ Good(S2, R, E, con, d)
      /\ \A e \in Devices : Good(S, R, E, con, e) => Good(S2, R, E, con, e)
      /\ \A e \in Devices : Sendable(S[e], con) => Sendable(S2[e], con)
      /\ \A e \in Live(S2) : e = d \/ e \in Live(S)
  BY <1>1, BuiltGood
<1>3. Filling(S, E, con, extra, missing) => Filling(S2, E, con, extra, missing \ {d})
  BY <1>2 DEF Filling, Good
<1>4. Cleaning(S, R, E, con, extra) => Cleaning(S2, R, E, con, extra)
  BY <1>2 DEF Cleaning, Live
<1> QED BY <1>1, <1>2, <1>3, <1>4 DEF MendOK

\* The repair is over: there is a next attempt, and it begins better off.
LEMMA MendEnds ==
    ASSUME NEW S, NEW R, NEW E, NEW con, NEW a \in 1 .. 4, NEW b, b = a + 1,
           MendOK(S, R, E, con, a, {}, {})
    PROVE  TopOK(S, R, E, con, b)
<1>1. Live(S) \subseteq E
  BY DEF MendOK
<1>2. Filling(S, E, con, {}, {}) => Full(S, E, con)
  BY <1>1 DEF Filling, Full
<1>3. Cleaning(S, R, E, con, {}) => Clean(S, R, E, con)
  BY DEF Cleaning, Clean
<1>4. /\ b = 2 => a = 1
      /\ b = 3 => a = 2
      /\ b = 4 => a = 3
  OBVIOUS
<1> QED BY <1>2, <1>3, <1>4 DEF MendOK, TopOK

-----------------------------------------------------------------------------
(* The steps of a sender *)

\* The values the retry invariant speaks of have their types.
LEMMA RetryValues ==
    ASSUME TypeOK, NEW t \in Senders
    PROVE  /\ t \in Tasks /\ task[t] \in Locals /\ peer[t] \in Peers /\ dev[t] \in Devices
           /\ task[t].attempt \in 1 .. 4
           /\ Expected(t) \subseteq Devices /\ task[t].todo \subseteq Devices
           /\ task[t].extra \subseteq Devices /\ task[t].missing \subseteq Devices
           /\ \A m \in task[t].msgs \cup task[t].bundles : m.dev \in Devices
<1>1. t \in Tasks /\ task[t] \in Locals /\ peer[t] \in Peers /\ dev[t] \in Devices
  BY TaskTypes DEF Tasks
<1>2. /\ task[t].attempt \in 1 .. 4 /\ task[t].todo \subseteq Devices
      /\ task[t].extra \subseteq Devices /\ task[t].missing \subseteq Devices
      /\ task[t].msgs \subseteq Target /\ task[t].bundles \subseteq Target
  BY <1>1 DEF Locals, MaxAttempts
<1>3. \A m \in Target : m.dev \in Devices
  BY DEF Target
<1>4. Expected(t) \subseteq Devices
  BY DEF Expected, Linked
<1> QED BY <1>1, <1>2, <1>3, <1>4

\* The call goes on with the same devices at the server.
LEMMA GoOnRetry ==
    ASSUME NEW t \in Senders, RetryOK(t), pc[t] \in Holding, pc'[t] # "lock",
           pc'[t] = "repair" => pc[t] = "repair" \/ Registered(t),
           task'[t].result = task[t].result, task'[t].quiet => task[t].quiet,
           peer' = peer, srv' = srv,
           task'[t].quiet /\ Registered(t) /\ AttemptOK(t) => AttemptOK(t)'
    PROVE  RetryOK(t)'
<1>1. Registered(t)' <=> Registered(t)
  BY DEF Registered
<1> QED BY <1>1 DEF RetryOK

\* What AttemptOK says of the next state where it works on an attempt.
LEMMA AtWork ==
    ASSUME NEW t \in Senders, pc'[t] \in Encrypting \cup {"device", "posted"},
           peer' = peer, srv' = srv, NEW C,
           C = IF pc'[t] \in Encrypting THEN {dev'[t]} ELSE {},
           WorkOK(Others(peer[t], sessions'[peer[t]]), srv[peer[t]], Expected(t), task'[t].content,
                  task'[t].attempt, task'[t].todo, task'[t].msgs, C),
           pc'[t] = "posted" => task'[t].todo = {},
           pc'[t] = "process" =>
             \A b \in task'[t].bundles : b.dev \in Linked(peer[t]) /\ b.reg = srv[peer[t]][b.dev]
    PROVE  AttemptOK(t)'
<1>1. Expected(t)' = Expected(t) /\ Linked(peer[t])' = Linked(peer[t])
  BY DEF Expected, Linked, SenderDevice, OwnIds
<1>2. InHand(t)' = C
  BY DEF InHand
<1>3. pc'[t] # "enumerate" /\ pc'[t] # "repair"
  BY DEF Encrypting
<1> QED BY <1>1, <1>2, <1>3 DEF AttemptOK

\* A task's end: out of attempts only after a repair or not quietly.
LEMMA FinishRetry ==
    ASSUME TypeOK, NEW t \in Senders, NEW r, Finish(t, r),
           r = "MaximumRetriesLimitExceeded" => pc[t] = "posted" \/ ~task[t].quiet
    PROVE  RetryOK(t)'
<1>1. t \in Tasks /\ pc'[t] = "done"
  BY RetryValues, FinishShape
<1>2. PICK x : /\ x.result = r
               /\ x.quiet <=> task[t].quiet /\ (pc[t] = "posted" => r # "MaximumRetriesLimitExceeded")
               /\ task' = [task EXCEPT ![t] = x]
  <2> DEFINE x == [NoLocals EXCEPT
                    !.result = r, !.attempt = task[t].attempt,
                    !.msgs = IF pc[t] = "posted" THEN task[t].msgs ELSE {},
                    !.rejected = task[t].rejected,
                    !.quiet = /\ task[t].quiet
                              /\ pc[t] = "posted" => r # "MaximumRetriesLimitExceeded"]
  <2>1. x.result = r
    BY DEF NoLocals
  <2>2. x.quiet <=> task[t].quiet /\ (pc[t] = "posted" => r # "MaximumRetriesLimitExceeded")
    BY DEF NoLocals
  <2>3. task' = [task EXCEPT ![t] = x]
    BY DEF Finish, Update
  <2> HIDE DEF x
  <2> QED BY <2>1, <2>2, <2>3
<1>3. task'[t] = x
  BY <1>1, <1>2 DEF TypeOK
<1> QED BY <1>1, <1>2, <1>3 DEF RetryOK, Holding

\* What becomes of the records a send looks at: they follow those of the other
\* devices, and a change to this device's record is none to them.
LEMMA OthersAt ==
    ASSUME NEW p, NEW S, NEW d \in Devices
    PROVE  /\ d \notin SenderDevice(p) => Others(p, S)[d] = S[d]
           /\ d \in SenderDevice(p) => Others(p, S)[d] = NoSession
BY DEF Others

LEMMA OthersChange ==
    ASSUME NEW p, NEW S, NEW S2, NEW d \in Devices, \A e \in Devices \ {d} : S2[e] = S[e]
    PROVE  /\ \A e \in Devices \ {d} : Others(p, S2)[e] = Others(p, S)[e]
           /\ d \in SenderDevice(p) => Others(p, S2) = Others(p, S)
BY DEF Others

LEMMA OthersBuilt ==
    ASSUME NEW p, NEW S, NEW S2, NEW R, NEW d \in Devices, d \notin SenderDevice(p),
           Built(S, S2, R, d)
    PROVE  Built(Others(p, S), Others(p, S2), R, d)
BY OthersAt, OthersChange DEF Built

\* A session the server's registration id goes into is a good one.
LEMMA BuildBuilt ==
    ASSUME TypeOK, NEW p \in Peers, NEW d \in Devices, NEW reg, reg = srv[p][d],
           BuildSession(p, d, reg)
    PROVE  Built(sessions[p], sessions'[p], srv[p], d)
<1>1. sessions \in [Peers -> [Devices -> Session]] /\ chains[p][d] \in Nat
  BY DEF TypeOK
<1> DEFINE s == [chain |-> chains[p][d] + 1, snd |-> 0, reg |-> reg, usable |-> TRUE]
<1>2. s.reg = reg /\ s.usable /\ s # NoSession
  BY <1>1 DEF NoSession, Abs!NoSession
<1>3. sessions' = [sessions EXCEPT ![p][d] = s]
  BY DEF BuildSession
<1> HIDE DEF s
<1>4. sessions'[p][d] = s /\ \A e \in Devices \ {d} : sessions'[p][e] = sessions[p][e]
  BY <1>1, <1>3
<1> QED BY <1>2, <1>4 DEF Built

\* A step that only goes on to another await of the same device.
LEMMA GoOnWork ==
    ASSUME TypeOK, NEW t \in Senders, RetryOK(t), pc[t] \in Encrypting,
           NEW l \in Encrypting \ {"process"}, Goto(t, l),
           UNCHANGED <<task, peer, dev, sessions, srv>>
    PROVE  RetryOK(t)'
<1>1. t \in Tasks /\ pc'[t] = l
  BY RetryValues, GotoShape
<1>2. pc[t] \in Holding /\ l \notin {"lock", "repair", "posted"}
  BY DEF Encrypting, Holding, PCs
<1>3. ASSUME AttemptOK(t) PROVE AttemptOK(t)'
  <2> DEFINE C == {dev[t]}
  <2>1. WorkOK(Others(peer[t], sessions[peer[t]]), srv[peer[t]], Expected(t), task[t].content,
               task[t].attempt, task[t].todo, task[t].msgs, C)
    BY <1>3 DEF AttemptOK, InHand
  <2>2. C = IF pc'[t] \in Encrypting THEN {dev'[t]} ELSE {}
    BY <1>1
  <2> HIDE DEF C
  <2> QED BY <1>1, <1>2, <2>1, <2>2, AtWork
<1> QED BY <1>1, <1>2, <1>3, GoOnRetry

\* create_encrypted_message: sessions that it makes are good ones, and the
\* message is written from the record.
LEMMA EncryptRetry ==
    ASSUME TypeOK, LockInv, RepairInv, NEW t \in Senders, RetryOK(t), EncryptStep(t)
    PROVE  RetryOK(t)'
<1> USE DEF serverVars, storeVars
<1>1. /\ t \in Tasks /\ task[t] \in Locals /\ peer[t] \in Peers /\ dev[t] \in Devices
      /\ task[t].attempt \in 1 .. 4
      /\ Expected(t) \subseteq Devices
      /\ \A m \in task[t].msgs \cup task[t].bundles : m.dev \in Devices
  BY RetryValues
<1>2. /\ {"ensure", "fetch", "process", "load", "store"} \subseteq Encrypting
      /\ Encrypting \subseteq Holding
      /\ \A l \in Encrypting : l \notin {"lock", "repair", "posted", "device", "enumerate"}
  BY DEF Encrypting, Holding, PCs
<1> DEFINE C == {dev[t]}
<1>3. pc[t] \in Encrypting /\ AttemptOK(t) =>
        WorkOK(Others(peer[t], sessions[peer[t]]), srv[peer[t]], Expected(t), task[t].content,
               task[t].attempt, task[t].todo, task[t].msgs, C)
  BY DEF AttemptOK, InHand
<1> HIDE DEF C
<1>4. CASE EnsureSession(t) \/ BundlesProcessed(t) \/ LoadUsable(t)
  <2>1. /\ pc[t] \in Encrypting /\ UNCHANGED <<task, peer, dev, sessions, srv>>
        /\ \E l \in Encrypting \ {"process"} : Goto(t, l)
    BY <1>2, <1>4 DEF EnsureSession, BundlesProcessed, LoadUsable
  <2> QED BY <2>1, GoOnWork
<1>5. ASSUME NEW D \in SUBSET Devices, FetchPreKeys(t, D)
      PROVE  RetryOK(t)'
  <2> DEFINE B == Bundles(peer[t], D)
             q == task[t].quiet /\ D = KeysAsked(peer[t], dev[t])
             x == [task[t] EXCEPT !.bundles = B, !.quiet = q]
  <2>1. Update(t, x) /\ pc[t] = "fetch" /\ Goto(t, "process")
    BY <1>5 DEF FetchPreKeys
  <2>2. UNCHANGED <<peer, dev, sessions, srv>>
    BY <1>5 DEF FetchPreKeys
  <2>3. ASSUME NEW b \in B PROVE b.dev \in Linked(peer[t]) /\ b.reg = srv[peer[t]][b.dev]
    BY <1>5, <2>3 DEF Bundles, FetchPreKeys, KeysAsked
  <2>4. q => task[t].quiet
    OBVIOUS
  <2> HIDE DEF B, q
  <2>5. /\ x.content = task[t].content /\ x.attempt = task[t].attempt /\ x.todo = task[t].todo
        /\ x.msgs = task[t].msgs /\ x.result = task[t].result /\ x.bundles = B
        /\ x.quiet = q
    BY <1>1 DEF Locals
  <2> HIDE DEF x
  <2>6. task'[t] = x /\ pc'[t] = "process"
    BY <1>1, <2>1, GotoShape, UpdateShape
  <2>7. C = IF pc'[t] \in Encrypting THEN {dev'[t]} ELSE {}
    BY <1>2, <2>2, <2>6 DEF C
  <2>8. AttemptOK(t) => AttemptOK(t)'
    BY <1>2, <1>3, <2>1, <2>2, <2>3, <2>5, <2>6, <2>7, AtWork
  <2> QED BY <1>2, <2>1, <2>2, <2>4, <2>5, <2>6, <2>8, GoOnRetry
<1>6. CASE PreKeysNotFound(t)
  BY <1>6, FinishRetry DEF PreKeysNotFound
<1>7. ASSUME NEW b \in task[t].bundles, ProcessBundle(t, b)
      PROVE  RetryOK(t)'
  <2> DEFINE B == task[t].bundles \ {b}
             x == [task[t] EXCEPT !.bundles = B]
             S2 == Others(peer[t], sessions'[peer[t]])
  <2>1. Update(t, x) /\ pc[t] = "process" /\ pc' = pc
    BY <1>7 DEF ProcessBundle
  <2>2. UNCHANGED <<peer, dev, srv>>
    BY <1>7 DEF ProcessBundle
  <2>3. /\ x.content = task[t].content /\ x.attempt = task[t].attempt /\ x.todo = task[t].todo
        /\ x.msgs = task[t].msgs /\ x.result = task[t].result /\ x.bundles = B
        /\ x.quiet = task[t].quiet
    BY <1>1 DEF Locals
  <2> HIDE DEF x
  <2>4. task'[t] = x /\ pc'[t] = "process"
    BY <1>1, <2>1, UpdateShape
  <2>5. C = IF pc'[t] \in Encrypting THEN {dev'[t]} ELSE {}
    BY <1>2, <2>2, <2>4 DEF C
  <2>6. ASSUME AttemptOK(t) PROVE AttemptOK(t)'
    <3>1. \A c \in task[t].bundles : c.dev \in Linked(peer[t]) /\ c.reg = srv[peer[t]][c.dev]
      BY <2>1, <2>6 DEF AttemptOK
    <3>2. WorkOK(S2, srv[peer[t]], Expected(t), task[t].content,
                 task[t].attempt, task[t].todo, task[t].msgs, C)
      <4>1. CASE b.dev \in OwnBundle(peer[t])
        BY <1>2, <1>3, <1>7, <2>1, <2>6, <4>1 DEF ProcessBundle
      <4>2. b.dev \in Devices
        BY <1>1
      <4>3. b.dev \notin OwnBundle(peer[t]) =>
              Built(sessions[peer[t]], sessions'[peer[t]], srv[peer[t]], b.dev)
        BY <1>1, <1>7, <3>1, <4>2, BuildBuilt DEF ProcessBundle
      <4>4. CASE b.dev \notin OwnBundle(peer[t]) /\ b.dev \in SenderDevice(peer[t])
        <5>1. S2 = Others(peer[t], sessions[peer[t]])
          BY <4>2, <4>3, <4>4, OthersChange DEF Built
        <5> HIDE DEF S2
        <5> QED BY <1>2, <1>3, <2>1, <2>6, <5>1
      <4>5. CASE b.dev \notin SenderDevice(peer[t])
        <5>1. b.dev \in Expected(t)
          BY <3>1, <4>5 DEF Expected
        <5>2. Built(Others(peer[t], sessions[peer[t]]), S2, srv[peer[t]], b.dev)
          BY <4>2, <4>3, <4>5, OthersBuilt, OwnBundleSpared
        <5> HIDE DEF S2
        <5> QED BY <1>1, <1>2, <1>3, <2>1, <2>6, <4>2, <5>1, <5>2, BuiltWork
      <4> QED BY <4>1, <4>4, <4>5
    <3>3. \A c \in B : c.dev \in Linked(peer[t]) /\ c.reg = srv[peer[t]][c.dev]
      BY <3>1
    <3> HIDE DEF B
    <3> QED BY <1>2, <2>2, <2>3, <2>4, <2>5, <3>2, <3>3, AtWork
  <2> QED BY <1>2, <2>1, <2>2, <2>3, <2>4, <2>6, GoOnRetry
<1>8. CASE StoreRatchet(t)
  <2> DEFINE s == [snap[t] EXCEPT !.snd = @ + 1]
             m == [dev |-> dev[t], reg |-> snap[t].reg]
             M == task[t].msgs \cup {m}
             x == [task[t] EXCEPT !.msgs = M]
             S2 == Others(peer[t], sessions'[peer[t]])
  <2>1. Update(t, x) /\ pc[t] = "store" /\ Goto(t, "device")
    BY <1>8 DEF StoreRatchet
  <2>2. UNCHANGED <<peer, dev, srv>>
    BY <1>8 DEF StoreRatchet
  <2>3. m.dev = dev[t] /\ m.reg = snap[t].reg
    OBVIOUS
  <2> HIDE DEF m
  <2>4. /\ x.content = task[t].content /\ x.attempt = task[t].attempt /\ x.todo = task[t].todo
        /\ x.msgs = M /\ x.result = task[t].result /\ x.quiet = task[t].quiet
    BY <1>1 DEF Locals
  <2> HIDE DEF x
  <2>5. task'[t] = x /\ pc'[t] = "device"
    BY <1>1, <2>1, GotoShape, UpdateShape
  <2>6. snap[t] = sessions[peer[t]][dev[t]] /\ snap[t].usable /\ snap[t] \in Session
    BY <1>1, <2>1, TaskTypes DEF LockInv, SnapCurrent, SnapUsable
  <2>7. s.reg = snap[t].reg /\ s.usable /\ s # NoSession /\ snap[t] # NoSession
    BY <2>6 DEF Session, Abs!Session, NoSession, Abs!NoSession
  <2> HIDE DEF s
  <2> DEFINE S == Others(peer[t], sessions[peer[t]])
  <2>8. /\ S2[dev[t]] = s /\ S[dev[t]] = snap[t]
        /\ \A e \in Devices \ {dev[t]} : S2[e] = S[e]
    <3>1. sessions' = [sessions EXCEPT ![peer[t]][dev[t]] = s]
      BY <1>8 DEF StoreRatchet, s
    <3>2. /\ sessions'[peer[t]][dev[t]] = s
          /\ \A e \in Devices \ {dev[t]} : sessions'[peer[t]][e] = sessions[peer[t]][e]
      BY <1>1, <3>1 DEF TypeOK
    <3>3. dev[t] \notin SenderDevice(peer[t])
      BY <1>2, <2>1 DEF RepairInv, RepairOK, OwnDeviceSpared
    <3> QED BY <1>1, <2>6, <3>2, <3>3, OthersAt, OthersChange
  <2> HIDE DEF S2, S
  <2>9. Sendable(S[m.dev], task[t].content) /\ Sendable(S2[m.dev], task[t].content)
    BY <2>3, <2>6, <2>7, <2>8 DEF Sendable
  <2>10. C = {m.dev}
    BY <2>3 DEF C
  <2>11. ASSUME AttemptOK(t) PROVE AttemptOK(t)'
    <3>1. WorkOK(S, srv[peer[t]], Expected(t), task[t].content,
                 task[t].attempt, task[t].todo, task[t].msgs, {m.dev})
      BY <1>2, <1>3, <2>1, <2>10, <2>11 DEF S
    <3>2. m.reg = S[m.dev].reg /\ m.reg = S2[m.dev].reg /\ m.dev \in Devices
      BY <1>1, <2>3, <2>6, <2>7, <2>8
    <3>3. \A e \in Devices \ {m.dev} : S2[e] = S[e]
      BY <2>3, <2>8
    <3>4. \A n \in task[t].msgs : n.dev \in Devices
      BY <1>1
    <3>5. WorkOK(S2, srv[peer[t]], Expected(t), task[t].content,
                 task[t].attempt, task[t].todo, task[t].msgs \cup {m}, {})
      BY <1>1, <2>9, <3>1, <3>2, <3>3, <3>4, WorkWrites
    <3>6. {} = IF pc'[t] \in Encrypting THEN {dev'[t]} ELSE {}
      BY <1>2, <2>5
    <3> QED BY <2>2, <2>4, <2>5, <3>5, <3>6, AtWork DEF S2
  <2> QED BY <1>2, <2>1, <2>2, <2>4, <2>5, <2>11, GoOnRetry
<1> QED BY <1>4, <1>5, <1>6, <1>7, <1>8 DEF EncryptStep

\* What EnumerateDevices takes: every live session, and just the expected
\* devices if the sessions are theirs.
LEMMA Enumerated ==
    ASSUME TypeOK, RepairInv, NEW t \in Senders, NEW todo, NEW con,
           todo = (SubDevices(peer[t]) \cup {DEFAULT_DEVICE_ID}) \ SenderDevice(peer[t])
    PROVE  /\ Live(Others(peer[t], sessions[peer[t]])) \subseteq todo
           /\ Registered(t) /\ Full(Others(peer[t], sessions[peer[t]]), Expected(t), con)
                => todo = Expected(t)
<1> DEFINE S == Others(peer[t], sessions[peer[t]])
<1>1. peer[t] \in Peers /\ DEFAULT_DEVICE_ID \in Devices
  BY RetryValues, ConstantsAssumption
<1>2. \A d \in Devices : S[d] = IF d \in SenderDevice(peer[t]) THEN NoSession
                                                               ELSE sessions[peer[t]][d]
  BY OthersAt
<1> HIDE DEF S
<1>3. Live(S) \subseteq todo
  BY <1>2 DEF Live, SubDevices
<1>4. ASSUME Registered(t), Full(S, Expected(t), con) PROVE todo = Expected(t)
  <2>1. DEFAULT_DEVICE_ID \in Linked(peer[t])
    BY <1>1, <1>4 DEF Registered, Linked
  <2>2. Expected(t) = Linked(peer[t]) \ SenderDevice(peer[t])
    BY DEF Expected
  <2>3. Expected(t) \subseteq Live(S)
    BY <1>4, <2>2 DEF Full, Sendable, Live, Linked
  <2>4. \A d \in todo : d = DEFAULT_DEVICE_ID \/ d \in Live(S)
    BY <1>2 DEF SubDevices, Live
  <2>5. todo \cap SenderDevice(peer[t]) = {}
    OBVIOUS
  <2>6. todo \subseteq Expected(t)
    BY <1>4, <2>1, <2>2, <2>4, <2>5 DEF Full
  <2> QED BY <1>3, <2>3, <2>6
<1> QED BY <1>3, <1>4 DEF S

\* Encrypting for the devices, one after the other, and the post.
LEMMA MessagesRetry ==
    ASSUME TypeOK, LockInv, RepairInv, NEW t \in Senders, RetryOK(t),
           \/ EnumerateDevices(t) \/ \E d \in Devices : NextDevice(t, d)
           \/ LoadPlaintext(t) \/ DropCorruptSession(t) \/ NoMessagesToSend(t) \/ Post(t)
    PROVE  RetryOK(t)'
<1> USE DEF serverVars, storeVars
<1>1. /\ t \in Tasks /\ task[t] \in Locals /\ peer[t] \in Peers /\ dev[t] \in Devices
      /\ Expected(t) \subseteq Devices /\ \A m \in task[t].msgs : m.dev \in Devices
  BY RetryValues
<1>2. /\ {"ensure", "load"} \subseteq Encrypting
      /\ {"enumerate", "device", "load", "ensure", "posted"} \subseteq Holding
      /\ "device" \notin Encrypting /\ "posted" \notin Encrypting
  BY DEF Encrypting, Holding, PCs
<1> DEFINE S == Others(peer[t], sessions[peer[t]])
           R == srv[peer[t]]
           E == Expected(t)
           con == task[t].content
           a == task[t].attempt
<1>own. pc[t] = "load" => dev[t] \notin SenderDevice(peer[t])
  BY DEF RepairInv, RepairOK, OwnDeviceSpared, Encrypting
<1>3. CASE EnumerateDevices(t)
  <2> DEFINE D == (SubDevices(peer[t]) \cup {DEFAULT_DEVICE_ID}) \ SenderDevice(peer[t])
             x == [task[t] EXCEPT !.todo = D, !.msgs = {}]
  <2>1. Update(t, x) /\ pc[t] = "enumerate" /\ Goto(t, "device")
    BY <1>3 DEF EnumerateDevices
  <2>2. UNCHANGED <<peer, srv, sessions>>
    BY <1>3 DEF EnumerateDevices
  <2>3. Live(S) \subseteq D /\ (Registered(t) /\ Full(S, E, con) => D = E)
    BY Enumerated
  <2> HIDE DEF D
  <2>4. /\ x.content = con /\ x.attempt = a /\ x.todo = D /\ x.msgs = {}
        /\ x.result = task[t].result /\ x.quiet = task[t].quiet
    BY <1>1 DEF Locals
  <2> HIDE DEF x
  <2>5. task'[t] = x /\ pc'[t] = "device"
    BY <1>1, <2>1, GotoShape, UpdateShape
  <2>6. ASSUME AttemptOK(t), Registered(t) PROVE AttemptOK(t)'
    <3>1. TopOK(S, R, E, con, a)
      BY <2>1, <2>6 DEF AttemptOK
    <3>2. WorkOK(S, R, E, con, a, D, {}, {})
      <4> HIDE DEF S, R, E, con, a
      <4> QED BY <2>3, <2>6, <3>1, WorkBegins
    <3>3. {} = IF pc'[t] \in Encrypting THEN {dev'[t]} ELSE {}
      BY <1>2, <2>5
    <3> QED BY <2>2, <2>4, <2>5, <3>2, <3>3, AtWork
  <2> QED BY <1>2, <2>1, <2>2, <2>4, <2>5, <2>6, GoOnRetry
<1>4. ASSUME NEW d \in Devices, NextDevice(t, d) PROVE RetryOK(t)'
  <2> DEFINE D == task[t].todo \ {d}
             x == [task[t] EXCEPT !.todo = D, !.tries = 0]
  <2>1. Update(t, x) /\ pc[t] = "device" /\ Goto(t, "ensure") /\ d \in task[t].todo
    BY <1>4 DEF NextDevice
  <2>2. UNCHANGED <<peer, srv, sessions>> /\ dev'[t] = d
    BY <1>1, <1>4 DEF NextDevice, TypeOK
  <2> HIDE DEF D
  <2>3. /\ x.content = con /\ x.attempt = a /\ x.todo = D /\ x.msgs = task[t].msgs
        /\ x.result = task[t].result /\ x.quiet = task[t].quiet
    BY <1>1 DEF Locals
  <2> HIDE DEF x
  <2>4. task'[t] = x /\ pc'[t] = "ensure"
    BY <1>1, <2>1, GotoShape, UpdateShape
  <2>5. ASSUME AttemptOK(t) PROVE AttemptOK(t)'
    <3>1. WorkOK(S, R, E, con, a, task[t].todo, task[t].msgs, {})
      BY <1>2, <2>1, <2>5 DEF AttemptOK, InHand
    <3>2. WorkOK(S, R, E, con, a, D, task[t].msgs, {d})
      BY <2>1, <3>1, WorkTakes DEF D
    <3>3. {d} = IF pc'[t] \in Encrypting THEN {dev'[t]} ELSE {}
      BY <1>2, <2>2, <2>4
    <3> QED BY <1>2, <2>2, <2>3, <2>4, <3>2, <3>3, AtWork
  <2> QED BY <1>2, <2>1, <2>2, <2>3, <2>4, <2>5, GoOnRetry
<1>5. CASE LoadPlaintext(t)
  <2> DEFINE m == [dev |-> dev[t], reg |-> sessions[peer[t]][dev[t]].reg]
             M == task[t].msgs \cup {m}
             x == [task[t] EXCEPT !.msgs = M]
  <2>1. Update(t, x) /\ pc[t] = "load" /\ Goto(t, "device")
    BY <1>5 DEF LoadPlaintext
  <2>2. /\ UNCHANGED <<peer, srv, sessions>> /\ con = "plaintext"
        /\ S[dev[t]] # NoSession /\ S[dev[t]] = sessions[peer[t]][dev[t]]
    BY <1>1, <1>5, <1>own, OthersAt DEF LoadPlaintext
  <2>3. m.dev = dev[t] /\ m.reg = S[dev[t]].reg
    BY <2>2
  <2> HIDE DEF m
  <2>4. /\ x.content = con /\ x.attempt = a /\ x.todo = task[t].todo /\ x.msgs = M
        /\ x.result = task[t].result /\ x.quiet = task[t].quiet
    BY <1>1 DEF Locals
  <2> HIDE DEF x
  <2>5. task'[t] = x /\ pc'[t] = "device"
    BY <1>1, <2>1, GotoShape, UpdateShape
  <2>6. ASSUME AttemptOK(t) PROVE AttemptOK(t)'
    <3>1. WorkOK(S, R, E, con, a, task[t].todo, task[t].msgs, {m.dev})
      BY <1>2, <2>1, <2>3, <2>6 DEF AttemptOK, InHand
    <3>2. Sendable(S[m.dev], con) /\ m.reg = S[m.dev].reg /\ m.dev \in Devices
      BY <1>1, <2>2, <2>3 DEF Sendable
    <3>3. WorkOK(S, R, E, con, a, task[t].todo, task[t].msgs \cup {m}, {})
      <4> HIDE DEF S, R, E, con, a
      <4>1. \A e \in Devices \ {m.dev} : S[e] = S[e]
        OBVIOUS
      <4>2. E \subseteq Devices
        BY <1>1 DEF E
      <4> QED BY <1>1, <3>1, <3>2, <4>1, <4>2, WorkWrites
    <3>4. {} = IF pc'[t] \in Encrypting THEN {dev'[t]} ELSE {}
      BY <1>2, <2>5
    <3> QED BY <2>2, <2>4, <2>5, <3>3, <3>4, AtWork
  <2> QED BY <1>2, <2>1, <2>2, <2>4, <2>5, <2>6, GoOnRetry
<1>6. CASE DropCorruptSession(t)
  <2> DEFINE n == task[t].tries + 1
             x == [task[t] EXCEPT !.tries = n]
             d == dev[t]
             S2 == Others(peer[t], sessions'[peer[t]])
  <2>1. Update(t, x) /\ pc[t] = "load" /\ DeleteSession(peer[t], d)
    BY <1>6 DEF DropCorruptSession
  <2>2. PICK l \in {"ensure", "device"} : Goto(t, l)
    BY <1>6 DEF DropCorruptSession
  <2>3. UNCHANGED <<peer, dev, srv, changes>> /\ ~Sendable(S[d], con)
    BY <1>1, <1>6, <1>own, OthersAt DEF DropCorruptSession, Unencryptable, Sendable
  <2> HIDE DEF n
  <2>4. /\ x.content = con /\ x.attempt = a /\ x.todo = task[t].todo
        /\ x.msgs = task[t].msgs /\ x.result = task[t].result /\ x.quiet = task[t].quiet
    BY <1>1 DEF Locals
  <2> HIDE DEF x
  <2>5. task'[t] = x /\ pc'[t] = l
    BY <1>1, <2>1, <2>2, GotoShape, UpdateShape
  <2>6. S2[d] = NoSession /\ \A e \in Devices \ {d} : S2[e] = S[e]
    <3>1. /\ sessions'[peer[t]][d] = NoSession
          /\ \A e \in Devices \ {d} : sessions'[peer[t]][e] = sessions[peer[t]][e]
      BY <1>1, <2>1, <2>3, DeleteFine
    <3> DEFINE A == sessions[peer[t]]
               B == sessions'[peer[t]]
    <3>2. d \in Devices /\ B[d] = NoSession /\ \A e \in Devices \ {d} : B[e] = A[e]
      BY <1>1, <3>1
    <3> HIDE DEF A, B
    <3>3. /\ \A e \in Devices \ {d} : Others(peer[t], B)[e] = Others(peer[t], A)[e]
          /\ Others(peer[t], B)[d] = NoSession
      BY <3>2 DEF Others
    <3> QED BY <3>3 DEF A, B
  <2> HIDE DEF S2
  <2>7. ASSUME AttemptOK(t) PROVE AttemptOK(t)'
    <3>1. WorkOK(S, R, E, con, a, task[t].todo, task[t].msgs, {d})
      BY <1>2, <2>1, <2>7 DEF AttemptOK, InHand
    <3> DEFINE C == IF pc'[t] \in Encrypting THEN {dev'[t]} ELSE {}
    <3>2. C \subseteq {d}
      BY <2>3
    <3>3. d \in Devices /\ E \subseteq Devices
      BY <1>1
    <3> HIDE DEF C
    <3>4. WorkOK(S2, R, E, con, a, task[t].todo, task[t].msgs, C)
      <4>1. ~Sendable(S[d], con) /\ S2[d] = NoSession /\ \A e \in Devices \ {d} : S2[e] = S[e]
        BY <2>3, <2>6
      <4>2. \A m \in task[t].msgs : m.dev \in Devices
        BY <1>1
      <4> HIDE DEF S, R, E, con, a, d
      <4> QED BY <3>1, <3>2, <3>3, <4>1, <4>2, WorkDrops
    <3>5. pc'[t] \in Encrypting \cup {"device", "posted"} /\ pc'[t] \notin {"posted", "process"}
      BY <1>2, <2>2, <2>5
    <3> QED BY <2>3, <2>4, <2>5, <3>4, <3>5, AtWork DEF S2, C
  <2>8. pc'[t] \notin {"lock", "repair"}
    BY <2>2, <2>5
  <2> QED BY <1>2, <2>1, <2>3, <2>4, <2>5, <2>7, <2>8, GoOnRetry
<1>7. CASE NoMessagesToSend(t)
  BY <1>7, FinishRetry DEF NoMessagesToSend
<1>8. CASE Post(t)
  <2>1. pc[t] = "device" /\ task[t].todo = {} /\ Goto(t, "posted")
    BY <1>8 DEF Post
  <2>2. UNCHANGED <<peer, srv, sessions, task>>
    BY <1>8 DEF Post
  <2>3. pc'[t] = "posted"
    BY <1>1, <2>1, GotoShape
  <2>4. ASSUME AttemptOK(t) PROVE AttemptOK(t)'
    <3>1. WorkOK(S, R, E, con, a, task[t].todo, task[t].msgs, {})
      BY <1>2, <2>1, <2>4 DEF AttemptOK, InHand
    <3>2. {} = IF pc'[t] \in Encrypting THEN {dev'[t]} ELSE {}
      BY <1>2, <2>3
    <3> QED BY <2>1, <2>2, <2>3, <3>1, <3>2, AtWork
  <2> QED BY <1>2, <2>1, <2>2, <2>3, <2>4, GoOnRetry
<1> QED BY <1>3, <1>4, <1>5, <1>6, <1>7, <1>8

\* A call that is no longer quiet, and is not queued for the lock, promises
\* nothing.
LEMMA LoudRetry ==
    ASSUME NEW t \in Senders, pc'[t] # "lock", ~task'[t].quiet
    PROVE  RetryOK(t)'
BY DEF RetryOK

\* What AttemptOK says of the next state where it repairs.
LEMMA AtMend ==
    ASSUME NEW t \in Senders, pc'[t] = "repair", peer' = peer, srv' = srv,
           MendOK(Others(peer[t], sessions'[peer[t]]), srv[peer[t]], Expected(t), task'[t].content,
                  task'[t].attempt, task'[t].extra, task'[t].missing)
    PROVE  AttemptOK(t)'
<1>1. Expected(t)' = Expected(t)
  BY DEF Expected, Linked, SenderDevice, OwnIds
<1>2. pc'[t] \notin Encrypting \cup {"device", "posted", "enumerate", "process"}
  BY DEF Encrypting
<1> QED BY <1>1, <1>2 DEF AttemptOK

\* What AttemptOK says of the next state where it begins an attempt.
LEMMA AtTop ==
    ASSUME NEW t \in Senders, pc'[t] = "enumerate", peer' = peer, srv' = srv,
           TopOK(Others(peer[t], sessions'[peer[t]]), srv[peer[t]], Expected(t), task'[t].content,
                 task'[t].attempt)
    PROVE  AttemptOK(t)'
<1>1. Expected(t)' = Expected(t)
  BY DEF Expected, Linked, SenderDevice, OwnIds
<1>2. pc'[t] \notin Encrypting \cup {"device", "posted", "repair", "process"}
  BY DEF Encrypting
<1> QED BY <1>1, <1>2 DEF AttemptOK

\* The answers: a 409 and a 410 name just what is wrong with the sessions.
LEMMA AnswerRetry ==
    ASSUME TypeOK, RepairInv, NEW t \in Senders, RetryOK(t), AnswerStep(t)
    PROVE  RetryOK(t)'
<1> USE DEF serverVars, storeVars
<1>1. /\ t \in Tasks /\ task[t] \in Locals /\ peer[t] \in Peers
      /\ task[t].attempt \in 1 .. 4
  BY RetryValues
<1>2. /\ peer' = peer /\ sessions' = sessions /\ srv' = srv
      /\ pc[t] = "posted" /\ pc[t] \in Holding /\ pc[t] \notin Encrypting
  BY DEF AnswerStep, AnswerOk, AnswerUnauthorized, AnswerMismatched, AnswerStale,
         AnswerUnregistered, AnswerRefused, AnswerLost, Holding, PCs, Encrypting
<1> DEFINE S == Others(peer[t], sessions[peer[t]])
           R == srv[peer[t]]
           E == Expected(t)
           con == task[t].content
           a == task[t].attempt
           N == task[t].msgs
<1>3. AttemptOK(t) => WorkOK(S, R, E, con, a, {}, N, {})
  BY <1>2 DEF AttemptOK, InHand
<1>4. Addressed(t) = Devs(N)
  BY DEF Addressed, Devs
<1>5. CASE AnswerOk(t) \/ AnswerUnregistered(t) \/ (\E r \in Results : AnswerRefused(t, r))
           \/ AnswerLost(t)
  BY <1>2, <1>5, FinishRetry DEF AnswerOk, AnswerUnregistered, AnswerRefused, AnswerLost
<1>6. CASE AnswerUnauthorized(t)
  <2> DEFINE x == [task[t] EXCEPT !.sealed = FALSE, !.quiet = FALSE]
  <2>1. Retry(t, x)
    BY <1>6 DEF AnswerUnauthorized
  <2>2. CASE task[t].attempt < MaxAttempts
    <3> DEFINE y == [x EXCEPT !.attempt = @ + 1]
    <3>1. y.quiet = FALSE
      BY <1>1 DEF Locals
    <3>2. Update(t, y) /\ Goto(t, "enumerate")
      BY <2>1, <2>2 DEF Retry
    <3> HIDE DEF y, x
    <3>3. task'[t] = y /\ pc'[t] = "enumerate"
      BY <1>1, <3>2, GotoShape, UpdateShape
    <3> QED BY <3>1, <3>3, LoudRetry
  <2>3. CASE ~(task[t].attempt < MaxAttempts)
    BY <1>2, <2>1, <2>3, FinishRetry DEF Retry
  <2> QED BY <2>2, <2>3
<1>7. CASE AnswerMismatched(t)
  <2> DEFINE X == Addressed(t) \ E
             M == E \ Addressed(t)
             J == task[t].rejected \cup {m \in N : m.dev \notin E}
             x == [task[t] EXCEPT !.extra = X, !.missing = M, !.rejected = J]
  <2>1. Update(t, x) /\ Goto(t, "repair") /\ Registered(t) /\ Addressed(t) # E
    BY <1>7 DEF AnswerMismatched, Mismatched
  <2> HIDE DEF X, M, J
  <2>2. /\ x.content = con /\ x.attempt = a /\ x.extra = X /\ x.missing = M
        /\ x.result = task[t].result /\ x.quiet = task[t].quiet
    BY <1>1 DEF Locals
  <2> HIDE DEF x
  <2>3. task'[t] = x /\ pc'[t] = "repair"
    BY <1>1, <2>1, GotoShape, UpdateShape
  <2>4. ASSUME AttemptOK(t) PROVE AttemptOK(t)'
    <3>1. MendOK(S, R, E, con, a, Devs(N) \ E, E \ Devs(N))
      <4>1. a \in 1 .. 4
        BY <1>1
      <4> HIDE DEF S, R, E, con, a, N
      <4> QED BY <1>3, <1>4, <2>1, <2>4, <4>1, MismatchMends
    <3> QED BY <1>2, <1>4, <2>2, <2>3, <3>1, AtMend DEF X, M
  <2> QED BY <1>2, <2>1, <2>2, <2>3, <2>4, GoOnRetry
<1>8. CASE AnswerStale(t)
  <2> DEFINE Z == Stale(t)
             X == {m.dev : m \in Z}
             J == task[t].rejected \cup Z
             x == [task[t] EXCEPT !.extra = X, !.rejected = J]
  <2>1. Update(t, x) /\ Goto(t, "repair")
    BY <1>8 DEF AnswerStale
  <2>2. Registered(t) /\ Devs(N) = E /\ Z # {} /\ X = Devs(Z)
    BY <1>4, <1>8 DEF AnswerStale, OnlyStale, Devs
  <2>3. Z = {m \in N : m.reg # R[m.dev]}
    BY DEF Stale
  <2> HIDE DEF X, J, Z
  <2>4. /\ x.content = con /\ x.attempt = a /\ x.extra = X /\ x.missing = task[t].missing
        /\ x.result = task[t].result /\ x.quiet = task[t].quiet
    BY <1>1 DEF Locals
  <2> HIDE DEF x
  <2>5. task'[t] = x /\ pc'[t] = "repair"
    BY <1>1, <2>1, GotoShape, UpdateShape
  <2>6. task[t].missing = {}
    BY <1>2, Tidy
  <2>7. ASSUME AttemptOK(t) PROVE AttemptOK(t)'
    <3>1. MendOK(S, R, E, con, a, Devs(Z), {})
      <4>1. a \in 1 .. 4
        BY <1>1
      <4> HIDE DEF S, R, E, con, a, N
      <4> QED BY <1>3, <2>2, <2>3, <2>7, <4>1, StaleMends
    <3> QED BY <1>2, <2>2, <2>4, <2>5, <2>6, <3>1, AtMend
  <2> QED BY <1>2, <2>1, <2>2, <2>4, <2>5, <2>7, GoOnRetry
<1> QED BY <1>5, <1>6, <1>7, <1>8 DEF AnswerStep

\* The repair does all that the answer asked for, and then there is a next
\* attempt.
LEMMA RepairRetry ==
    ASSUME TypeOK, RepairInv, NEW t \in Senders, RetryOK(t), RepairStep(t)
    PROVE  RetryOK(t)'
<1> USE DEF serverVars, storeVars
<1>1. /\ t \in Tasks /\ task[t] \in Locals /\ peer[t] \in Peers
      /\ task[t].attempt \in 1 .. 4 /\ Expected(t) \subseteq Devices
  BY RetryValues
<1>2. /\ peer' = peer /\ srv' = srv /\ changes' = changes
      /\ pc[t] = "repair" /\ pc[t] \in Holding
  BY DEF RepairStep, DropExtra, CreateMissing, MissingGone, Repaired, Holding, PCs
<1> DEFINE S == Others(peer[t], sessions[peer[t]])
           S2 == Others(peer[t], sessions'[peer[t]])
           R == srv[peer[t]]
           E == Expected(t)
           con == task[t].content
           a == task[t].attempt
<1>3. AttemptOK(t) => MendOK(S, R, E, con, a, task[t].extra, task[t].missing)
  BY <1>2 DEF AttemptOK
<1>4. E \subseteq Devices /\ a \in 1 .. 4
  BY <1>1
<1>5. ASSUME NEW d \in Devices, DropExtra(t, d) PROVE RetryOK(t)'
  <2> DEFINE X == task[t].extra \ {d}
             x == [task[t] EXCEPT !.extra = X]
  <2>1. Update(t, x) /\ pc' = pc /\ d \in task[t].extra /\ DeleteSession(peer[t], d)
    BY <1>5 DEF DropExtra
  <2>2. /\ x.content = con /\ x.attempt = a /\ x.extra = X /\ x.missing = task[t].missing
        /\ x.result = task[t].result /\ x.quiet = task[t].quiet
    BY <1>1 DEF Locals
  <2> HIDE DEF x
  <2>3. task'[t] = x /\ pc'[t] = "repair"
    BY <1>1, <1>2, <2>1, UpdateShape
  <2>4. S2[d] = NoSession /\ \A e \in Devices \ {d} : S2[e] = S[e]
    <3>1. /\ sessions'[peer[t]][d] = NoSession
          /\ \A e \in Devices \ {d} : sessions'[peer[t]][e] = sessions[peer[t]][e]
      BY <1>1, <1>2, <2>1, DeleteFine
    <3> DEFINE A == sessions[peer[t]]
               B == sessions'[peer[t]]
    <3>2. d \in Devices /\ B[d] = NoSession /\ \A e \in Devices \ {d} : B[e] = A[e]
      BY <1>1, <3>1
    <3> HIDE DEF A, B
    <3>3. /\ \A e \in Devices \ {d} : Others(peer[t], B)[e] = Others(peer[t], A)[e]
          /\ Others(peer[t], B)[d] = NoSession
      BY <3>2 DEF Others
    <3> QED BY <3>3 DEF A, B
  <2>5. ASSUME AttemptOK(t) PROVE AttemptOK(t)'
    <3>1. MendOK(S2, R, E, con, a, X, task[t].missing)
      <4> HIDE DEF S, S2, R, E, con, a
      <4> QED BY <1>3, <1>4, <2>1, <2>4, <2>5, MendDrops
    <3> QED BY <1>2, <2>2, <2>3, <3>1, AtMend
  <2> QED BY <1>2, <2>2, <2>3, <2>5, GoOnRetry
<1>6. ASSUME NEW d \in Devices, CreateMissing(t, d) PROVE RetryOK(t)'
  <2> DEFINE M == task[t].missing \ {d}
             x == [task[t] EXCEPT !.missing = M]
  <2>1. Update(t, x) /\ pc' = pc /\ d \in task[t].missing /\ BuildSession(peer[t], d, R[d])
    BY <1>6 DEF CreateMissing
  <2>2. /\ x.content = con /\ x.attempt = a /\ x.extra = task[t].extra /\ x.missing = M
        /\ x.result = task[t].result /\ x.quiet = task[t].quiet
    BY <1>1 DEF Locals
  <2> HIDE DEF x
  <2>3. task'[t] = x /\ pc'[t] = "repair"
    BY <1>1, <1>2, <2>1, UpdateShape
  <2>4. Built(S, S2, R, d)
    <3>1. d \notin SenderDevice(peer[t])
      BY <2>1 DEF RepairInv, RepairOK, OwnDeviceSpared
    <3> QED BY <1>1, <2>1, <3>1, BuildBuilt, OthersBuilt
  <2>5. ASSUME AttemptOK(t) PROVE AttemptOK(t)'
    <3>1. MendOK(S2, R, E, con, a, task[t].extra, M)
      <4> HIDE DEF S, S2, R, E, con, a
      <4> QED BY <1>3, <1>4, <2>1, <2>4, <2>5, MendBuilds
    <3> QED BY <1>2, <2>2, <2>3, <3>1, AtMend
  <2> QED BY <1>2, <2>2, <2>3, <2>5, GoOnRetry
<1>7. ASSUME NEW d \in Devices, MissingGone(t, d) PROVE RetryOK(t)'
  BY <1>7, FinishRetry DEF MissingGone
<1>8. CASE Repaired(t)
  <2>1. Retry(t, task[t]) /\ task[t].extra = {} /\ task[t].missing = {} /\ sessions' = sessions
    BY <1>8 DEF Repaired
  <2>2. task[t].quiet => Registered(t) /\ AttemptOK(t)
    BY <1>2 DEF RetryOK
  <2>3. AttemptOK(t) => MendOK(S, R, E, con, a, {}, {})
    BY <1>3, <2>1
  <2>4. CASE task[t].attempt < MaxAttempts
    <3> DEFINE b == task[t].attempt + 1
               x == [task[t] EXCEPT !.attempt = b]
    <3>1. Update(t, x) /\ Goto(t, "enumerate")
      BY <2>1, <2>4 DEF Retry
    <3>2. x.content = con /\ x.attempt = b /\ x.result = task[t].result /\ x.quiet = task[t].quiet
      BY <1>1 DEF Locals
    <3> HIDE DEF x
    <3>3. task'[t] = x /\ pc'[t] = "enumerate"
      BY <1>1, <3>1, GotoShape, UpdateShape
    <3>4. ASSUME AttemptOK(t) PROVE AttemptOK(t)'
      <4>1. b = a + 1
        OBVIOUS
      <4>2. TopOK(S, R, E, con, b)
        <5> HIDE DEF S, R, E, con, a, b
        <5> QED BY <1>4, <2>3, <3>4, <4>1, MendEnds
      <4> QED BY <1>2, <2>1, <3>2, <3>3, <4>2, AtTop
    <3> QED BY <1>2, <3>2, <3>3, <3>4, GoOnRetry
  <2>5. CASE ~(task[t].attempt < MaxAttempts)
    <3>1. a = 4
      BY <1>1, <2>5 DEF MaxAttempts
    <3>2. ~task[t].quiet
      BY <2>2, <2>3, <3>1 DEF MendOK
    <3> QED BY <2>1, <2>5, <3>2, FinishRetry DEF Retry
  <2> QED BY <2>4, <2>5
<1> QED BY <1>5, <1>6, <1>7, <1>8 DEF RepairStep

-----------------------------------------------------------------------------
(* The steps of the others *)

\* A sender that another task's step leaves alone, with the records of its peer
\* if it has the lock, keeps its part.
LEMMA LeftAlone ==
    ASSUME NEW u \in Senders, RetryOK(u),
           pc'[u] = pc[u], task'[u] = task[u], peer'[u] = peer[u], dev'[u] = dev[u],
           srv'[peer[u]] = srv[peer[u]],
           pc[u] \in Holding => sessions'[peer[u]] = sessions[peer[u]]
    PROVE  RetryOK(u)'
<1>1. Registered(u)' <=> Registered(u)
  BY DEF Registered
<1>2. Expected(u)' = Expected(u) /\ Linked(peer[u])' = Linked(peer[u]) /\ InHand(u)' = InHand(u)
  BY DEF Expected, Linked, SenderDevice, OwnIds, InHand
<1>3. pc[u] \in Holding /\ AttemptOK(u) => AttemptOK(u)'
  BY <1>2 DEF AttemptOK, Linked
<1> QED BY <1>1, <1>3 DEF RetryOK

\* A step of one task, under the lock of its peer if it writes records, keeps
\* the invariant if the task keeps its own part.
LEMMA OneTaskRetry ==
    ASSUME TypeOK, LockInv, RetryInv, NEW t \in Tasks, srv' = srv,
           \/ UNCHANGED sessions
           \/ pc[t] \in Holding /\ \A q \in Peers \ {peer[t]} : sessions'[q] = sessions[q],
           \A u \in Tasks \ {t} : /\ pc'[u] = pc[u] /\ task'[u] = task[u]
                                  /\ peer'[u] = peer[u] /\ dev'[u] = dev[u],
           t \in Senders => RetryOK(t)'
    PROVE  RetryInv'
<1>1. Senders \subseteq Tasks /\ peer \in [Tasks -> Peers]
  BY DEF TypeOK, Tasks
<1>2. ASSUME NEW u \in Senders \ {t} PROVE RetryOK(u)'
  <2>1. /\ pc'[u] = pc[u] /\ task'[u] = task[u] /\ peer'[u] = peer[u] /\ dev'[u] = dev[u]
        /\ RetryOK(u)
    BY <1>1, <1>2 DEF RetryInv
  <2>2. pc[u] \in Holding => sessions'[peer[u]] = sessions[peer[u]]
    BY <1>1, <1>2 DEF LockInv, LockHeld
  <2> QED BY <1>2, <2>1, <2>2, LeftAlone
<1> QED BY <1>2 DEF RetryInv

\* Calls, envelopes, the lock and dropped futures.
LEMMA QueueRetry ==
    ASSUME TypeOK, LockInv, RetryInv, NEW t \in Tasks,
           \/ t \in Senders /\ \E c \in Calls : StartSend(t, c)
           \/ t \in Senders /\ AcquireSend(t)
           \/ t \in Receivers /\ \E p \in Peers, d \in Devices : StartDecrypt(t, p, d)
           \/ t \in Receivers /\ AcquireDecrypt(t)
           \/ EarlyEnd(t)
           \/ t \in Senders /\ LateArrival(t)
    PROVE  RetryInv'
<1> USE DEF serverVars, storeVars
<1>1. sessions' = sessions /\ srv' = srv
  BY DEF StartSend, AcquireSend, StartDecrypt, AcquireDecrypt, EarlyEnd, Fail, DropWorking,
         DropWaiting, LateArrival
<1>2. Senders \cap Receivers = {} /\ t \in Tasks /\ task[t] \in Locals
  BY TaskTypes, ConstantsAssumption
<1>3. ASSUME t \in Senders, NEW c \in Calls, StartSend(t, c)
      PROVE  RetryInv'
  <2> DEFINE x == [NoLocals EXCEPT !.content = c.content, !.sealed = c.sealed]
  <2>1. x.attempt = 1 /\ x.result = "none"
    BY DEF NoLocals
  <2>2. Update(t, x) /\ Goto(t, "lock")
    BY <1>3 DEF StartSend
  <2> HIDE DEF x
  <2>3. /\ pc'[t] = "lock" /\ task'[t] = x /\ dev' = dev
        /\ \A u \in Tasks \ {t} : pc'[u] = pc[u] /\ task'[u] = task[u] /\ peer'[u] = peer[u]
    BY <1>3, <2>2, GotoShape, UpdateShape DEF StartSend, TypeOK
  <2>4. RetryOK(t)'
    BY <2>1, <2>3 DEF RetryOK, Holding
  <2> QED BY <1>1, <1>3, <2>3, <2>4, OneTaskRetry
<1>4. ASSUME t \in Senders, AcquireSend(t)
      PROVE  RetryInv'
  <2>1. /\ pc[t] = "lock" /\ pc'[t] = "enumerate" /\ peer' = peer /\ dev' = dev /\ task' = task
        /\ \A u \in Tasks \ {t} : pc'[u] = pc[u]
    BY <1>4, GotoShape DEF AcquireSend, Acquire
  <2>2. RetryOK(t) /\ task[t].attempt = 1
    BY <1>4, <2>1 DEF RetryInv, RetryOK
  <2>3. TopOK(Others(peer[t], sessions'[peer[t]]), srv[peer[t]], Expected(t), task'[t].content, task'[t].attempt)
    BY <2>1, <2>2 DEF TopOK
  <2>4. AttemptOK(t)'
    BY <1>1, <1>4, <2>1, <2>3, AtTop
  <2>5. RetryOK(t)'
    BY <2>1, <2>2, <2>4 DEF RetryOK
  <2> QED BY <1>1, <2>1, <2>5, OneTaskRetry
<1>5. ASSUME t \in Receivers, NEW p \in Peers, NEW d \in Devices, StartDecrypt(t, p, d)
      PROVE  RetryInv'
  <2>1. /\ task' = task
        /\ \A u \in Tasks \ {t} : pc'[u] = pc[u] /\ peer'[u] = peer[u] /\ dev'[u] = dev[u]
    BY <1>5, GotoShape DEF StartDecrypt, TypeOK
  <2> QED BY <1>1, <1>2, <1>5, <2>1, OneTaskRetry
<1>6. ASSUME t \in Receivers, AcquireDecrypt(t)
      PROVE  RetryInv'
  <2>1. /\ peer' = peer /\ dev' = dev /\ task' = task
        /\ \A u \in Tasks \ {t} : pc'[u] = pc[u]
    BY <1>6, GotoShape DEF AcquireDecrypt, Acquire
  <2> QED BY <1>1, <1>2, <1>6, <2>1, OneTaskRetry
<1>7. CASE EarlyEnd(t)
  <2>1. PICK r : Finish(t, r) /\ r # "MaximumRetriesLimitExceeded"
    <3>1. CASE \E r \in Results : Fail(t, r)
      BY <3>1 DEF Fail, Errors
    <3>2. CASE DropWorking(t) \/ DropWaiting(t)
      BY <3>2 DEF DropWorking, DropWaiting
    <3> QED BY <1>7, <3>1, <3>2 DEF EarlyEnd
  <2>2. /\ peer' = peer /\ dev' = dev
        /\ \A u \in Tasks \ {t} : pc'[u] = pc[u] /\ task'[u] = task[u]
    BY <1>7, <2>1, FinishShape DEF EarlyEnd, Fail, DropWorking, DropWaiting
  <2>3. t \in Senders => RetryOK(t)'
    BY <2>1, FinishRetry
  <2> QED BY <1>1, <2>2, <2>3, OneTaskRetry
<1>8. ASSUME t \in Senders, LateArrival(t)
      PROVE  RetryInv'
  <2> DEFINE x == [task[t] EXCEPT !.msgs = {}]
  <2>1. x.result = task[t].result /\ x.quiet = task[t].quiet
    BY <1>2 DEF Locals
  <2>2. Update(t, x)
    BY <1>8 DEF LateArrival
  <2> HIDE DEF x
  <2>3. /\ pc' = pc /\ pc[t] = "done" /\ peer' = peer /\ dev' = dev /\ task'[t] = x
        /\ \A u \in Tasks \ {t} : task'[u] = task[u]
    BY <1>8, <2>2, UpdateShape DEF LateArrival
  <2>4. RetryOK(t)'
    BY <1>8, <2>1, <2>3 DEF RetryInv, RetryOK, Holding
  <2> QED BY <1>1, <2>3, <2>4, OneTaskRetry
<1> QED BY <1>3, <1>4, <1>5, <1>6, <1>7, <1>8

\* A sender is no longer quiet once the devices of its peer have changed.
LEMMA ChangeRetry ==
    ASSUME TypeOK, RetryInv, NEW p \in Peers, NEW regs, ChangeDevices(p, regs)
    PROVE  RetryInv'
<1> USE DEF storeVars
<1>1. pc' = pc /\ peer' = peer /\ dev' = dev /\ sessions' = sessions
  BY DEF ChangeDevices
<1>2. ASSUME NEW t \in Senders PROVE RetryOK(t)'
  <2>1. t \in Tasks /\ task[t] \in Locals /\ peer[t] \in Peers /\ RetryOK(t)
    BY RetryValues DEF RetryInv
  <2>2. CASE peer[t] # p
    <3>1. srv'[peer[t]] = srv[peer[t]] /\ task'[t] = task[t]
      BY <2>1, <2>2 DEF ChangeDevices, TypeOK
    <3> QED BY <1>1, <2>1, <3>1, LeftAlone
  <2>3. CASE peer[t] = p /\ pc[t] # "done"
    <3> DEFINE x == [task[t] EXCEPT !.quiet = FALSE]
    <3>1. ~x.quiet /\ x.attempt = task[t].attempt
      BY <2>1 DEF Locals
    <3>2. task'[t] = x
      BY <2>1, <2>3 DEF ChangeDevices
    <3> HIDE DEF x
    <3> QED BY <1>1, <2>1, <3>1, <3>2 DEF RetryOK
  <2>4. CASE peer[t] = p /\ pc[t] = "done"
    <3>1. task'[t] = task[t]
      BY <2>1, <2>4 DEF ChangeDevices
    <3> QED BY <1>1, <2>1, <2>4, <3>1 DEF RetryOK, Holding
  <2> QED BY <2>2, <2>3, <2>4
<1> QED BY <1>2 DEF RetryInv

\* Every step keeps the invariant.
LEMMA NextRetry ==
    ASSUME TypeOK, LockInv, RepairInv, RetryInv, [Next]_vars
    PROVE  RetryInv'
<1>1. Senders \subseteq Tasks /\ Receivers \subseteq Tasks /\ Senders \cap Receivers = {}
  BY ConstantsAssumption DEF Tasks
<1>2. ASSUME NEW t \in Senders, SendStep(t)
      PROVE  RetryInv'
  <2>1. RetryOK(t)
    BY DEF RetryInv
  <2>2. RetryOK(t)'
    BY <1>2, <2>1, EncryptRetry, MessagesRetry, AnswerRetry, RepairRetry DEF SendStep
  <2>3. /\ pc[t] \in Holding /\ peer' = peer /\ srv' = srv
        /\ \A u \in Tasks \ {t} : dev'[u] = dev[u]
    BY <1>2, SendFrame
  <2>4. \A u \in Tasks \ {t} : pc'[u] = pc[u] /\ task'[u] = task[u]
    BY <1>2, SendMove DEF Move
  <2>5. \A q \in Peers \ {peer[t]} : sessions'[q] = sessions[q]
    BY <1>2, SendRepair DEF StoreFine
  <2> QED BY <1>1, <2>2, <2>3, <2>4, <2>5, OneTaskRetry
<1>3. ASSUME NEW t \in Senders, SenderNext(t)
      PROVE  RetryInv'
  BY <1>1, <1>2, <1>3, QueueRetry DEF SenderNext
<1>4. ASSUME NEW t \in Receivers, DecryptStep(t)
      PROVE  RetryInv'
  <2>1. /\ pc[t] \in Holding /\ peer' = peer /\ dev' = dev /\ srv' = srv
        /\ \A q \in Peers \ {peer[t]} : sessions'[q] = sessions[q]
    BY <1>4 DEF DecryptStep, LoadDecrypt, DecryptPreKeyMessage, DecryptSameChain,
                DecryptNewChain, DecryptFails, DecryptEnds, Holding, PCs, BuildSession,
                storeVars, serverVars, TypeOK
  <2>2. \A u \in Tasks \ {t} : pc'[u] = pc[u] /\ task'[u] = task[u]
    BY <1>1, <1>4, OtherMoves DEF Move
  <2> QED BY <1>1, <2>1, <2>2, OneTaskRetry
<1>5. ASSUME NEW t \in Receivers, ReceiverNext(t)
      PROVE  RetryInv'
  BY <1>1, <1>4, <1>5, QueueRetry DEF ReceiverNext
<1>6. CASE ServerStep
  <2>1. ASSUME NEW t \in Senders, LateArrival(t) PROVE RetryInv'
    BY <1>1, <2>1, QueueRetry
  <2>2. ASSUME NEW p \in Peers, NEW d \in Devices, LinkDevice(p, d) \/ UnlinkDevice(p, d)
        PROVE  RetryInv'
    BY <2>2, ChangeRetry DEF LinkDevice, UnlinkDevice
  <2>3. ASSUME NEW p \in Peers, Register(p) \/ Unregister(p) PROVE RetryInv'
    BY <2>3, ChangeRetry DEF Register, Unregister
  <2> QED BY <1>6, <2>1, <2>2, <2>3 DEF ServerStep
<1>7. CASE Terminated \/ UNCHANGED vars
  <2>1. /\ sessions' = sessions /\ srv' = srv /\ pc' = pc /\ peer' = peer
        /\ dev' = dev /\ task' = task
    BY <1>7 DEF Terminated, vars, storeVars, serverVars
  <2> QED BY <2>1, LeftAlone DEF RetryInv
<1> QED BY <1>1, <1>3, <1>5, <1>6, <1>7, QueueRetry DEF Next

\* At first no call has begun.
LEMMA InitRetry == Init => RetryInv
BY DEF Init, RetryInv, RetryOK, NoLocals, Holding, Tasks

\* While the peer's devices stay, each attempt of a call begins better off than
\* the last.
LEMMA RetryInvariant == Spec => []RetryInv
<1>1. TypeOK /\ LockInv /\ RepairInv /\ RetryInv /\ [Next]_vars => RetryInv'
  BY NextRetry
<1> QED BY <1>1, InitRetry, TypeCorrect, LockInvariant, RepairInvariant, PTL DEF Spec

\* try_send_content's loop of four attempts is never too short: whatever stale,
\* extra, missing and corrupt sessions a call starts from, and whatever other
\* calls and decryptions do, it gives up with MaximumRetriesLimitExceeded only
\* if the peer's devices changed meanwhile, the server lacked keys for one of
\* them, or a sealed attempt was spent on a 401.
THEOREM FourAttemptsSuffice == Spec => []RetriesSuffice
<1>1. RetryInv => RetriesSuffice
  BY DEF RetryInv, RetryOK, RetriesSuffice
<1> QED BY <1>1, RetryInvariant, PTL
=============================================================================
