---------------------------- MODULE PnpInitialize ----------------------------
(***************************************************************************)
(* AccountManager::pnp_initialize_devices (src/src/account_manager.rs)     *)
(* next to the senders and receivers of MessageSender.  It encrypts a      *)
(* message for each linked device of this account with the same            *)
(* create_encrypted_message, but not through try_send_content, so without  *)
(* the session lock.                                                       *)
(***************************************************************************)
EXTENDS MessageSender

CONSTANT Initializers   \* those of the Senders that run pnp_initialize_devices

\* "Should be called as the primary device", as the instances do.  The linked
\* devices are those with a session.  Keys for the primary device itself need no
\* message.
StartInitialize(t) ==
    /\ pc[t] = "idle"
    /\ peer' = [peer EXCEPT ![t] = Self]
    /\ Update(t, [task[t] EXCEPT !.todo = SubDevices(Self)])
    /\ Goto(t, "device")
    /\ UNCHANGED <<lockVars, storeVars, serverVars, wire, dev, snap, historyVars>>

\* A device whose session is gone by now is skipped.
SkipDevice(t, d) ==
    /\ pc[t] = "device"
    /\ d \in task[t].todo
    /\ sessions[Self][d] = NoSession
    /\ Update(t, [task[t] EXCEPT !.todo = @ \ {d}])
    /\ UNCHANGED <<lockVars, storeVars, serverVars, wire, pc, peer, dev, snap, historyVars>>

InitializeDevice(t, d) ==
    /\ sessions[Self][d] # NoSession
    /\ NextDevice(t, d)

\* Here SessionNotFound ends the call.
InitializeUnencryptable(t) ==
    /\ pc[t] = "load"
    /\ Unencryptable(t)
    /\ Finish(t, "ServiceError")
    /\ UNCHANGED <<waiters, storeVars, serverVars, wire, peer, dev, snap, historyVars>>

\* A store, libsignal or a request for keys fails: `?` ends the call, half done.
InitializeFails(t) ==
    /\ pc[t] \in {"device", "ensure", "fetch", "process", "load", "store"}
    /\ Finish(t, IF pc[t] = "fetch" THEN "ServiceError" ELSE "ProtocolError")
    /\ snap' = [snap EXCEPT ![t] = NoSession]
    /\ UNCHANGED <<waiters, storeVars, serverVars, wire, peer, dev, historyVars>>

\* distribute_pni_keys succeeds or fails.
DistributeKeys(t, r) ==
    /\ pc[t] = "device"
    /\ task[t].todo = {}
    /\ r \in {"Ok", "ServiceError"}
    /\ Finish(t, r)
    /\ UNCHANGED <<waiters, storeVars, serverVars, wire, peer, dev, snap, historyVars>>

InitializeStep(t) ==
    \/ StartInitialize(t)
    \/ \E d \in Devices : SkipDevice(t, d) \/ InitializeDevice(t, d)
    \/ EncryptStep(t)
    \/ InitializeUnencryptable(t)
    \/ InitializeFails(t)
    \/ \E r \in Results : DistributeKeys(t, r)

PnpNext ==
    \/ \E t \in Initializers : InitializeStep(t)
    \/ \E t \in Senders \ Initializers : SenderNext(t)
    \/ \E t \in Receivers : ReceiverNext(t)
    \/ \E t \in Tasks \ Initializers : EarlyEnd(t)
    \/ \E t \in Initializers : DropWorking(t)
    \/ ServerStep
    \/ Terminated

PnpSpec == Init /\ [][PnpNext]_vars
=============================================================================
