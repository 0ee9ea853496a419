----------------------------- MODULE DeviceLife -----------------------------
(***************************************************************************)
(* A device from its first start: it registers the account or is linked to *)
(* it, may fetch the message history it is offered, and keeps its pre-keys *)
(* fresh at the server.  Composes PreKeys, Provisioning and                *)
(* TransferArchive; the transfer shares no state with the others and takes *)
(* its steps between the link and the first refresh.                       *)
(***************************************************************************)
EXTENDS Provisioning, TransferArchive

vars == <<keyVars, linkVars, sessionVars, arch>>

NoBundles == [i \in Identities |-> None]

\* A new installation whose user links it or registers with it, or a device
\* that was registered before there were Kyber keys.
Init ==
    /\ KeysIdle
    /\ \/ /\ me = None
          /\ store = [i \in Identities |-> EmptyStore(1)]
          /\ bundle = [d \in Devices |-> NoBundles]
          /\ view \in {"none", "unused"}
       \/ \E n \in StartIds :
            /\ me = 0 /\ view = "unused"
            /\ store = [i \in Identities |-> LegacyStore(n)]
            /\ bundle = [d \in Devices |->
                           IF d = 0 THEN [i \in Identities |-> LegacyBundle] ELSE NoBundles]
    /\ pipe = Closed /\ primary = NoScan /\ codes = {} /\ told = <<>>
    /\ ended = [a \in Links |-> "no"] /\ scans = 0
    /\ session = "none" /\ fresh = FALSE
    /\ arch = NotStarted

Transferring == me \in Links /\ arch.pc # "over"

\* Steps of one part leave the others alone.
Keys(step) == step /\ UNCHANGED <<linkVars, sessionVars, arch>>
Link(step) == step /\ UNCHANGED <<sessionVars, arch>>
Primary(step) == /\ step
                 /\ UNCHANGED <<store, bundle, wire, handed, job, me, refreshed, round, fetches>>
                 /\ UNCHANGED <<sessionVars, arch>>
Session(step) == /\ step
                 /\ UNCHANGED <<store, bundle, wire, handed, job, me, refreshed, round, fetches>>
                 /\ UNCHANGED <<linkVars, arch>>

\* The device's own steps and the server's, which go on by themselves.  The
\* application asks for a last resort key (without one check_pre_keys says no
\* for ever, and every call makes another batch) and refreshes the ACI's keys
\* before the PNI's, which share nothing with them.
Progress ==
    /\ ~Transferring
    /\ \/ Keys(StartRefresh("aci", TRUE))
       \/ ~(me # None /\ Pending("aci")) /\ Keys(StartRefresh("pni", TRUE))
       \/ Keys(Status) \/ Keys(Check) \/ Keys(Upload)
       \/ \E r \in wire : Keys(ServeUpload(r))
       \/ Keys(GiveUp /\ job.kind # "link")
       \/ Link(ReplenishKeys) \/ Link(UploadLink) \/ Link(GiveUpLink)
       \/ \E r \in wire : Link(ServeLink(r))
       \/ Keys(UploadRegister)
       \/ \E r \in wire : ServeRegister(r) /\ UNCHANGED <<linkVars, session, arch>>

\* What the user, the primary, peers and the network may do.
Surroundings ==
    /\ ~Transferring
    /\ \/ \E a \in Links : view = "unused" /\ Link(StartLink(a))
       \/ Link(ProvisionStep) \/ Link(ProvisionFails)
       \/ \E a \in Links : Primary(Scan(a) /\ UNCHANGED failures)
       \/ Primary(GetCode)
       \/ Primary(SendProvision /\ UNCHANGED failures)
       \/ \E op \in {"create", "patch", "request", "submit"} : Session(SessionCall(op))
       \/ Session(SessionExpires)
       \/ Keys(StartRegister)
       \/ \E r \in wire : Keys(LoseRequest(r))
       \/ \E d \in Devices, i \in Identities : Keys(Fetch(d, i))
       \/ \E h \in handed : Keys(Receive(h))

Transfer == /\ me \in Links /\ job.pc = "idle"
            /\ ArchiveStep
            /\ UNCHANGED <<keyVars, linkVars, sessionVars>>

Next == Progress \/ Surroundings \/ Transfer

Spec == Init /\ [][Next]_vars

\* The application calls update_pre_key_bundle again until it finds nothing to
\* do, and what it calls runs on; a transfer ends.
FairSpec == Spec /\ WF_vars(Progress) /\ WF_vars(Transfer)

-----------------------------------------------------------------------------
(* Properties *)

KeyType == [id : 1..MediumMax, round : 0..round]
IsKeySet(k) == /\ k.ec \subseteq KeyType /\ k.pq \subseteq KeyType
               /\ k.signed \in KeyType /\ k.last \in KeyType \cup {None}

\* The ids of stored keys fit the medium range and no two one-time keys share
\* one; what travels are sets of such keys.
TypeOK ==
    /\ \A i \in Identities :
         LET s == store[i] IN
         /\ s.ec \cup s.pq \cup Range(s.last) \subseteq KeyType
         /\ Range(s.signed) \subseteq KeyType
         /\ \A k, m \in s.ec : k.id = m.id => k = m
         /\ \A k, m \in s.pq : k.id = m.id => k = m
         /\ \A k \in s.ec \cup s.pq : k.id < MediumMax
    /\ \A d \in Devices, i \in Identities : bundle[d][i] # None => IsKeySet(bundle[d][i])
    /\ \A r \in wire : \A i \in DOMAIN r.keys : IsKeySet(r.keys[i])
    /\ me \in Devices \cup {None}
    /\ refreshed \in [Identities -> {"unknown", "uploaded", "sufficient"}]

\* Every key a peer may use to open a session, whether the server still serves
\* it, a peer has fetched it, or it is on its way in an upload whose caller
\* gave up, has its private part in the store.
ServedKeysHeld ==
    /\ \A d \in Devices, i \in Identities : bundle[d][i] # None => Holds(store[i], bundle[d][i])
    /\ \A h \in handed : Holds(store[h.identity], h.keys)
    /\ \A r \in wire : \A i \in DOMAIN r.keys : Holds(store[i], r.keys[i])

\* Once update_pre_key_bundle has succeeded and nothing has happened to the
\* bundle since, calling it again makes and uploads no keys.
NoNeedlessRefresh ==
    job.pc = "replenish" /\ job.kind = "refresh"
        => refreshed[Head(job.left)] # "uploaded"

\* The application is told of a registration only when the server has the
\* device, with keys for both identities, and after it was shown the URL.
LinkIsTrue ==
    \A a \in Links : <<"Registration", a>> \in Range(told) =>
        /\ \A i \in Identities : bundle[a][i] # None
        /\ \E j, k \in DOMAIN told : j < k /\ told[j] = <<"Url", a>>
                                          /\ told[k] = <<"Registration", a>>

\* A link_device that failed on anything but an answer that did not come left
\* no device behind.
FailureLeavesNoDevice ==
    \A a \in Links : ended[a] \notin {"no", "linked", "unanswered"} => bundle[a] = NoBundles

\* After a call that was answered with the session, by success or by error,
\* the application knows where the session stands.
SessionViewIsFresh == fresh => view = session

\* What the application is told about its registration is true: that it has a
\* device, that it has none, and where the verification session stands.
RegistrationIsTrue == LinkIsTrue /\ FailureLeavesNoDevice /\ SessionViewIsFresh

\* A registered device ends up with its repeated-use keys and enough one-time
\* keys at the server: saves that fail, uploads that are lost or late, and the
\* assertion at the wrap of the ids only delay it.
BundlesSettle ==
    <>[](me # None => \A i \in Identities :
            LET b == bundle[me][i] IN
            /\ b.signed = SignedPreKey(store[i]) /\ b.last = LastResort(store[i])
            /\ Cardinality(b.ec) >= Minimum /\ Cardinality(b.pq) >= Minimum)

=============================================================================
