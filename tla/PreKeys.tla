------------------------------ MODULE PreKeys ------------------------------
(***************************************************************************)
(* The pre-keys of a device (src/src/pre_keys.rs, account_manager.rs,      *)
(* websocket/keys.rs): what its stores hold, what the server hands to      *)
(* peers who open a session, and update_pre_key_bundle, which brings the   *)
(* two together.  replenish_pre_keys saves key after key and may be cut    *)
(* short by a store error or a crash; an upload may be lost, its answer    *)
(* may be lost, and it may be handled after the caller gave up.            *)
(*                                                                         *)
(* The store is external (the crate only has its traits): saving a key     *)
(* replaces the one of the same id, the next id follows the id saved last, *)
(* signed_prekey_id is the signed key saved last, and                      *)
(* last_resort_kyber_prekey_id the first one load_last_resort_kyber_       *)
(* pre_keys returns.                                                       *)
(***************************************************************************)
EXTENDS Naturals, FiniteSets, SequencesExt, TLC

CONSTANTS Identities,   \* the service id kinds, ACI and PNI
          Links,        \* attempts to link; each makes a device of its own
          MediumMax,    \* PRE_KEY_MEDIUM_MAX_VALUE
          Batch,        \* PRE_KEY_BATCH_SIZE
          Minimum,      \* PRE_KEY_MINIMUM
          StartIds,     \* the next id a store of an older device may be at
          None,
          MaxFailures,  \* bound on requests and saves that fail
          MaxFetches    \* bound on bundles handed to peers

\* Devices have numbers, 0 stands for the one that registers; a batch fits into
\* the ids there are.
ASSUME PreKeysAssumption ==
    /\ Identities = {"aci", "pni"}
    /\ Links \subseteq Nat \ {0}
    /\ MediumMax \in Nat /\ Batch \in Nat /\ Batch + 1 < MediumMax
    /\ Minimum \in Nat /\ Minimum <= Batch
    /\ StartIds \subseteq 1..MediumMax

\* A key is told from others by its id and the call that made it.
Key == [id : Nat, round : Nat]
KeySet == [ec : SUBSET Key, pq : SUBSET Key, signed : Key, last : Key \cup {None}]

ASSUME NoneAssumption ==
    None \notin {0} \cup Links /\ None \notin Key /\ None \notin KeySet

VARIABLES store,      \* store[i]: the protocol store of identity i
          bundle,     \* external: bundle[d][i], what the server serves for device d
          wire,       \* external: uploads the server has yet to handle
          handed,     \* external: bundles peers hold and have not used yet
          job,        \* the call that is under way, if any
          me,         \* the device the application knows it is, or None
          refreshed,  \* refreshed[i]: what the last update_pre_key_bundle said
          round,      \* calls so far
          failures, fetches

keyVars == <<store, bundle, wire, handed, job, me, refreshed, round, failures, fetches>>

Idle == [pc |-> "idle", round |-> 0]
Devices == {0} \cup Links   \* 0: the device that registered the account

-----------------------------------------------------------------------------
(* The store *)

SaveKey(keys, k) == {x \in keys : x.id # k.id} \cup {k}

\* External: one save of a PreKeysStore, with the effect it has on the next ids.
Save(s, save) ==
    CASE save.slot = "ec" ->
           [s EXCEPT !.ec = SaveKey(@, save.key), !.next.ec = save.key.id + 1]
      [] save.slot = "pq" ->
           [s EXCEPT !.pq = SaveKey(@, save.key), !.next.pq = save.key.id + 1]
      [] save.slot = "signed" ->
           [s EXCEPT !.signed = Append(@, save.key), !.next.signed = save.key.id + 1]
      [] save.slot = "last" ->
           [s EXCEPT !.pq = SaveKey(@, save.key), !.last = Append(@, save.key),
                     !.next.pq = save.key.id + 1]

SignedPreKey(s) == IF s.signed = <<>> THEN None ELSE Last(s.signed)
LastResort(s) == IF s.last = <<>> THEN None ELSE Head(s.last)

\* What a store must hold for a message that used key set k to be decrypted.
Holds(s, k) == /\ k.ec \subseteq s.ec
               /\ k.pq \subseteq s.pq
               /\ k.signed \in Range(s.signed)
               /\ k.last # None => k.last \in s.pq

-----------------------------------------------------------------------------
(* replenish_pre_keys *)

\* Mutant: the ids of a batch start over.
PreKeyIdAgain(offset, n) == n + 1
PreKeyId(offset, n) == ((offset + n) % (MediumMax - 1)) + 1

\* The saves of one call in their order: one-time keys, Kyber keys, the signed
\* key under the id the store named, and the last resort key.
Saves(s, use_last_resort_key, count, r) ==
    LET oneTime(slot) == [n \in 1..count |->
            [slot |-> slot, key |-> [id |-> PreKeyId(s.next[slot], n - 1), round |-> r]]]
    IN oneTime("ec") \o oneTime("pq")
       \o << [slot |-> "signed", key |-> [id |-> s.next.signed, round |-> r]] >>
       \o IF use_last_resort_key
          THEN << [slot |-> "last", key |-> [id |-> PreKeyId(s.next.pq, count), round |-> r]] >>
          ELSE <<>>

\* The assertion on the id of the last resort key.
Panics(s, use_last_resort_key, count) ==
    /\ use_last_resort_key /\ count > 0
    /\ PreKeyId(s.next.pq, count - 1) + 1 # PreKeyId(s.next.pq, count)

Saved(s, saves, n) ==
    LET after[m \in 0..n] == IF m = 0 THEN s ELSE Save(after[m - 1], saves[m])
    IN  after[n]

Made(saves, slot) == {save.key : save \in {x \in Range(saves) : x.slot = slot}}
One(keys) == IF keys = {} THEN None ELSE CHOOSE k \in keys : TRUE

\* Mutant: the newest last resort key is uploaded.
PublishedNewest(s, saves) ==
    [ec |-> Made(saves, "ec"), pq |-> Made(saves, "pq"),
     signed |-> One(Made(saves, "signed")),
     last |-> IF s.last # <<>> THEN Last(s.last) ELSE One(Made(saves, "last"))]

\* The PreKeyState update_pre_key_bundle uploads: the first last resort key
\* the store already had goes before a new one.
Published(s, saves) ==
    [ec |-> Made(saves, "ec"), pq |-> Made(saves, "pq"),
     signed |-> One(Made(saves, "signed")),
     last |-> IF s.last # <<>> THEN Head(s.last) ELSE One(Made(saves, "last"))]

\* The DeviceActivationRequest of a link or a registration: always new keys.
Activated(s, saves) ==
    [ec |-> {}, pq |-> {}, signed |-> One(Made(saves, "signed")),
     last |-> One(Made(saves, "last"))]

-----------------------------------------------------------------------------
(* update_pre_key_bundle *)

Fail == /\ failures < MaxFailures
        /\ failures' = failures + 1
        /\ job' = Idle

\* Mutant: one key less will do.
EnoughAlmost(b) == Cardinality(b.ec) + 1 >= Minimum /\ Cardinality(b.pq) + 1 >= Minimum
Enough(b) == Cardinality(b.ec) >= Minimum /\ Cardinality(b.pq) >= Minimum

\* check_pre_keys: the digest over the repeated-use keys, compared by the server.
Same(s, b) == b.signed = SignedPreKey(s) /\ b.last = LastResort(s)

\* The application calls again and again; a call that would find all in order,
\* as the last one did, is left out.
Pending(i) == ~(refreshed[i] = "sufficient" /\ Same(store[i], bundle[me][i])
                                            /\ Enough(bundle[me][i]))

StartRefresh(i, use_last_resort_key) ==
    /\ job.pc = "idle" /\ me # None /\ Pending(i)
    /\ round' = round + 1
    /\ job' = [pc |-> "status", kind |-> "refresh", dev |-> me, left |-> <<i>>,
               use |-> use_last_resort_key, count |-> Batch, round |-> round + 1,
               enough |-> FALSE, keys |-> [x \in {} |-> None]]
    /\ UNCHANGED <<store, bundle, wire, handed, me, refreshed, failures, fetches>>

\* get_pre_key_status; an Unauthorized counts as no keys at all.
Status ==
    LET i == Head(job.left) IN
    /\ job.pc = "status"
    /\ \/ /\ job' = [job EXCEPT !.pc = "check", !.enough = Enough(bundle[job.dev][i])]
          /\ UNCHANGED <<refreshed, failures>>
       \/ /\ failures < MaxFailures /\ failures' = failures + 1
          /\ job' = [job EXCEPT !.pc = "check"]
          /\ refreshed' = [refreshed EXCEPT ![i] = "unknown"]
       \/ Fail /\ UNCHANGED refreshed
    /\ UNCHANGED <<store, bundle, wire, handed, me, round, fetches>>

Check ==
    LET i == Head(job.left)
        s == store[i]
        known == SignedPreKey(s) # None /\ LastResort(s) # None
        current == known /\ Same(s, bundle[job.dev][i]) IN
    /\ job.pc = "check"
    /\ \/ /\ current /\ job.enough
          /\ job' = Idle
          /\ refreshed' = [refreshed EXCEPT ![i] = "sufficient"]
          /\ UNCHANGED failures
       \/ /\ ~(current /\ job.enough)
          /\ job' = [job EXCEPT !.pc = "replenish"]
          /\ UNCHANGED <<refreshed, failures>>
       \/ known /\ Fail /\ UNCHANGED refreshed
    /\ UNCHANGED <<store, bundle, wire, handed, me, round, fetches>>

WantsLastResort(s) == job.use /\ (job.kind = "refresh" => s.last = <<>>)

\* One replenish_pre_keys and what its caller makes of the keys; a store
\* error, a crash or the assertion may come after any save.
Replenish ==
    LET i == Head(job.left)
        s == store[i]
        last == WantsLastResort(s)
        saves == Saves(s, last, job.count, job.round)
        panics == Panics(s, last, job.count)
        keys == IF job.kind = "refresh" THEN Published(s, saves) ELSE Activated(s, saves) IN
    /\ job.pc = "replenish"
    /\ \/ /\ ~panics
          /\ store' = [store EXCEPT ![i] = Saved(s, saves, Len(saves))]
          /\ job' = [job EXCEPT !.left = Tail(@),
                                !.pc = IF Len(job.left) = 1 THEN "upload" ELSE "replenish",
                                !.keys = [x \in DOMAIN @ \cup {i} |-> IF x = i THEN keys ELSE @[x]]]
          /\ UNCHANGED failures
       \/ /\ panics
          /\ store' = [store EXCEPT ![i] = Saved(s, saves, Len(saves) - 1)]
          /\ job' = Idle
          /\ UNCHANGED failures
       \/ \E n \in 0..Len(saves) - 1 :
             /\ store' = [store EXCEPT ![i] = Saved(s, saves, n)]
             /\ Fail
    /\ UNCHANGED <<bundle, wire, handed, me, refreshed, round, fetches>>

Send(request) == /\ wire' = wire \cup {request}
                 /\ job' = [job EXCEPT !.pc = "answer"]

Request(code) == [kind |-> job.kind, dev |-> job.dev, round |-> job.round,
                  keys |-> job.keys, code |-> code]

\* register_pre_keys
Upload ==
    /\ job.pc = "upload" /\ job.kind = "refresh"
    /\ Send(Request(None))
    /\ UNCHANGED <<store, bundle, handed, me, refreshed, round, failures, fetches>>

\* External: what the server makes of an upload.  One-time keys replace those
\* it had, a last resort key stays when none is sent.
Register(b, keys) ==
    [i \in Identities |->
        IF i \notin DOMAIN keys THEN b[i]
        ELSE IF keys[i].last = None THEN [keys[i] EXCEPT !.last = b[i].last] ELSE keys[i]]

Awaited(request) == job.pc = "answer" /\ job.round = request.round

\* The caller stops waiting: the request may still be on its way, or was
\* handled and its answer was lost.
GiveUp ==
    /\ job.pc = "answer"
    /\ job' = Idle
    /\ IF \E r \in wire : Awaited(r)
       THEN failures < MaxFailures /\ failures' = failures + 1
       ELSE UNCHANGED failures
    /\ UNCHANGED <<store, bundle, wire, handed, me, refreshed, round, fetches>>

ServeUpload(request) ==
    LET i == CHOOSE x \in DOMAIN request.keys : TRUE
        told == Awaited(request) IN
    /\ request \in wire /\ request.kind = "refresh"
    /\ wire' = wire \ {request}
    /\ bundle' = [bundle EXCEPT ![request.dev] = Register(@, request.keys)]
    /\ \/ /\ told
          /\ job' = Idle
          /\ refreshed' = [refreshed EXCEPT ![i] = "uploaded"]
          /\ UNCHANGED failures
       \/ /\ refreshed' = [refreshed EXCEPT ![i] = "unknown"]
          /\ UNCHANGED job
          /\ IF told THEN failures < MaxFailures /\ failures' = failures + 1
                     ELSE UNCHANGED failures
    /\ UNCHANGED <<store, handed, me, round, fetches>>

LoseRequest(request) ==
    /\ request \in wire
    /\ failures < MaxFailures /\ failures' = failures + 1
    /\ wire' = wire \ {request}
    /\ UNCHANGED <<store, bundle, handed, job, me, refreshed, round, fetches>>

-----------------------------------------------------------------------------
(* Peers *)

\* External: a peer asks for the bundle of a device; one-time keys are handed
\* out once, the last resort key when no other is left.
First(keys) == IF keys = {} THEN {} ELSE {CHOOSE k \in keys : \A x \in keys : k.id <= x.id}

Fetch(d, i) ==
    LET b == bundle[d][i] IN
    /\ b # None /\ fetches < MaxFetches
    /\ fetches' = fetches + 1
    /\ handed' = handed \cup
          {[dev |-> d, identity |-> i, n |-> fetches,
            keys |-> [ec |-> First(b.ec), pq |-> First(b.pq), signed |-> b.signed,
                      last |-> IF b.pq = {} THEN b.last ELSE None]]}
    /\ bundle' = [bundle EXCEPT ![d][i].ec = @ \ First(b.ec), ![d][i].pq = @ \ First(b.pq)]
    /\ refreshed' = IF d = me THEN [refreshed EXCEPT ![i] = "unknown"] ELSE refreshed
    /\ UNCHANGED <<store, wire, job, me, round, failures>>

\* The first message of a session opened from h arrives: libsignal removes the
\* one-time keys it used.
Receive(h) ==
    LET s == store[h.identity] IN
    /\ h \in handed /\ h.dev = me
    /\ handed' = handed \ {h}
    /\ store' = [store EXCEPT ![h.identity].ec = @ \ h.keys.ec,
                              ![h.identity].pq = @ \ h.keys.pq]
    /\ UNCHANGED <<bundle, wire, job, me, refreshed, round, failures, fetches>>

-----------------------------------------------------------------------------
(* The specification of a device that is already registered *)

EmptyStore(n) == [ec |-> {}, pq |-> {}, signed |-> <<>>, last |-> <<>>,
                  next |-> [ec |-> n, pq |-> n, signed |-> 1]]

\* A device of before there were Kyber keys: one signed key, known to the server.
LegacyKey == [id |-> 1, round |-> 0]
LegacyStore(n) == [EmptyStore(n) EXCEPT !.signed = <<LegacyKey>>, !.next.signed = 2]
LegacyBundle == [ec |-> {}, pq |-> {}, signed |-> LegacyKey, last |-> None]

KeysIdle == /\ wire = {} /\ handed = {} /\ job = Idle
            /\ refreshed = [i \in Identities |-> "unknown"]
            /\ round = 0 /\ failures = 0 /\ fetches = 0

=============================================================================
