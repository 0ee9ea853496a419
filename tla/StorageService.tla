--------------------------- MODULE StorageService ---------------------------
(***************************************************************************)
(* StorageService (src/src/storage_service.rs): the devices of an account  *)
(* share encrypted records through a server that only knows a manifest's   *)
(* version.  Each device reads the manifest, reads the items it lists,     *)
(* edits a record (a fresh identifier in, the old one out) and writes a    *)
(* manifest one version on; what it writes may be refused, applied without *)
(* the answer getting through, or arrive late.                             *)
(*                                                                         *)
(* The caller is external and does what the module's documentation asks:   *)
(* sync first, carry record_ikm and the other identifiers forward, and     *)
(* after a Conflict sync again and rebuild the write.                      *)
(***************************************************************************)
EXTENDS Naturals, FiniteSets

CONSTANTS Devices,     \* each has one edit to make
          Records,
          None,
          Ikms,        \* the record_ikm the account may have; "" is legacy
          MaxFailures  \* bound on requests that fail

ASSUME StorageAssumption == None \notin Devices

VARIABLES server,   \* external: [manifest, items]
          wire,     \* external: writes the server has yet to handle
          dev,      \* dev[d]: what device d holds
          failures

vars == <<server, wire, dev, failures>>

-----------------------------------------------------------------------------
(* Manifests and items, encrypted *)

\* A ManifestRecord: the identifier each record lives under, and the key
\* material its items were encrypted with.
ManifestRecord(version, ids, ikm) == [version |-> version, ids |-> ids, ikm |-> ikm]

\* manifest_key(version), item_key(raw_id, record_ikm): keys by what they are
\* derived from.
ManifestKey(version) == [of |-> "Manifest", version |-> version]
ItemKey(id, ikm) == [of |-> "Item", id |-> id, ikm |-> ikm]

EncryptManifest(rec) ==
    [version |-> rec.version, value |-> [key |-> ManifestKey(rec.version), plain |-> rec]]
Decrypts(key, blob) == blob.key = key
ReadableManifest(m) == Decrypts(ManifestKey(m.version), m.value)

\* Mutant: an item is encrypted with its legacy key.
EncryptItemLegacy(id, value, ikm) == [key |-> ItemKey(id, ""), plain |-> value]
EncryptItem(id, value, ikm) == [key |-> ItemKey(id, ikm), plain |-> value]

\* External: an item as another client wrote it, by the documented derivation.
ForeignItem(id, value, ikm) == [key |-> [of |-> "Item", id |-> id, ikm |-> ikm], plain |-> value]

\* write_operation: the manifest, the items to insert, encrypted with the key
\* material of that manifest, and the identifiers to delete.
WriteOperation(rec, id, value, old) ==
    [manifest |-> EncryptManifest(rec), id |-> id,
     item |-> EncryptItem(id, value, rec.ikm), delete |-> old]

-----------------------------------------------------------------------------

\* An identifier is fresh: the writer and the number of its write.
FirstId(r) == <<None, r>>

\* A device that has nothing yet: the version of no manifest is 0.
Fresh == [pc |-> "auth", version |-> 0, ids |-> [r \in Records |-> None], ikm |-> "",
          known |-> [r \in Records |-> {}], writes |-> 0, acked |-> FALSE]

Init ==
    /\ \E ikm \in Ikms :
         LET rec == ManifestRecord(1, [r \in Records |-> FirstId(r)], ikm)
         IN  server = [manifest |-> EncryptManifest(rec),
                       items |-> [i \in {FirstId(r) : r \in Records} |->
                                    ForeignItem(i, {}, ikm)]]
    /\ wire = {}
    /\ dev = [d \in Devices |-> Fresh]
    /\ failures = 0

Set(d, f) == dev' = [dev EXCEPT ![d] = f]
Unsent == UNCHANGED <<server, wire, failures>>

\* StorageService::new
Authenticate(d) ==
    /\ dev[d].pc = "auth"
    /\ Set(d, [dev[d] EXCEPT !.pc = "sync"])
    /\ Unsent

Current == server.manifest.version

Unchanged204(version) == Current = version

\* manifest_if_changed (or manifest, the first time): 204 if the server has the
\* version the device names.
NotChanged(d) ==
    /\ dev[d].pc = "sync"
    /\ Unchanged204(dev[d].version)
    /\ Set(d, [dev[d] EXCEPT !.pc = "edit"])
    /\ Unsent

\* Mutant: the records are not read.
FetchManifestOnly(d) ==
    /\ dev[d].pc = "sync"
    /\ ~Unchanged204(dev[d].version)
    /\ LET rec == server.manifest.value.plain
       IN  Set(d, [dev[d] EXCEPT !.pc = "edit", !.version = rec.version,
                                 !.ids = rec.ids, !.ikm = rec.ikm])
    /\ Unsent

FetchManifest(d) ==
    /\ dev[d].pc = "sync"
    /\ ~Unchanged204(dev[d].version)
    /\ ReadableManifest(server.manifest)
    /\ LET rec == server.manifest.value.plain
       IN  Set(d, [dev[d] EXCEPT !.pc = "read", !.version = rec.version,
                                 !.ids = rec.ids, !.ikm = rec.ikm])
    /\ Unsent

\* read_items, for all identifiers of the manifest: the server leaves out what
\* it no longer has; an item that does not decrypt fails the whole read.
Held(d) == {r \in Records : dev[d].ids[r] \in DOMAIN server.items}
Readable(d, r) == Decrypts(ItemKey(dev[d].ids[r], dev[d].ikm), server.items[dev[d].ids[r]])

ReadItems(d) ==
    /\ dev[d].pc = "read"
    /\ \A r \in Held(d) : Readable(d, r)
    /\ Set(d, [dev[d] EXCEPT
                 !.pc = IF Held(d) = Records THEN "edit" ELSE "sync",
                 !.version = IF Held(d) = Records THEN @ ELSE 0,
                 !.known = [r \in Records |->
                              IF r \in Held(d) THEN server.items[dev[d].ids[r]].plain ELSE {}]])
    /\ Unsent

\* External, the caller: the manifest read, one version on, with the record's
\* new identifier and everything else carried forward.
NextManifest(d, r, id) ==
    ManifestRecord(dev[d].version + 1, [dev[d].ids EXCEPT ![r] = id], dev[d].ikm)

\* Mutant: a write is repeated without a look at what was read.
WriteItemsAgain(d, r) ==
    /\ dev[d].pc = "edit"
    /\ LET id == <<d, dev[d].writes + 1>>
       IN  wire' = wire \cup {[by |-> d, n |-> dev[d].writes + 1, record |-> r,
                               op |-> WriteOperation(NextManifest(d, r, id), id,
                                                     dev[d].known[r] \cup {d}, dev[d].ids[r])]}
    /\ Set(d, [dev[d] EXCEPT !.pc = "written", !.writes = @ + 1])
    /\ UNCHANGED <<server, failures>>

\* write_items: the caller adds its edit to a record.
WriteItems(d, r) ==
    /\ dev[d].pc = "edit"
    /\ d \notin UNION {dev[d].known[s] : s \in Records}
    /\ LET id == <<d, dev[d].writes + 1>>
       IN  wire' = wire \cup {[by |-> d, n |-> dev[d].writes + 1, record |-> r,
                               op |-> WriteOperation(NextManifest(d, r, id), id,
                                                     dev[d].known[r] \cup {d}, dev[d].ids[r])]}
    /\ Set(d, [dev[d] EXCEPT !.pc = "written", !.writes = @ + 1])
    /\ UNCHANGED <<server, failures>>

\* The device finds its edit in place, though no answer said so.
AlreadyThere(d) ==
    /\ dev[d].pc = "edit"
    /\ d \in UNION {dev[d].known[s] : s \in Records}
    /\ Set(d, [dev[d] EXCEPT !.pc = "done"])
    /\ Unsent

\* External: the server handles a write, all of it or nothing.  An answer is
\* given if the device still waits for it.
Waits(w) == dev[w.by].pc = "written" /\ dev[w.by].writes = w.n
Apply(w) == server' = [manifest |-> w.op.manifest,
                       items |-> [i \in (DOMAIN server.items \ {w.op.delete}) \cup {w.op.id} |->
                                    IF i = w.op.id THEN w.op.item ELSE server.items[i]]]

\* 200: Ok(()).
Accepted(w) ==
    /\ w.op.manifest.version = Current + 1
    /\ Apply(w)
    /\ wire' = wire \ {w}
    /\ dev' = IF Waits(w) THEN [dev EXCEPT ![w.by].pc = "done", ![w.by].acked = TRUE] ELSE dev
    /\ UNCHANGED failures

\* Mutants: the status is not looked at; the caller is not told.
RefusedUnseen(w) ==
    /\ w.op.manifest.version # Current + 1
    /\ wire' = wire \ {w}
    /\ dev' = IF Waits(w) THEN [dev EXCEPT ![w.by].pc = "done", ![w.by].acked = TRUE] ELSE dev
    /\ UNCHANGED <<server, failures>>

RefusedUnreported(w) ==
    /\ w.op.manifest.version # Current + 1
    /\ wire' = wire \ {w}
    /\ UNCHANGED <<server, dev, failures>>

\* 409: Conflict, "the attempted write is dead".
Refused(w) ==
    /\ w.op.manifest.version # Current + 1
    /\ wire' = wire \ {w}
    /\ dev' = IF Waits(w) THEN [dev EXCEPT ![w.by].pc = "conflict"] ELSE dev
    /\ UNCHANGED <<server, failures>>

\* External, the caller: "re-sync, merge, and rebuild the write from the result".
Resync(d) ==
    /\ dev[d].pc = "conflict"
    /\ Set(d, [dev[d] EXCEPT !.pc = "sync"])
    /\ Unsent

\* Any request fails, or its answer is lost: StorageServiceError::Service, and the
\* caller starts over.  A write stays on its way.
Fails(d) ==
    /\ dev[d].pc \in {"auth", "sync", "read", "written"}
    /\ failures < MaxFailures
    /\ failures' = failures + 1
    /\ Set(d, [dev[d] EXCEPT !.pc = IF @ = "auth" THEN "auth" ELSE "sync",
                             !.version = IF dev[d].pc = "read" THEN 0 ELSE @])
    /\ UNCHANGED <<server, wire>>

\* External: a write is lost on its way.
WriteLost(w) ==
    /\ ~Waits(w)
    /\ wire' = wire \ {w}
    /\ UNCHANGED <<server, dev, failures>>

DeviceStep(d) ==
    \/ Authenticate(d)
    \/ NotChanged(d)
    \/ FetchManifest(d)
    \/ ReadItems(d)
    \/ \E r \in Records : WriteItems(d, r)
    \/ AlreadyThere(d)
    \/ Resync(d)

ServerStep(w) == Accepted(w) \/ Refused(w)

Terminated ==
    /\ \A d \in Devices : dev[d].pc = "done"
    /\ wire = {}
    /\ UNCHANGED vars

Next ==
    \/ \E d \in Devices : DeviceStep(d) \/ Fails(d)
    \/ \E w \in wire : ServerStep(w) \/ WriteLost(w)
    \/ Terminated

Spec == Init /\ [][Next]_vars

\* A device goes on, and a write it waits for is handled: requests are answered
\* or fail, and only so many fail.
Fairness ==
    /\ \A d \in Devices : WF_vars(DeviceStep(d))
    /\ WF_vars(\E w \in wire : Waits(w) /\ ServerStep(w))

FairSpec == Spec /\ Fairness

-----------------------------------------------------------------------------
(* Properties *)

TypeOK ==
    /\ Current \in Nat
    /\ failures \in 0 .. MaxFailures
    /\ \A d \in Devices :
          /\ dev[d].pc \in {"auth", "sync", "read", "edit", "written", "conflict", "done"}
          /\ dev[d].version \in 0 .. Current
          /\ dev[d].known \in [Records -> SUBSET Devices]

\* The manifest decrypts, every identifier it lists has an item, nothing else
\* has, and each item decrypts with the key material the manifest names: what
\* write_items keeps together "cannot disagree".
IndexComplete ==
    LET rec == server.manifest.value.plain IN
    /\ ReadableManifest(server.manifest)
    /\ DOMAIN server.items = {rec.ids[r] : r \in Records}
    /\ \A r \in Records :
          Decrypts(ItemKey(rec.ids[r], rec.ikm), server.items[rec.ids[r]])

\* What any device that syncs now would read.
View == [r \in Records |->
           LET id == server.manifest.value.plain.ids[r]
           IN  IF id \in DOMAIN server.items THEN server.items[id].plain ELSE {}]

\* An edit whose write returned Ok is there from then on, and no edit is made
\* twice, also when the answer was lost and the device has to try again.
AckedIsKept ==
    \A d \in Devices :
        LET edited == {r \in Records : d \in View[r]} IN
        /\ dev[d].acked => edited # {}
        /\ Cardinality(edited) <= 1

\* The devices' encrypted, versioned read-modify-write implements shared records
\* with atomic edits: no interleaving of their requests loses one.
Shared == INSTANCE SharedRecords WITH content <- View, Edits <- Devices
EditsAreAtomic == Shared!SharedSpec

\* Every device's edit is in place in the end: each conflict is due to another
\* device's progress.
EveryEditLands == \A d \in Devices : <>[](\E r \in Records : d \in View[r])
=============================================================================
