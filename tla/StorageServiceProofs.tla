------------------------ MODULE StorageServiceProofs ------------------------
(***************************************************************************)
(* Proofs about StorageService, for any devices, records and key material: *)
(* the manifest and the items never disagree, an acknowledged edit is      *)
(* kept, and the devices' read-modify-write implements SharedRecords.      *)
(***************************************************************************)
EXTENDS StorageService, FiniteSetTheorems, TLAPS

-----------------------------------------------------------------------------
(* The inductive invariant *)

\* The ManifestRecord the server has, in the clear.
Index == server.manifest.value.plain

Identifiers == {FirstId(r) : r \in Records} \cup (Devices \X Nat)
ManifestRecords == [version : Nat, ids : [Records -> Identifiers], ikm : Ikms]

Device == [pc : {"auth", "sync", "read", "edit", "written", "conflict", "done"},
           version : Nat, ids : [Records -> Identifiers \cup {None}], ikm : Ikms \cup {""},
           known : [Records -> SUBSET Devices], writes : Nat, acked : BOOLEAN]

\* The index lists each item once, and lists all there are.
ServerOK ==
    /\ Index \in ManifestRecords
    /\ Index.version # 0
    /\ server.manifest = EncryptManifest(Index)
    /\ \A r, s \in Records : Index.ids[r] = Index.ids[s] => r = s
    /\ DOMAIN server.items = {Index.ids[r] : r \in Records}
    /\ \A r \in Records : /\ server.items[Index.ids[r]].key = ItemKey(Index.ids[r], Index.ikm)
                          /\ server.items[Index.ids[r]].plain \in SUBSET Devices

\* What a device holds is what the server had at the version the device names.
Knows(x) ==
    /\ x.version <= Current
    /\ x.version = Current =>
          /\ x.ids = Index.ids /\ x.ikm = Index.ikm
          /\ x.pc # "read" => x.known = View
DevicesOK ==
    /\ dev \in [Devices -> Device]
    /\ \A d \in Devices : Knows(dev[d])

\* Identifiers are numbered by the writes of their device.
IdsIssued ==
    \A d \in Devices, r \in Records :
        Index.ids[r][1] = d => Index.ids[r][2] <= dev[d].writes

\* The write of an edit that leads on from what the server has now.
Fits(w) ==
    /\ w.op.manifest = EncryptManifest(
          ManifestRecord(Current + 1, [Index.ids EXCEPT ![w.record] = w.op.id], Index.ikm))
    /\ w.op.item = EncryptItem(w.op.id, View[w.record] \cup {w.by}, Index.ikm)
    /\ w.op.delete = Index.ids[w.record]
    /\ \A s \in Records : w.by \notin View[s]

WriteOK(w) ==
    /\ w.by \in Devices /\ w.n \in Nat /\ w.record \in Records
    /\ w.n <= dev[w.by].writes
    /\ w.op.id = <<w.by, w.n>>
    /\ \A r \in Records : Index.ids[r] # w.op.id
    /\ w.op.manifest.version \in Nat
    /\ w.op.manifest.version <= Current + 1
    /\ w.op.manifest.version = Current + 1 => Fits(w)

\* A write is right for the version it was made for, and none is sent twice.
WiresOK ==
    /\ \A w \in wire : WriteOK(w)
    /\ \A v, w \in wire : v.by = w.by /\ v.n = w.n => v = w

\* An acknowledged edit is there; no edit is there twice.
EditsOK ==
    /\ \A d \in Devices : dev[d].acked => \E r \in Records : d \in View[r]
    /\ \A d \in Devices, r, s \in Records : d \in View[r] /\ d \in View[s] => r = s

Inv == ServerOK /\ DevicesOK /\ IdsIssued /\ WiresOK /\ EditsOK

-----------------------------------------------------------------------------
(* What the server has *)

\* What a sync would read of a record is its item, decrypted.
LEMMA ViewIsItems ==
    ASSUME ServerOK, NEW r \in Records
    PROVE  View[r] = server.items[Index.ids[r]].plain
BY DEF ServerOK, View, Index

\* The version the server goes by is the one in the manifest.
LEMMA CurrentIsIndexed ==
    ASSUME ServerOK
    PROVE  Current = Index.version /\ Current \in Nat \ {0}
BY DEF ServerOK, Current, EncryptManifest, ManifestRecords

\* The records of an account's storage as a function.
LEMMA ViewType ==
    ASSUME ServerOK
    PROVE  View \in [Records -> SUBSET Devices]
<1>1. \A r \in Records : View[r] \in SUBSET Devices
  BY ViewIsItems DEF ServerOK
<1> QED BY <1>1 DEF View

\* Init satisfies the invariant: the items other clients have written, and
\* devices that hold nothing.
LEMMA InitInv == Init => Inv
<1> SUFFICES ASSUME Init PROVE Inv
  OBVIOUS
<1>1. PICK ikm \in Ikms :
        server = [manifest |-> EncryptManifest(ManifestRecord(1, [r \in Records |-> FirstId(r)], ikm)),
                  items |-> [i \in {FirstId(r) : r \in Records} |-> ForeignItem(i, {}, ikm)]]
  BY DEF Init
<1>2. Index = [version |-> 1, ids |-> [r \in Records |-> FirstId(r)], ikm |-> ikm]
  BY <1>1 DEF Index, EncryptManifest, ManifestRecord
<1>3. ServerOK
  <2>1. Index \in ManifestRecords
    BY <1>2 DEF ManifestRecords, Identifiers
  <2>2. server.manifest = EncryptManifest(Index)
    BY <1>1, <1>2 DEF ManifestRecord
  <2>3. \A r, s \in Records : Index.ids[r] = Index.ids[s] => r = s
    BY <1>2 DEF FirstId
  <2>4. DOMAIN server.items = {Index.ids[r] : r \in Records}
    BY <1>1, <1>2
  <2>5. \A r \in Records : server.items[Index.ids[r]] = ForeignItem(Index.ids[r], {}, ikm)
    BY <1>1, <1>2
  <2>6. \A r \in Records :
          /\ server.items[Index.ids[r]].key = ItemKey(Index.ids[r], Index.ikm)
          /\ server.items[Index.ids[r]].plain \in SUBSET Devices
    <3> TAKE r \in Records
    <3>1. server.items[Index.ids[r]] = ForeignItem(Index.ids[r], {}, ikm) /\ Index.ikm = ikm
      BY <1>2, <2>5
    <3> HIDE <1>2, <2>5
    <3> QED BY <3>1 DEF ForeignItem, ItemKey
  <2>7. Index.version # 0
    BY <1>2
  <2> QED BY <2>1, <2>2, <2>3, <2>4, <2>6, <2>7 DEF ServerOK
<1>4. \A r \in Records : View[r] = {}
  <2>1. \A r \in Records : server.items[Index.ids[r]] = ForeignItem(Index.ids[r], {}, ikm)
    BY <1>1, <1>2
  <2>2. \A r \in Records : server.items[Index.ids[r]].plain = {}
    <3> TAKE r \in Records
    <3>1. server.items[Index.ids[r]] = [key |-> [of |-> "Item", id |-> Index.ids[r], ikm |-> ikm],
                                        plain |-> {}]
      BY <2>1 DEF ForeignItem
    <3> QED BY <3>1
  <2> QED BY <1>3, <2>2, ViewIsItems
<1>5. DevicesOK
  <2>1. Fresh \in Device
    BY DEF Fresh, Device
  <2>2. \A d \in Devices : dev[d] = Fresh
    BY DEF Init
  <2>3. Fresh.version = 0
    BY DEF Fresh
  <2>4. Knows(Fresh)
    BY <1>3, <2>3, CurrentIsIndexed DEF Knows
  <2> QED BY <2>1, <2>2, <2>4 DEF DevicesOK, Init
<1>6. IdsIssued
  BY <1>2, StorageAssumption DEF IdsIssued, FirstId
<1> QED BY <1>3, <1>4, <1>5, <1>6 DEF Inv, WiresOK, EditsOK, Init, Fresh

-----------------------------------------------------------------------------
(* The steps *)

\* A step of a device that writes nothing, and is acknowledged nothing, keeps
\* the invariant if what it then holds is what the server has.
LEMMA DeviceKeepsInv ==
    ASSUME Inv, NEW d \in Devices, NEW x \in Device, Set(d, x), Knows(x),
           x.writes = dev[d].writes, x.acked = dev[d].acked,
           UNCHANGED server, wire' \subseteq wire
    PROVE  Inv'
<1> USE DEF Inv
<1>1. View' = View /\ Index' = Index /\ Current' = Current
  BY DEF View, Index, Current
<1>2. ServerOK'
  BY DEF ServerOK, Index
<1>3. dev' \in [Devices -> Device] /\ dev'[d] = x /\ \A e \in Devices \ {d} : dev'[e] = dev[e]
  BY DEF Set, DevicesOK
<1>4. DevicesOK'
  BY <1>1, <1>3 DEF DevicesOK, Knows
<1>5. \A e \in Devices : dev'[e].writes = dev[e].writes /\ dev'[e].acked = dev[e].acked
  BY <1>3
<1>6. IdsIssued'
  BY <1>1, <1>5 DEF IdsIssued
<1>7. \A w \in wire' : WriteOK(w)'
  <2> SUFFICES ASSUME NEW w \in wire' PROVE WriteOK(w)'
    OBVIOUS
  <2>1. WriteOK(w)
    BY DEF WiresOK
  <2>2. Fits(w) => Fits(w)'
    BY <1>1 DEF Fits
  <2> QED BY <1>1, <1>5, <2>1, <2>2 DEF WriteOK
<1>8. EditsOK'
  BY <1>1, <1>5 DEF EditsOK
<1> QED BY <1>2, <1>4, <1>6, <1>7, <1>8 DEF WiresOK

\* A failing or finished device keeps the invariant, and what the caller does.
LEMMA QuietSteps ==
    ASSUME Inv, NEW d \in Devices,
           Authenticate(d) \/ NotChanged(d) \/ AlreadyThere(d) \/ Resync(d) \/ Fails(d)
    PROVE  Inv'
<1>1. dev[d] \in Device /\ Knows(dev[d])
  BY DEF Inv, DevicesOK
<1>2. ASSUME NEW pc \in {"sync", "edit", "done"}, dev[d].pc # "read",
             Set(d, [dev[d] EXCEPT !.pc = pc]), UNCHANGED <<server, wire>>
      PROVE  Inv'
  <2> DEFINE x == [dev[d] EXCEPT !.pc = pc]
  <2>1. x \in Device /\ x.pc # "read"
    BY <1>1 DEF Device
  <2>2. /\ x.version = dev[d].version /\ x.ids = dev[d].ids /\ x.ikm = dev[d].ikm
        /\ x.known = dev[d].known /\ x.writes = dev[d].writes /\ x.acked = dev[d].acked
    BY <1>1 DEF Device
  <2>3. Knows(x)
    BY <1>1, <1>2, <2>2 DEF Knows
  <2> HIDE DEF x
  <2> QED BY <1>2, <2>1, <2>2, <2>3, DeviceKeepsInv DEF x
<1>3. CASE Authenticate(d)
  BY <1>2, <1>3 DEF Authenticate, Unsent
<1>4. CASE NotChanged(d)
  BY <1>2, <1>4 DEF NotChanged, Unsent
<1>5. CASE AlreadyThere(d)
  BY <1>2, <1>5 DEF AlreadyThere, Unsent
<1>6. CASE Resync(d)
  BY <1>2, <1>6 DEF Resync, Unsent
<1>7. CASE Fails(d)
  <2> DEFINE x == [dev[d] EXCEPT !.pc = IF @ = "auth" THEN "auth" ELSE "sync",
                                 !.version = IF dev[d].pc = "read" THEN 0 ELSE @]
  <2>1. x \in Device /\ x.pc # "read"
    BY <1>1 DEF Device
  <2>2. /\ x.version = IF dev[d].pc = "read" THEN 0 ELSE dev[d].version
        /\ x.ids = dev[d].ids /\ x.ikm = dev[d].ikm
        /\ x.known = dev[d].known /\ x.writes = dev[d].writes /\ x.acked = dev[d].acked
    BY <1>1 DEF Device
  <2>3. Knows(x)
    BY <1>1, <2>2, CurrentIsIndexed DEF Knows, Inv
  <2>4. Set(d, x) /\ UNCHANGED <<server, wire>>
    BY <1>7 DEF Fails
  <2> HIDE DEF x
  <2> QED BY <2>1, <2>2, <2>3, <2>4, DeviceKeepsInv
<1> QED BY <1>3, <1>4, <1>5, <1>6, <1>7

\* manifest and manifest_if_changed: the index is that of the version read.
LEMMA FetchManifestStep ==
    ASSUME Inv, NEW d \in Devices, FetchManifest(d)
    PROVE  Inv'
<1> DEFINE x == [dev[d] EXCEPT !.pc = "read", !.version = Index.version,
                               !.ids = Index.ids, !.ikm = Index.ikm]
<1>1. dev[d] \in Device /\ Index \in ManifestRecords
  BY DEF Inv, DevicesOK, ServerOK
<1>2. x \in Device
  BY <1>1 DEF Device, ManifestRecords
<1>3. /\ x.pc = "read" /\ x.version = Index.version /\ x.ids = Index.ids /\ x.ikm = Index.ikm
      /\ x.writes = dev[d].writes /\ x.acked = dev[d].acked
  BY <1>1 DEF Device
<1>4. Knows(x)
  BY <1>3, CurrentIsIndexed DEF Knows, Inv
<1>5. Set(d, x) /\ UNCHANGED <<server, wire>>
  BY DEF FetchManifest, Unsent, Index
<1> HIDE DEF x
<1> QED BY <1>2, <1>3, <1>4, <1>5, DeviceKeepsInv

\* read_items: if the index is still the server's, what is read is the view.
LEMMA ReadItemsStep ==
    ASSUME Inv, NEW d \in Devices, ReadItems(d)
    PROVE  Inv'
<1> DEFINE all == Held(d) = Records
           known == [r \in Records |->
                       IF r \in Held(d) THEN server.items[dev[d].ids[r]].plain ELSE {}]
           x == [dev[d] EXCEPT !.pc = IF all THEN "edit" ELSE "sync",
                               !.version = IF all THEN @ ELSE 0,
                               !.known = known]
<1>1. dev[d] \in Device /\ Knows(dev[d]) /\ ServerOK
  BY DEF Inv, DevicesOK
<1>2. \A r \in Held(d) : server.items[dev[d].ids[r]].plain \in SUBSET Devices
  BY <1>1 DEF Held, ServerOK
<1>3. known \in [Records -> SUBSET Devices]
  BY <1>2
<1>4. x \in Device
  BY <1>1, <1>3 DEF Device
<1>5. /\ x.version = IF all THEN dev[d].version ELSE 0
      /\ x.ids = dev[d].ids /\ x.ikm = dev[d].ikm /\ x.known = known
      /\ x.writes = dev[d].writes /\ x.acked = dev[d].acked
  BY <1>1 DEF Device
<1>6. ASSUME dev[d].version = Current, all PROVE known = View
  <2>1. dev[d].ids = Index.ids
    BY <1>1, <1>6 DEF Knows
  <2>2. \A r \in Records : known[r] = View[r]
    BY <1>1, <1>6, <2>1, ViewIsItems
  <2> QED BY <1>1, <1>3, <2>2, ViewType
<1>7. Knows(x)
  <2> HIDE DEF known, x, all
  <2> QED BY <1>1, <1>5, <1>6, CurrentIsIndexed DEF Knows
<1>8. Set(d, x) /\ UNCHANGED <<server, wire>>
  BY DEF ReadItems, Unsent
<1> HIDE DEF x, known, all
<1> QED BY <1>4, <1>5, <1>7, <1>8, DeviceKeepsInv

\* What a device counts.
LEMMA DeviceCounts ==
    ASSUME NEW x \in Device
    PROVE  x.writes \in Nat /\ x.writes + 1 \in Nat /\ x.version \in Nat
<1>1. x.writes \in Nat /\ x.version \in Nat
  BY DEF Device
<1> QED BY <1>1

\* write_items: the identifier is new, and the write leads on from the version
\* the device has read.
LEMMA WriteItemsStep ==
    ASSUME Inv, NEW d \in Devices, NEW r \in Records, WriteItems(d, r)
    PROVE  Inv'
<1> USE DEF Inv
<1>1. dev[d] \in Device /\ Knows(dev[d]) /\ dev[d].pc = "edit"
  BY DEF DevicesOK, WriteItems
<1> DEFINE n == dev[d].writes + 1
           id == <<d, n>>
<1>2. n \in Nat /\ dev[d].writes \in Nat /\ dev[d].version \in Nat
  BY <1>1, DeviceCounts
<1>3. PICK x : x = [dev[d] EXCEPT !.pc = "written", !.writes = n]
  OBVIOUS
<1>4. /\ x \in Device /\ x.pc = "written" /\ x.writes = n /\ x.acked = dev[d].acked
      /\ x.version = dev[d].version /\ x.ids = dev[d].ids /\ x.ikm = dev[d].ikm
      /\ x.known = dev[d].known
  <2> HIDE DEF n
  <2> QED BY <1>1, <1>2, <1>3 DEF Device
<1>5. PICK op : op = WriteOperation(NextManifest(d, r, id), id,
                                    dev[d].known[r] \cup {d}, dev[d].ids[r])
  OBVIOUS
<1>6. PICK w : w = [by |-> d, n |-> n, record |-> r, op |-> op]
  OBVIOUS
<1>7. wire' = wire \cup {w} /\ Set(d, x) /\ UNCHANGED server
  BY <1>5, <1>6, <1>3 DEF WriteItems
<1>8. /\ w.by = d /\ w.n = n /\ w.record = r /\ w.op = op
      /\ op.id = id /\ op.delete = dev[d].ids[r]
      /\ op.manifest = EncryptManifest(NextManifest(d, r, id))
      /\ op.item = EncryptItem(id, dev[d].known[r] \cup {d}, dev[d].ikm)
      /\ op.manifest.version = dev[d].version + 1
  BY <1>5, <1>6 DEF WriteOperation, NextManifest, ManifestRecord, EncryptManifest
<1>9. \A s \in Records : d \notin dev[d].known[s]
  BY DEF WriteItems
<1>10. View' = View /\ Index' = Index /\ Current' = Current
  BY <1>7 DEF View, Index, Current
<1>11. ServerOK'
  BY <1>7 DEF ServerOK, Index
<1>12. dev' \in [Devices -> Device] /\ dev'[d] = x /\ \A e \in Devices \ {d} : dev'[e] = dev[e]
  BY <1>4, <1>7 DEF Set, DevicesOK
<1>13. DevicesOK'
  BY <1>1, <1>4, <1>10, <1>12 DEF DevicesOK, Knows
<1>14. \A e \in Devices : /\ dev'[e].writes \in Nat /\ dev[e].writes \in Nat
                          /\ dev'[e].writes >= dev[e].writes
                          /\ dev'[e].acked = dev[e].acked
  BY <1>4, <1>2, <1>12, DeviceCounts DEF DevicesOK
<1>15. \A s \in Records, e \in Devices : Index.ids[s][1] = e => Index.ids[s][2] \in Nat
  <2>1. \A s \in Records : Index.ids[s] \in Identifiers
    BY DEF ServerOK, ManifestRecords
  <2> QED BY <2>1, StorageAssumption DEF Identifiers, FirstId
<1>16. IdsIssued'
  BY <1>10, <1>14, <1>15 DEF IdsIssued
<1>17. WriteOK(w)'
  <2>1. \A s \in Records : Index.ids[s] # id
    BY <1>2 DEF IdsIssued
  <2>2. Current \in Nat /\ dev[d].version <= Current
    BY <1>1, CurrentIsIndexed DEF Knows
  <2>3. ASSUME dev[d].version = Current PROVE Fits(w)
    <3>1. dev[d].ids = Index.ids /\ dev[d].ikm = Index.ikm /\ dev[d].known = View
      BY <1>1, <2>3 DEF Knows
    <3> QED BY <1>8, <1>9, <2>3, <3>1 DEF Fits, NextManifest
  <2>4. Fits(w) => Fits(w)'
    BY <1>10 DEF Fits
  <2> QED BY <1>4, <1>2, <1>8, <1>10, <1>12, <2>1, <2>2, <2>3, <2>4 DEF WriteOK
<1>18. ASSUME NEW v \in wire PROVE WriteOK(v)' /\ v.n <= dev[v.by].writes /\ v.n \in Nat
  <2>1. WriteOK(v)
    BY DEF WiresOK
  <2>2. Fits(v) => Fits(v)'
    BY <1>10 DEF Fits
  <2> QED BY <1>10, <1>14, <2>1, <2>2 DEF WriteOK
<1>19. WiresOK'
  <2>1. \A v \in wire' : WriteOK(v)'
    BY <1>7, <1>17, <1>18
  <2>2. \A v \in wire : ~(v.by = w.by /\ v.n = w.n)
    BY <1>2, <1>8, <1>18
  <2> QED BY <1>7, <2>1, <2>2 DEF WiresOK
<1>20. EditsOK'
  BY <1>10, <1>14 DEF EditsOK
<1> QED BY <1>11, <1>13, <1>16, <1>19, <1>20

\* What a write that leads on from the server's version makes of the server:
\* one record's item replaced, the index with it, one version on.
LEMMA ApplyFits ==
    ASSUME ServerOK, NEW w, WriteOK(w), Fits(w), Apply(w)
    PROVE  /\ ServerOK'
           /\ Current' = Current + 1
           /\ Index'.ids = [Index.ids EXCEPT ![w.record] = w.op.id]
           /\ View' = [View EXCEPT ![w.record] = @ \cup {w.by}]
<1> DEFINE r == w.record
           id == w.op.id
           ids == [Index.ids EXCEPT ![r] = id]
<1>1. r \in Records /\ id \in Identifiers /\ \A s \in Records : Index.ids[s] # id
  BY DEF WriteOK, Identifiers
<1>2. /\ Index \in ManifestRecords /\ Index.ids \in [Records -> Identifiers]
      /\ \A s, t \in Records : Index.ids[s] = Index.ids[t] => s = t
  BY DEF ServerOK, ManifestRecords
<1>3. Current \in Nat /\ Index.ikm \in Ikms
  BY <1>2, CurrentIsIndexed DEF ManifestRecords
<1>4. server'.manifest = EncryptManifest(ManifestRecord(Current + 1, ids, Index.ikm))
  BY DEF Apply, Fits
<1>5. Index' = [version |-> Current + 1, ids |-> ids, ikm |-> Index.ikm]
  BY <1>4 DEF Index, EncryptManifest, ManifestRecord
<1>6. /\ ids \in [Records -> Identifiers] /\ ids[r] = id
      /\ \A s \in Records : s # r => ids[s] = Index.ids[s]
  BY <1>1, <1>2
<1>7. /\ DOMAIN server'.items = (DOMAIN server.items \ {Index.ids[r]}) \cup {id}
      /\ \A i \in DOMAIN server'.items :
            server'.items[i] = IF i = id THEN w.op.item ELSE server.items[i]
  BY DEF Apply, Fits
<1> HIDE DEF ids
<1>8. DOMAIN server'.items = {ids[s] : s \in Records}
  <2>1. DOMAIN server.items = {Index.ids[s] : s \in Records}
    BY DEF ServerOK
  <2>2. ASSUME NEW i \in DOMAIN server'.items PROVE i \in {ids[s] : s \in Records}
    BY <1>1, <1>6, <1>7, <2>1, <2>2
  <2>3. ASSUME NEW s \in Records PROVE ids[s] \in DOMAIN server'.items
    <3>1. CASE s = r
      BY <1>6, <1>7, <3>1
    <3>2. CASE s # r
      BY <1>1, <1>2, <1>6, <1>7, <2>1, <3>2
    <3> QED BY <3>1, <3>2
  <2> QED BY <2>2, <2>3
<1>9. \A s \in Records : server'.items[ids[s]] =
         IF s = r THEN w.op.item ELSE server.items[Index.ids[s]]
  BY <1>1, <1>6, <1>7, <1>8
<1>10. /\ w.op.item.key = ItemKey(id, Index.ikm)
       /\ w.op.item.plain = View[r] \cup {w.by}
       /\ View[r] \cup {w.by} \in SUBSET Devices
  <2>1. View[r] \in SUBSET Devices /\ w.by \in Devices
    BY <1>1, ViewType DEF WriteOK
  <2>2. w.op.item = EncryptItem(id, View[r] \cup {w.by}, Index.ikm)
    BY DEF Fits
  <2> QED BY <2>1, <2>2 DEF EncryptItem
<1>11. ServerOK'
  <2>1. Index' \in ManifestRecords /\ Index'.version # 0
    BY <1>3, <1>5, <1>6 DEF ManifestRecords
  <2>2. server'.manifest = EncryptManifest(Index')
    BY <1>4, <1>5 DEF ManifestRecord
  <2>3. \A s, t \in Records : ids[s] = ids[t] => s = t
    BY <1>1, <1>2, <1>6
  <2>4. \A s \in Records : /\ server'.items[ids[s]].key = ItemKey(ids[s], Index.ikm)
                           /\ server'.items[ids[s]].plain \in SUBSET Devices
    BY <1>6, <1>9, <1>10 DEF ServerOK
  <2>5. Index'.ids = ids /\ Index'.ikm = Index.ikm
    BY <1>5
  <2>6. EncryptManifest(Index)' = EncryptManifest(Index')
    BY DEF EncryptManifest, ManifestKey
  <2> QED BY <1>8, <2>1, <2>2, <2>3, <2>4, <2>5, <2>6 DEF ServerOK, ItemKey
<1>12. \A s \in Records : View'[s] = IF s = r THEN View[r] \cup {w.by} ELSE View[s]
  <2>1. \A s \in Records : View'[s] = server'.items[ids[s]].plain
    BY <1>5, <1>8 DEF View, Index
  <2>2. \A s \in Records : View[s] = server.items[Index.ids[s]].plain
    BY ViewIsItems
  <2>3. View'[r] = View[r] \cup {w.by}
    BY <1>1, <1>9, <1>10, <2>1
  <2>4. \A s \in Records : s # r => View'[s] = View[s]
    BY <1>9, <2>1, <2>2
  <2> QED BY <2>3, <2>4
<1>13. View' \in [Records -> SUBSET Devices] /\ View \in [Records -> SUBSET Devices]
  <2>1. \A s \in Records : View'[s] \in SUBSET Devices
    BY <1>10, <1>12, ViewType
  <2> QED BY <2>1, ViewType DEF View
<1>14. Current' = Current + 1
  BY <1>4 DEF Current, EncryptManifest, ManifestRecord
<1> QED BY <1>1, <1>5, <1>11, <1>12, <1>13, <1>14 DEF ids

\* 200: the edit is in the view from now on, once; what other devices hold, and
\* the writes on their way, are of an earlier version.
LEMMA AcceptedStep ==
    ASSUME Inv, NEW w \in wire, Accepted(w)
    PROVE  Inv' /\ View' = [View EXCEPT ![w.record] = @ \cup {w.by}]
<1> USE DEF Inv
<1>1. WriteOK(w) /\ Fits(w) /\ w.by \in Devices /\ w.record \in Records
  BY DEF WiresOK, WriteOK, Accepted
<1>2. /\ ServerOK' /\ Current' = Current + 1 /\ Current \in Nat
      /\ Index'.ids = [Index.ids EXCEPT ![w.record] = w.op.id]
      /\ View' = [View EXCEPT ![w.record] = @ \cup {w.by}]
  BY <1>1, ApplyFits, CurrentIsIndexed DEF Accepted
<1>3. /\ \A d \in Devices : /\ dev'[d].version = dev[d].version
                            /\ dev'[d].writes = dev[d].writes
                            /\ d # w.by => dev'[d].acked = dev[d].acked
      /\ dev' \in [Devices -> Device]
  <2>1. CASE Waits(w)
    <3> DEFINE x == [dev[w.by] EXCEPT !.pc = "done", !.acked = TRUE]
    <3>1. dev[w.by] \in Device
      BY <1>1 DEF DevicesOK
    <3>2. x \in Device /\ x.version = dev[w.by].version /\ x.writes = dev[w.by].writes
      BY <3>1 DEF Device
    <3>3. dev' = [dev EXCEPT ![w.by] = x]
      BY <2>1 DEF Accepted
    <3> HIDE DEF x
    <3> QED BY <1>1, <3>2, <3>3 DEF DevicesOK
  <2>2. CASE ~Waits(w)
    BY <2>2 DEF Accepted, DevicesOK
  <2> QED BY <2>1, <2>2
<1>4. DevicesOK'
  <2>1. \A d \in Devices : dev[d].version \in Nat /\ dev[d].version <= Current
    BY DeviceCounts DEF DevicesOK, Knows
  <2> QED BY <1>2, <1>3, <2>1 DEF DevicesOK, Knows
<1>5. Index.ids \in [Records -> Identifiers]
  BY DEF ServerOK, ManifestRecords
<1>6. IdsIssued'
  <2>1. w.op.id[1] = w.by /\ w.op.id[2] <= dev[w.by].writes
    BY <1>1 DEF WriteOK
  <2> QED BY <1>1, <1>2, <1>3, <1>5, <2>1 DEF IdsIssued
<1>7. ASSUME NEW v \in wire' PROVE WriteOK(v)'
  <2>1. v \in wire /\ v # w /\ WriteOK(v)
    BY DEF Accepted, WiresOK
  <2>2. v.op.id # w.op.id
    BY <1>1, <2>1 DEF WiresOK, WriteOK
  <2>3. \A r \in Records : Index'.ids[r] # v.op.id
    BY <1>1, <1>2, <1>5, <2>1, <2>2 DEF WriteOK
  <2>4. v.op.manifest.version \in Nat /\ v.op.manifest.version <= Current'
    BY <1>2, <2>1 DEF WriteOK
  <2> QED BY <1>2, <1>3, <2>1, <2>3, <2>4 DEF WriteOK
<1>8. WiresOK'
  BY <1>7 DEF WiresOK, Accepted
<1>9. EditsOK'
  <2>1. \A r \in Records : View'[r] = IF r = w.record THEN View[r] \cup {w.by} ELSE View[r]
    BY <1>1, <1>2, ViewType
  <2>2. \A r \in Records : w.by \notin View[r]
    BY <1>1 DEF Fits
  <2>3. \A d \in Devices : dev'[d].acked => \E r \in Records : d \in View'[r]
    <3> SUFFICES ASSUME NEW d \in Devices, dev'[d].acked PROVE \E r \in Records : d \in View'[r]
      OBVIOUS
    <3>1. CASE d = w.by
      BY <1>1, <2>1, <3>1
    <3>2. CASE d # w.by
      <4>1. PICK r \in Records : d \in View[r]
        BY <1>3, <3>2 DEF EditsOK
      <4> QED BY <2>1, <4>1
    <3> QED BY <3>1, <3>2
  <2>4. ASSUME NEW d \in Devices, NEW r \in Records, NEW s \in Records,
               d \in View'[r], d \in View'[s]
        PROVE  r = s
    <3>1. CASE d = w.by
      BY <2>1, <2>2, <2>4, <3>1
    <3>2. CASE d # w.by
      <4>1. d \in View[r] /\ d \in View[s]
        BY <2>1, <2>4, <3>2
      <4> QED BY <4>1 DEF EditsOK
    <3> QED BY <3>1, <3>2
  <2> QED BY <2>3, <2>4 DEF EditsOK
<1> QED BY <1>2, <1>4, <1>6, <1>8, <1>9

\* 409, and a write that gets lost: one write fewer.
LEMMA DroppedSteps ==
    ASSUME Inv, NEW w \in wire, Refused(w) \/ WriteLost(w)
    PROVE  Inv'
<1>1. /\ w.by \in Devices /\ dev[w.by] \in Device /\ Knows(dev[w.by])
      /\ dev \in [Devices -> Device]
  BY DEF Inv, WiresOK, WriteOK, DevicesOK
<1>2. UNCHANGED server /\ wire' \subseteq wire
  BY DEF Refused, WriteLost
<1>3. CASE Refused(w) /\ Waits(w)
  <2> DEFINE x == [dev[w.by] EXCEPT !.pc = "conflict"]
  <2>1. x \in Device /\ x.pc # "read"
    BY <1>1 DEF Device
  <2>2. /\ x.version = dev[w.by].version /\ x.ids = dev[w.by].ids /\ x.ikm = dev[w.by].ikm
        /\ x.known = dev[w.by].known /\ x.writes = dev[w.by].writes
        /\ x.acked = dev[w.by].acked
    BY <1>1 DEF Device
  <2>3. Set(w.by, x) /\ dev[w.by].pc # "read"
    BY <1>3 DEF Refused, Set, Waits
  <2>4. Knows(x)
    <3> HIDE DEF x
    <3> QED BY <1>1, <2>1, <2>2, <2>3 DEF Knows
  <2> HIDE DEF x
  <2> QED BY <1>1, <1>2, <2>1, <2>2, <2>3, <2>4, DeviceKeepsInv
<1>4. CASE ~(Refused(w) /\ Waits(w))
  <2>1. Set(w.by, dev[w.by])
    BY <1>1, <1>4 DEF Refused, WriteLost, Set
  <2> QED BY <1>1, <1>2, <2>1, DeviceKeepsInv
<1> QED BY <1>3, <1>4

\* The invariant is inductive.
LEMMA NextInv == Inv /\ [Next]_vars => Inv'
<1> SUFFICES ASSUME Inv, [Next]_vars PROVE Inv'
  OBVIOUS
<1>1. ASSUME NEW d \in Devices, DeviceStep(d) \/ Fails(d) PROVE Inv'
  BY <1>1, QuietSteps, FetchManifestStep, ReadItemsStep, WriteItemsStep DEF DeviceStep
<1>2. ASSUME NEW w \in wire, ServerStep(w) \/ WriteLost(w) PROVE Inv'
  BY <1>2, AcceptedStep, DroppedSteps DEF ServerStep
<1>3. CASE UNCHANGED vars
  <2>1. UNCHANGED <<server, wire, dev>> /\ Index' = Index /\ View' = View /\ Current' = Current
    BY <1>3 DEF vars, Index, View, Current
  <2>2. ServerOK' /\ DevicesOK' /\ IdsIssued' /\ EditsOK'
    BY <2>1 DEF Inv, ServerOK, DevicesOK, Knows, IdsIssued, EditsOK
  <2>3. ASSUME NEW w \in wire PROVE WriteOK(w)'
    <3>1. WriteOK(w)
      BY DEF Inv, WiresOK
    <3>2. Fits(w)' <=> Fits(w)
      BY <2>1 DEF Fits
    <3> QED BY <2>1, <3>1, <3>2 DEF WriteOK
  <2> QED BY <2>1, <2>2, <2>3 DEF Inv, WiresOK
<1> QED BY <1>1, <1>2, <1>3 DEF Next, Terminated

\* In every reachable state.
LEMMA InvHolds == Spec => []Inv
BY InitInv, NextInv, PTL DEF Spec

-----------------------------------------------------------------------------
(* The theorems *)

\* The manifest the server has decrypts, lists exactly the items it has, and
\* each of them decrypts with the key material it names: what write_operation
\* puts in one request "cannot disagree", whatever writes cross.
THEOREM ManifestMatchesItems == Spec => []IndexComplete
<1>1. Inv => IndexComplete
  <2> SUFFICES ASSUME ServerOK PROVE IndexComplete
    BY DEF Inv
  <2>1. ReadableManifest(server.manifest)
    BY DEF ServerOK, ReadableManifest, EncryptManifest, Decrypts
  <2> QED BY <2>1 DEF IndexComplete, ServerOK, Index, Decrypts
<1> QED BY <1>1, InvHolds, PTL

\* An edit whose write_items returned Ok is in the view for good, and no device's
\* edit is made twice, also if its answer was lost and it had to write again.
THEOREM AcknowledgedEditsKept == Spec => []AckedIsKept
<1>1. Inv => AckedIsKept
  <2> SUFFICES ASSUME Inv, NEW d \in Devices
               PROVE  LET edited == {r \in Records : d \in View[r]}
                      IN  (dev[d].acked => edited # {}) /\ Cardinality(edited) <= 1
    BY DEF AckedIsKept
  <2> DEFINE edited == {r \in Records : d \in View[r]}
  <2>1. dev[d].acked => edited # {}
    BY DEF Inv, EditsOK
  <2>2. Cardinality(edited) <= 1
    <3>1. CASE edited = {}
      BY <3>1, FS_EmptySet
    <3>2. CASE edited # {}
      <4>1. PICK r \in edited : TRUE
        BY <3>2
      <4>2. edited = {r}
        BY <4>1 DEF Inv, EditsOK
      <4>3. Cardinality({r}) = 1
        BY FS_Singleton
      <4> QED BY <4>2, <4>3
    <3> QED BY <3>1, <3>2
  <2> QED BY <2>1, <2>2
<1> QED BY <1>1, InvHolds, PTL

\* The devices' encrypted, versioned read-modify-write, with its conflicts, lost
\* answers and late writes, implements records with atomic edits.
THEOREM Refinement == Spec => EditsAreAtomic
<1>1. Init => Shared!SharedInit
  <2> SUFFICES ASSUME Init PROVE Shared!SharedInit
    OBVIOUS
  <2>1. PICK ikm \in Ikms :
        server = [manifest |-> EncryptManifest(ManifestRecord(1, [r \in Records |-> FirstId(r)], ikm)),
                  items |-> [i \in {FirstId(r) : r \in Records} |-> ForeignItem(i, {}, ikm)]]
    BY DEF Init
  <2>2. \A r \in Records : server.manifest.value.plain.ids[r] = FirstId(r)
    BY <2>1 DEF EncryptManifest, ManifestRecord
  <2>3. \A r \in Records : server.items[FirstId(r)] = ForeignItem(FirstId(r), {}, ikm)
    BY <2>1
  <2>4. \A i : ForeignItem(i, {}, ikm).plain = {}
    BY DEF ForeignItem
  <2>5. \A r \in Records : View[r] = {}
    BY <2>2, <2>3, <2>4 DEF View
  <2> QED BY <2>5 DEF Shared!SharedInit, View
<1>2. Inv /\ [Next]_vars => [Shared!SharedNext]_View
  <2> SUFFICES ASSUME Inv, [Next]_vars PROVE [Shared!SharedNext]_View
    OBVIOUS
  <2>1. UNCHANGED server => View' = View
    BY DEF View
  <2>2. ASSUME NEW d \in Devices, DeviceStep(d) \/ Fails(d) PROVE UNCHANGED server
    BY <2>2 DEF DeviceStep, Authenticate, NotChanged, FetchManifest, ReadItems, WriteItems,
                AlreadyThere, Resync, Fails, Unsent
  <2>3. ASSUME NEW w \in wire, Refused(w) \/ WriteLost(w) PROVE UNCHANGED server
    BY <2>3 DEF Refused, WriteLost
  <2>4. ASSUME NEW w \in wire, Accepted(w) PROVE Shared!SharedNext
    <3>1. w.record \in Records /\ w.by \in Devices
      BY DEF Inv, WiresOK, WriteOK
    <3>2. View' = [View EXCEPT ![w.record] = @ \cup {w.by}]
      BY <2>4, AcceptedStep
    <3> QED BY <3>1, <3>2 DEF Shared!SharedNext, Shared!Edit
  <2> QED BY <2>1, <2>2, <2>3, <2>4 DEF Next, ServerStep, Terminated, vars
<1> QED BY <1>1, <1>2, InvHolds, PTL DEF Spec, EditsAreAtomic, Shared!SharedSpec

=============================================================================
