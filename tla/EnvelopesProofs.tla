-------------------------- MODULE EnvelopesProofs --------------------------
(***************************************************************************)
(* What open_envelope returns, proved for any messages, accounts and       *)
(* stores: the reader is entitled to it, the PNI it reports is the         *)
(* sender's, and the sender keys that came are kept.                       *)
(***************************************************************************)
EXTENDS Envelopes, TLAPS

USE MessagesAssumption

-----------------------------------------------------------------------------
(* The inductive invariant *)

\* An envelope's frame agrees with the message in it, whichever time it is sent.
Framed(e) ==
    /\ e.msg \in Messages
    /\ e.source = IF e.msg.sealed /\ ~e.msg.identified THEN None ELSE e.msg.from
    /\ e.type = "UnidentifiedSender" <=> e.msg.sealed
    /\ e.type = "PlaintextContent" <=> ~e.msg.sealed /\ e.msg.way = "plain"
    /\ e.cipher \in {"PreKey", "Whisper", "SenderKey", "Plaintext"}
    /\ e.cipher = "Plaintext" <=> e.msg.way = "plain"
    /\ e.skdm \in {"none", "good", "bad"}
    /\ e.cipher = "Plaintext" => e.skdm = e.msg.skdm
    /\ e.cipher = "SenderKey" => e.msg.way = "senderkey"

\* An envelope holds a message that was sent, under a session its account has had.
Made(e) == e.msg \in sent /\ e.epoch \in Nat /\ e.epoch <= epoch[Sender(e.msg)]

EnvelopesOK == \A e \in transit : Framed(e) /\ Made(e)

\* A failure is the error of an envelope that was encrypted and is no longer to
\* be opened.  No envelope is sent twice, so it will not come again.
FailuresOK ==
    \A f \in failed : /\ f = DecryptionError(f.original)
                      /\ Framed(f.original) /\ Made(f.original)
                      /\ f.original.cipher # "Plaintext"
                      /\ f.original \notin transit

ReceiptsOK ==
    \A r \in receipts : /\ Framed(r.original) /\ Made(r.original)
                        /\ r.original.cipher # "Plaintext"

\* A sender key came with a message that was encrypted, so that the store has the
\* sender's identity, or in plaintext.
StoreOK == /\ sent \subseteq Messages
           /\ epoch \in [Addresses -> Nat]
           /\ \A a \in senderKeys : a \in identities \/ PlainKey(a)

\* One message that was read: the parts of ReadIsEntitled and
\* PniVerifiedExactly that speak of it.
Entitled(r) ==
    LET m == r.msg IN
    /\ r.metadata.sender = m.from
    /\ m.kind = "sync" => m.from = "self" /\ m.to = "aci"
    /\ m.way = "plain" /\ ~m.sealed => m.kind = "error"
    /\ m.to = "aci" \/ (m.to = "pni" /\ ~(m.sealed /\ ~m.identified))
    /\ m.as = "aci"
    /\ r.metadata.needs_receipt <=> m.sealed /\ ~m.identified

Proved(m) == m.sig = [pni |-> m.from, by |-> m.from, over |-> m.from]
KnownPni(m) == <<m.from, m.device>> \in knownPnis \/ <<m.from, 1>> \in knownPnis
Encrypted(m) == m.way = "session" \/ (m.way = "senderkey" /\ ~PlainKey(Sender(m)))

Verified(r) ==
    /\ r.metadata.pni_verified \in {None, r.msg.from}
    /\ r.metadata.pni_verified # None => Proved(r.msg) /\ KnownPni(r.msg)
    /\ Proved(r.msg) /\ KnownPni(r.msg) /\ Encrypted(r.msg)
          => r.metadata.pni_verified = r.msg.from

ReadOK == \A r \in read : Entitled(r) /\ Verified(r)

EnvInv == StoreOK /\ EnvelopesOK /\ FailuresOK /\ ReceiptsOK /\ ReadOK

-----------------------------------------------------------------------------
(* Lemmas about the operators *)

\* The envelope of a message's first transmission.
LEMMA FirstEnvelope ==
    ASSUME NEW m \in Messages, NEW n \in Nat
    PROVE  LET e == Envelope(m, Cipher(m), m.skdm, n) IN
           Framed(e) /\ e.msg = m /\ e.epoch = n
<1> DEFINE e == Envelope(m, Cipher(m), m.skdm, n)
<1>1. /\ e.msg = m /\ e.epoch = n /\ e.skdm = m.skdm /\ e.cipher = Cipher(m)
      /\ e.type = EnvelopeType(m, Cipher(m))
      /\ e.source = IF m.sealed /\ ~m.identified THEN None ELSE m.from
  BY DEF Envelope
<1>2. /\ m.way \in {"session", "senderkey", "plain"} /\ m.sealed \in BOOLEAN
      /\ m.skdm \in {"none", "good", "bad"} /\ (m.way = "senderkey" => m.sealed)
  OBVIOUS
<1>3. /\ Cipher(m) \in {"PreKey", "Whisper", "SenderKey", "Plaintext"}
      /\ Cipher(m) = "Plaintext" <=> m.way = "plain"
      /\ Cipher(m) = "SenderKey" <=> m.way = "senderkey"
  BY <1>2 DEF Cipher
<1>4. /\ EnvelopeType(m, Cipher(m)) = "UnidentifiedSender" <=> m.sealed
      /\ EnvelopeType(m, Cipher(m)) = "PlaintextContent" <=> ~m.sealed /\ m.way = "plain"
  BY <1>2, <1>3 DEF EnvelopeType
<1> QED
  BY <1>1, <1>2, <1>3, <1>4 DEF Framed

\* The envelope of a message that is sent again after a receipt.
LEMMA NextEnvelope ==
    ASSUME NEW o, Framed(o), o.cipher # "Plaintext", NEW n \in Nat,
           NEW b, b \in {"none", "good", "bad"}
    PROVE  LET m == [o.msg EXCEPT !.way = "session"]
               e == [Envelope(m, "PreKey", b, n) EXCEPT !.msg = o.msg] IN
           Framed(e) /\ e.msg = o.msg /\ e.epoch = n
<1> DEFINE m == [o.msg EXCEPT !.way = "session"]
           e == [Envelope(m, "PreKey", b, n) EXCEPT !.msg = o.msg]
<1>1. o.msg \in Messages /\ o.msg.way # "plain"
  BY DEF Framed
<1>2. /\ m.sealed = o.msg.sealed /\ m.identified = o.msg.identified
      /\ m.from = o.msg.from /\ o.msg.sealed \in BOOLEAN
  BY <1>1
<1>3. /\ e.msg = o.msg /\ e.epoch = n /\ e.skdm = b /\ e.cipher = "PreKey"
      /\ e.type = EnvelopeType(m, "PreKey")
      /\ e.source = IF m.sealed /\ ~m.identified THEN None ELSE m.from
  BY DEF Envelope
<1>4. /\ EnvelopeType(m, "PreKey") = "UnidentifiedSender" <=> o.msg.sealed
      /\ EnvelopeType(m, "PreKey") # "PlaintextContent"
  BY <1>2 DEF EnvelopeType
<1> QED
  BY <1>1, <1>2, <1>3, <1>4 DEF Framed

-----------------------------------------------------------------------------
(* What is read *)

\* Content that passes the frame's checks and the filters is ours to read.
LEMMA ReturnedEntitled ==
    ASSUME NEW e, Framed(e), ~InvalidFrame(e), ~Unusable(e), ~Dropped(e, Metadata(e))
    PROVE  Entitled([msg |-> e.msg, metadata |-> Metadata(e)])
<1> DEFINE meta == Metadata(e)
           r == [msg |-> e.msg, metadata |-> meta]
<1>1. r.msg = e.msg /\ r.metadata = meta
  OBVIOUS
<1>2. /\ meta.sender = e.msg.from /\ meta.destination = e.msg.to
      /\ meta.needs_receipt = (e.type = "UnidentifiedSender" /\ e.source = None)
      /\ meta.was_plaintext = (e.type = "PlaintextContent")
  BY DEF Metadata
<1>3. /\ e.msg.from \in Accounts /\ e.msg.to \in {"aci", "pni", "missing", "elsewhere"}
      /\ e.msg.as \in {"aci", "pni"} /\ e.msg.sealed \in BOOLEAN
      /\ e.msg.identified \in BOOLEAN
  BY DEF Framed
<1>4. e.source = None <=> e.msg.sealed /\ ~e.msg.identified
  BY <1>3 DEF Framed
<1>5. /\ e.msg.kind = "sync" => e.msg.from = "self" /\ e.msg.to = "aci"
      /\ e.type = "PlaintextContent" => e.msg.kind = "error"
  <2>1. e.msg.to \in {"aci", "pni"}
    BY <1>3 DEF InvalidFrame
  <2> QED
    BY <1>2, <2>1 DEF Dropped
<1>6. /\ e.msg.to = "aci" \/ (e.msg.to = "pni" /\ ~(e.msg.sealed /\ ~e.msg.identified))
      /\ e.msg.as = "aci"
  <2>1. e.source # None => e.msg.as = "aci"
    BY <1>3 DEF InvalidFrame
  <2>2. e.msg.to \in {"aci", "pni"} /\ (e.msg.to = "pni" => e.source # None)
    BY <1>3 DEF InvalidFrame
  <2>3. e.msg.sealed => e.msg.as = "aci"
    BY <1>3 DEF Unusable, SealedByPni, Framed
  <2> QED
    BY <2>1, <2>2, <2>3, <1>4
<1> QED
  BY <1>1, <1>2, <1>3, <1>4, <1>5, <1>6 DEF Entitled, Framed

\* The PNI in the metadata is the sender's if it is verified: a signature that
\* verifies is by the PNI's own key and over the sender's own identity, and nobody
\* signs another's identity; so the two are the sender's.
LEMMA ReturnedVerified ==
    ASSUME NEW e, Framed(e), Encrypted(e.msg) => Sender(e.msg) \in identities'
    PROVE  Verified([msg |-> e.msg, metadata |-> Metadata(e)])
<1> DEFINE meta == Metadata(e)
<1> SUFFICES ASSUME NEW r, r = [msg |-> e.msg, metadata |-> meta]
             PROVE  Verified(r)
  OBVIOUS
<1>1. r.msg = e.msg /\ r.metadata = meta
  OBVIOUS
<1>2. meta.pni_verified = IF e.msg.sig = None THEN None ELSE VerifyPniSignature(e)
  BY DEF Metadata
<1>3. e.msg \in Messages /\ e.msg.from \in Accounts
  BY DEF Framed
<1>4. CASE e.msg.sig = None
  <2>1. ~Proved(e.msg)
    BY <1>3, <1>4 DEF Proved, Signatures
  <2> QED
    BY <1>1, <1>2, <1>4, <2>1 DEF Verified
<1>5. CASE e.msg.sig # None
  <2>1. /\ e.msg.sig \in Signatures
        /\ e.msg.sig.by = e.msg.from \/ e.msg.sig.by = e.msg.sig.over
    BY <1>3, <1>5
  <2>2. Proved(e.msg) <=> e.msg.sig.by = e.msg.sig.pni /\ e.msg.sig.over = e.msg.from
    BY <2>1 DEF Proved, Signatures
  <2>3. Proved(e.msg) => e.msg.sig.pni = e.msg.from
    BY DEF Proved
  <2>4. VerifyPniSignature(e) =
          IF Sender(e.msg) \in identities' /\ Proved(e.msg) /\ KnownPni(e.msg)
          THEN e.msg.from ELSE None
    BY <2>2, <2>3 DEF VerifyPniSignature, PniIdentity, KnownPni
  <2>5. meta.pni_verified = VerifyPniSignature(e)
    BY <1>2, <1>5
  <2> HIDE DEF meta
  <2> QED
    BY <1>1, <2>4, <2>5 DEF Verified
<1> QED
  BY <1>4, <1>5

-----------------------------------------------------------------------------
(* The steps *)

\* An envelope that was made stays made: messages are not unsent and epochs only
\* grow.
LEMMA MadeStays ==
    ASSUME NEW e, Framed(e), Made(e), StoreOK, sent \subseteq sent',
           \A a \in Addresses : epoch'[a] \in Nat /\ epoch[a] <= epoch'[a]
    PROVE  Made(e)'
<1>1. Sender(e.msg) \in Addresses
  BY DEF Framed, Addresses
<1>2. epoch[Sender(e.msg)] \in Nat
  BY <1>1 DEF StoreOK
<1> QED
  BY <1>1, <1>2 DEF Made

\* A plaintext sender key stays one, and what was read stays verified.
LEMMA ReadStays ==
    ASSUME sent \subseteq sent', knownPnis' = knownPnis
    PROVE  /\ \A a : PlainKey(a) => PlainKey(a)'
           /\ \A r : Verified(r) => Verified(r)'
<1>1. \A a : PlainKey(a) => PlainKey(a)'
  BY DEF PlainKey
<1>2. \A m : Encrypted(m)' => Encrypted(m)
  BY <1>1 DEF Encrypted
<1>3. \A m : KnownPni(m)' <=> KnownPni(m)
  BY DEF KnownPni
<1> QED
  BY <1>1, <1>2, <1>3 DEF Verified

\* A message is sent.
LEMMA TransmitKeeps ==
    ASSUME EnvInv, NEW m \in Messages, Transmit(m)
    PROVE  EnvInv'
<1>1. Sender(m) \in Addresses /\ epoch[Sender(m)] \in Nat
  BY DEF EnvInv, StoreOK, Addresses
<1>0. PICK n : n = Envelope(m, Cipher(m), m.skdm, epoch[Sender(m)])
  OBVIOUS
<1>2. Framed(n) /\ n.msg = m /\ n.epoch = epoch[Sender(m)]
  BY <1>0, <1>1, FirstEnvelope
<1>3. /\ sent' = sent \cup {m} /\ m \notin sent
      /\ transit' = transit \cup {n}
      /\ epoch' = epoch /\ failed' = failed /\ receipts' = receipts
      /\ read' = read /\ senderKeys' = senderKeys /\ identities' = identities
      /\ knownPnis' = knownPnis
  BY <1>0 DEF Transmit
<1>4. StoreOK'
  BY <1>3, ReadStays DEF EnvInv, StoreOK
<1>5. \A e : Framed(e) /\ Made(e) => Made(e)'
  BY <1>3 DEF Made
<1>6. EnvelopesOK'
  <2>1. Made(n)'
    BY <1>1, <1>2, <1>3 DEF Made
  <2> QED
    BY <1>2, <1>3, <1>5, <2>1 DEF EnvInv, EnvelopesOK
<1>7. FailuresOK'
  <2> SUFFICES ASSUME NEW f \in failed
               PROVE  /\ f = DecryptionError(f.original)
                      /\ Framed(f.original) /\ Made(f.original)'
                      /\ f.original.cipher # "Plaintext"
                      /\ f.original \notin transit'
    BY <1>3 DEF FailuresOK, DecryptionError
  <2>1. /\ f = DecryptionError(f.original)
        /\ Framed(f.original) /\ Made(f.original)
        /\ f.original.cipher # "Plaintext"
        /\ f.original \notin transit
    BY DEF EnvInv, FailuresOK
  <2>2. f.original # n
    BY <2>1, <1>2, <1>3 DEF Made
  <2> QED
    BY <2>1, <2>2, <1>3, <1>5
<1>8. ReceiptsOK'
  BY <1>3, <1>5 DEF EnvInv, ReceiptsOK
<1>9. ReadOK'
  BY <1>3, ReadStays DEF EnvInv, ReadOK
<1> QED
  BY <1>4, <1>6, <1>7, <1>8, <1>9 DEF EnvInv

\* A sender answers a retry receipt.
LEMMA SendAgainKeeps ==
    ASSUME EnvInv, NEW r \in receipts, SendAgain(r)
    PROVE  EnvInv'
<1> DEFINE o == r.original
           a == Sender(o.msg)
           b == SenderKeyAgain(o)
<1>0. PICK n : n = [Envelope([o.msg EXCEPT !.way = "session"], "PreKey", b, epoch[a] + 1)
                      EXCEPT !.msg = o.msg]
  OBVIOUS
<1>1. Framed(o) /\ Made(o) /\ o.cipher # "Plaintext"
  BY DEF EnvInv, ReceiptsOK
<1>2. a \in Addresses /\ epoch[a] \in Nat /\ b \in {"none", "good", "bad"}
  BY <1>1 DEF EnvInv, StoreOK, Framed, Addresses, SenderKeyAgain
<1>3. Framed(n) /\ n.msg = o.msg /\ n.epoch = epoch[a] + 1
  <2>1. epoch[a] + 1 \in Nat
    BY <1>2
  <2> HIDE DEF a, b
  <2> QED
    BY <1>0, <1>1, <1>2, <2>1, NextEnvelope
<1>4. /\ transit' = transit \cup {n}
      /\ receipts' = receipts \ {r}
      /\ epoch' = [epoch EXCEPT ![a] = @ + 1]
      /\ sent' = sent /\ failed' = failed
      /\ read' = read /\ senderKeys' = senderKeys /\ identities' = identities
      /\ knownPnis' = knownPnis
  BY <1>0 DEF SendAgain
<1>5. /\ epoch' \in [Addresses -> Nat] /\ epoch'[a] = epoch[a] + 1
      /\ \A x \in Addresses : epoch'[x] \in Nat /\ epoch[x] <= epoch'[x]
  BY <1>2, <1>4 DEF EnvInv, StoreOK
<1>6. StoreOK'
  BY <1>4, <1>5, ReadStays DEF EnvInv, StoreOK
<1>7. \A e : Framed(e) /\ Made(e) => Made(e)'
  BY <1>4, <1>5, MadeStays DEF EnvInv
<1>8. EnvelopesOK'
  <2>1. Made(n)'
    BY <1>1, <1>2, <1>3, <1>4, <1>5 DEF Made
  <2> QED
    BY <1>3, <1>4, <1>7, <2>1 DEF EnvInv, EnvelopesOK
<1>9. FailuresOK'
  <2> SUFFICES ASSUME NEW f \in failed
               PROVE  /\ f = DecryptionError(f.original)
                      /\ Framed(f.original) /\ Made(f.original)'
                      /\ f.original.cipher # "Plaintext"
                      /\ f.original \notin transit'
    BY <1>4 DEF FailuresOK, DecryptionError
  <2>1. /\ f = DecryptionError(f.original)
        /\ Framed(f.original) /\ Made(f.original)
        /\ f.original.cipher # "Plaintext"
        /\ f.original \notin transit
    BY DEF EnvInv, FailuresOK
  <2>2. f.original # n
    <3> SUFFICES ASSUME f.original = n
                 PROVE  FALSE
      OBVIOUS
    <3>1. epoch[a] + 1 <= epoch[a]
      BY <1>3, <2>1 DEF Made
    <3> QED
      BY <1>2, <3>1
  <2> QED
    BY <2>1, <2>2, <1>4, <1>7
<1>10. ReceiptsOK'
  BY <1>4, <1>7 DEF EnvInv, ReceiptsOK
<1>11. ReadOK'
  BY <1>4, ReadStays DEF EnvInv, ReadOK
<1> QED
  BY <1>6, <1>8, <1>9, <1>10, <1>11 DEF EnvInv

\* What opening an envelope does to the variables of the invariant.
LEMMA OpenShape ==
    ASSUME EnvInv, NEW x \in transit, OpenEnvelope(x)
    PROVE  /\ transit' = transit \ {x}
           /\ sent' = sent /\ epoch' = epoch /\ receipts' = receipts
           /\ knownPnis' = knownPnis
           /\ identities \subseteq identities'
           /\ \/ InvalidFrame(x) /\ senderKeys' = senderKeys /\ read' = read /\ failed' = failed
              \/ /\ ~Decrypts(x)
                 /\ failed' = failed \cup {DecryptionError(x)}
                 /\ senderKeys' = senderKeys /\ read' = read
              \/ /\ Unusable(x)
                 /\ senderKeys' = senderKeys /\ read' = read /\ failed' = failed
              \/ /\ ~InvalidFrame(x) /\ Decrypts(x) /\ ~Unusable(x)
                 /\ Ratcheted(x) => Sender(x.msg) \in identities'
                 /\ senderKeys' = Ingested(x, Metadata(x))
                 /\ read' = IF Dropped(x, Metadata(x)) THEN read
                            ELSE read \cup {[msg |-> x.msg, metadata |-> Metadata(x)]}
                 /\ failed' = failed
<1>1. /\ transit' = transit \ {x}
      /\ sent' = sent /\ epoch' = epoch /\ receipts' = receipts
      /\ knownPnis' = knownPnis
  BY DEF OpenEnvelope
<1>2. \/ /\ InvalidFrame(x)
         /\ UNCHANGED <<confirmed, sessions, senderKeys, identities, read, failed>>
      \/ /\ ~Decrypts(x)
         /\ failed' = failed \cup {DecryptionError(x)}
         /\ UNCHANGED <<confirmed, sessions, senderKeys, identities, read>>
      \/ /\ ~InvalidFrame(x) /\ Decrypts(x)
         /\ IF Ratcheted(x) THEN identities' = identities \cup {Sender(x.msg)}
                            ELSE identities' = identities
         /\ IF Unusable(x)
            THEN UNCHANGED <<senderKeys, read>>
            ELSE /\ senderKeys' = Ingested(x, Metadata(x))
                 /\ read' = IF Dropped(x, Metadata(x)) THEN read
                            ELSE read \cup {[msg |-> x.msg, metadata |-> Metadata(x)]}
         /\ failed' = failed
  BY DEF OpenEnvelope
<1> QED
  BY <1>1, <1>2

\* Whoever's content was decrypted has an identity in the store, unless the
\* content was not encrypted at all.
LEMMA DecryptedKnown ==
    ASSUME EnvInv, NEW x, Framed(x), Decrypts(x),
           identities \subseteq identities',
           Ratcheted(x) => Sender(x.msg) \in identities'
    PROVE  /\ Sender(x.msg) \in identities' \/ x.cipher \in {"SenderKey", "Plaintext"}
           /\ x.cipher = "SenderKey" => Sender(x.msg) \in identities' \/ PlainKey(Sender(x.msg))
<1>1. x.cipher \in {"PreKey", "Whisper", "SenderKey", "Plaintext"}
  BY DEF Framed
<1>2. CASE x.cipher \in {"PreKey", "Whisper"}
  BY <1>2 DEF Ratcheted
<1>3. CASE x.cipher = "SenderKey"
  BY <1>3 DEF Decrypts, EnvInv, StoreOK
<1>4. CASE x.cipher = "Plaintext"
  BY <1>4
<1> QED
  BY <1>1, <1>2, <1>3, <1>4

\* open_envelope, however it ends.
LEMMA OpenKeeps ==
    ASSUME EnvInv, NEW x \in transit, OpenEnvelope(x)
    PROVE  EnvInv'
<1>1. Framed(x) /\ Made(x)
  BY DEF EnvInv, EnvelopesOK
<1>2. /\ transit' = transit \ {x}
      /\ sent' = sent /\ epoch' = epoch /\ receipts' = receipts
      /\ knownPnis' = knownPnis
      /\ identities \subseteq identities'
  BY OpenShape
<1>3. \A e : Made(e) => Made(e)'
  BY <1>2 DEF Made
<1>4. EnvelopesOK'
  BY <1>2, <1>3 DEF EnvInv, EnvelopesOK
<1>5. ReceiptsOK'
  BY <1>2, <1>3 DEF EnvInv, ReceiptsOK
<1>6. FailuresOK'
  <2>1. failed' = failed \/ (~Decrypts(x) /\ failed' = failed \cup {DecryptionError(x)})
    BY OpenShape
  <2>2. ASSUME NEW f \in failed
        PROVE  /\ f = DecryptionError(f.original)
               /\ Framed(f.original) /\ Made(f.original)'
               /\ f.original.cipher # "Plaintext"
               /\ f.original \notin transit'
    BY <1>2, <1>3 DEF EnvInv, FailuresOK
  <2>3. DecryptionError(x).original = x
    BY DEF DecryptionError
  <2>4. ~Decrypts(x) => x.cipher # "Plaintext"
    BY DEF Decrypts
  <2> QED
    <3> SUFFICES ASSUME NEW f \in failed'
                 PROVE  /\ f = DecryptionError(f.original)
                        /\ Framed(f.original) /\ Made(f.original)'
                        /\ f.original.cipher # "Plaintext"
                        /\ f.original \notin transit'
      BY DEF FailuresOK, DecryptionError
    <3>1. CASE f \in failed
      BY <2>2, <3>1
    <3>2. CASE f \notin failed
      <4>1. f = DecryptionError(x) /\ ~Decrypts(x)
        BY <2>1, <3>2
      <4> QED
        BY <4>1, <1>1, <1>2, <1>3, <2>3, <2>4
    <3> QED
      BY <3>1, <3>2
<1>7. CASE senderKeys' = senderKeys /\ read' = read
  BY <1>2, <1>4, <1>5, <1>6, <1>7, ReadStays DEF EnvInv, StoreOK, ReadOK
<1>8. CASE ~(senderKeys' = senderKeys /\ read' = read)
  <2>1. /\ ~InvalidFrame(x) /\ Decrypts(x) /\ ~Unusable(x)
        /\ Ratcheted(x) => Sender(x.msg) \in identities'
        /\ senderKeys' = Ingested(x, Metadata(x))
        /\ read' = IF Dropped(x, Metadata(x)) THEN read
                   ELSE read \cup {[msg |-> x.msg, metadata |-> Metadata(x)]}
    BY <1>8, OpenShape
  <2>2. /\ Sender(x.msg) \in identities' \/ x.cipher \in {"SenderKey", "Plaintext"}
        /\ x.cipher = "SenderKey" => Sender(x.msg) \in identities' \/ PlainKey(Sender(x.msg))
    BY <1>1, <1>2, <2>1, DecryptedKnown
  <2>3. StoreOK'
    <3>1. <<Metadata(x).sender, Metadata(x).device>> = Sender(x.msg)
      BY DEF Metadata, Sender
    <3>2. x.cipher = "Plaintext" /\ x.skdm = "good" => PlainKey(Sender(x.msg))
      BY <1>1 DEF Framed, Made, PlainKey
    <3>3. \A a : PlainKey(a) => PlainKey(a)'
      BY <1>2, ReadStays
    <3>4. ASSUME NEW a \in senderKeys'
          PROVE  a \in identities' \/ PlainKey(a)'
      <4>1. CASE a \in senderKeys
        BY <1>2, <3>3, <4>1 DEF EnvInv, StoreOK
      <4>2. CASE a \notin senderKeys
        <5>1. a = Sender(x.msg) /\ x.skdm = "good"
          BY <2>1, <3>1, <4>2 DEF Ingested
        <5> QED
          BY <2>2, <3>2, <3>3, <5>1
      <4> QED
        BY <4>1, <4>2
    <3> QED
      BY <1>2, <3>4 DEF EnvInv, StoreOK
  <2>4. ReadOK'
    <3>1. CASE Dropped(x, Metadata(x))
      BY <1>2, <2>1, <3>1, ReadStays DEF EnvInv, ReadOK
    <3>2. CASE ~Dropped(x, Metadata(x))
      <4>1. PICK r : r = [msg |-> x.msg, metadata |-> Metadata(x)]
        OBVIOUS
      <4>2. Entitled(r)
        BY <1>1, <2>1, <3>2, <4>1, ReturnedEntitled
      <4>3. Encrypted(x.msg) => Sender(x.msg) \in identities'
        BY <1>1, <2>2 DEF Encrypted, Framed
      <4>4. Verified(r)
        BY <1>1, <4>1, <4>3, ReturnedVerified
      <4>5. read' = read \cup {r}
        BY <2>1, <3>2, <4>1
      <4> QED
        BY <1>2, <4>2, <4>4, <4>5, ReadStays DEF EnvInv, ReadOK
    <3> QED
      BY <3>1, <3>2
  <2> QED
    BY <2>3, <2>4, <1>4, <1>5, <1>6 DEF EnvInv
<1> QED
  BY <1>7, <1>8

\* send_decryption_error_message.
LEMMA ReportKeeps ==
    ASSUME EnvInv, NEW f \in failed, Report(f)
    PROVE  EnvInv'
<1>1. /\ failed' = failed \ {f}
      /\ receipts' \subseteq receipts \cup {f}
      /\ sent' = sent /\ transit' = transit /\ epoch' = epoch
      /\ read' = read /\ senderKeys' = senderKeys /\ identities' = identities
      /\ knownPnis' = knownPnis
  BY DEF Report
<1>2. \A e : Made(e) => Made(e)'
  BY <1>1 DEF Made
<1>3. StoreOK' /\ EnvelopesOK' /\ ReadOK'
  BY <1>1, <1>2, ReadStays DEF EnvInv, StoreOK, EnvelopesOK, ReadOK
<1>4. FailuresOK'
  BY <1>1, <1>2 DEF EnvInv, FailuresOK, DecryptionError
<1>5. ReceiptsOK'
  BY <1>1, <1>2 DEF EnvInv, FailuresOK, ReceiptsOK
<1> QED
  BY <1>3, <1>4, <1>5 DEF EnvInv

\* The sessions with an account are lost.
LEMMA LoseSessionsKeeps ==
    ASSUME EnvInv, NEW a \in Addresses, LoseSessions(a)
    PROVE  EnvInv'
<1>1. /\ failed' = failed /\ receipts' = receipts
      /\ sent' = sent /\ transit' = transit /\ epoch' = epoch
      /\ read' = read /\ senderKeys' = senderKeys \ {a} /\ identities' = identities
      /\ knownPnis' = knownPnis
  BY DEF LoseSessions
<1>2. \A e : Made(e) => Made(e)'
  BY <1>1 DEF Made
<1>3. StoreOK' /\ EnvelopesOK' /\ ReadOK' /\ ReceiptsOK'
  BY <1>1, <1>2, ReadStays DEF EnvInv, StoreOK, EnvelopesOK, ReadOK, ReceiptsOK
<1>4. FailuresOK'
  BY <1>1, <1>2 DEF EnvInv, FailuresOK, DecryptionError
<1> QED
  BY <1>3, <1>4 DEF EnvInv

\* Nothing happens.
LEMMA StutterKeeps ==
    ASSUME EnvInv, UNCHANGED vars
    PROVE  EnvInv'
<1>1. /\ failed' = failed /\ receipts' = receipts
      /\ sent' = sent /\ transit' = transit /\ epoch' = epoch
      /\ read' = read /\ senderKeys' = senderKeys /\ identities' = identities
      /\ knownPnis' = knownPnis
  BY DEF vars
<1>2. \A e : Made(e) => Made(e)'
  BY <1>1 DEF Made
<1>3. StoreOK' /\ EnvelopesOK' /\ ReadOK' /\ ReceiptsOK'
  BY <1>1, <1>2, ReadStays DEF EnvInv, StoreOK, EnvelopesOK, ReadOK, ReceiptsOK
<1>4. FailuresOK'
  BY <1>1, <1>2 DEF EnvInv, FailuresOK, DecryptionError
<1> QED
  BY <1>3, <1>4 DEF EnvInv

-----------------------------------------------------------------------------
(* The theorems *)

\* What is under way and what is stored stem from messages that were sent.
LEMMA Invariance == Spec => []EnvInv
<1>1. Init => EnvInv
  BY DEF Init, EnvInv, StoreOK, EnvelopesOK, FailuresOK, ReceiptsOK, ReadOK
<1>2. ASSUME EnvInv, [Next]_vars
      PROVE  EnvInv'
  <2>1. CASE Next
    <3>1. CASE \E m \in Messages : Transmit(m)
      BY <1>2, <3>1, TransmitKeeps
    <3>2. CASE Open
      BY <1>2, <3>2, OpenKeeps DEF Open
    <3>3. CASE Retry
      BY <1>2, <3>3, ReportKeeps, SendAgainKeeps DEF Retry
    <3>4. CASE \E a \in Addresses : LoseSessions(a)
      BY <1>2, <3>4, LoseSessionsKeeps
    <3> QED
      BY <2>1, <3>1, <3>2, <3>3, <3>4 DEF Next
  <2>2. CASE UNCHANGED vars
    BY <1>2, <2>2, StutterKeeps
  <2> QED
    BY <1>2, <2>1, <2>2
<1> QED
  BY <1>1, <1>2, PTL DEF Spec

\* Whatever is sent, in whatever order it comes and however often it is asked for
\* again, what open_envelope returns is for the application to act on: the sender
\* it names sent it, sync messages are our own account's to our ACI, plaintext
\* brings retry receipts only, nothing comes from a PNI.
THEOREM ReadersEntitled == Spec => []ReadIsEntitled
<1>1. EnvInv => ReadIsEntitled
  BY DEF EnvInv, ReadOK, Entitled, ReadIsEntitled
<1> QED
  BY <1>1, Invariance, PTL

\* The PNI reported as verified (Metadata::pni_verified) is the sender's own,
\* whoever's signature the message brings; and one that its owner proved and whose
\* identity the store knows is reported with every encrypted message.
THEOREM PniExact == Spec => []PniVerifiedExactly
<1>1. EnvInv => PniVerifiedExactly
  BY DEF EnvInv, ReadOK, Verified, Proved, KnownPni, Encrypted, PniVerifiedExactly
<1> QED
  BY <1>1, Invariance, PTL

\* A sender key that came with a valid message that could be decrypted is in the
\* store afterwards, whatever became of the message's content.
THEOREM KeysIngested == Spec => SenderKeysKept
<1> DEFINE Kept == \A e \in transit :
                     e.skdm = "good" /\ e \notin transit' /\ Sender(e.msg) \notin senderKeys'
                       => failed' # failed \/ InvalidFrame(e) \/ Unusable(e)
<1>1. ASSUME EnvInv, [Next]_vars
      PROVE  [Kept]_vars
  <2> SUFFICES ASSUME NEW e \in transit, e.skdm = "good", e \notin transit',
                      Sender(e.msg) \notin senderKeys'
               PROVE  failed' # failed \/ InvalidFrame(e) \/ Unusable(e)
    OBVIOUS
  <2>1. PICK x \in transit : OpenEnvelope(x)
    <3>1. ASSUME NEW m \in Messages, Transmit(m) PROVE FALSE
      BY <3>1 DEF Transmit
    <3>2. ASSUME NEW r \in receipts, SendAgain(r) PROVE FALSE
      BY <3>2 DEF SendAgain
    <3>3. ASSUME NEW f \in failed, Report(f) PROVE FALSE
      BY <3>3 DEF Report
    <3>4. ASSUME NEW a \in Addresses, LoseSessions(a) PROVE FALSE
      BY <3>4 DEF LoseSessions
    <3>5. ~UNCHANGED vars
      BY DEF vars
    <3> QED
      BY <1>1, <3>1, <3>2, <3>3, <3>4, <3>5 DEF Next, Open, Retry
  <2>2. x = e
    BY <1>1, <2>1, OpenShape
  <2>3. CASE InvalidFrame(e) \/ Unusable(e)
    BY <2>3
  <2>4. CASE ~InvalidFrame(e) /\ ~Unusable(e) /\ ~Decrypts(e)
    <3>1. failed' = failed \cup {DecryptionError(e)}
      BY <1>1, <2>1, <2>2, <2>4, OpenShape
    <3>2. DecryptionError(e).original = e
      BY DEF DecryptionError
    <3>3. DecryptionError(e) \notin failed
      BY <1>1, <3>2 DEF EnvInv, FailuresOK
    <3> QED
      BY <3>1, <3>3
  <2>5. CASE ~InvalidFrame(e) /\ ~Unusable(e) /\ Decrypts(e)
    <3>1. senderKeys' = Ingested(e, Metadata(e))
      BY <1>1, <2>1, <2>2, <2>5, OpenShape
    <3>2. <<Metadata(e).sender, Metadata(e).device>> = Sender(e.msg)
      BY DEF Metadata, Sender
    <3> QED
      BY <3>1, <3>2 DEF Ingested
  <2> QED
    BY <2>3, <2>4, <2>5
<1> QED
  BY <1>1, Invariance, PTL DEF Spec, SenderKeysKept
=============================================================================
