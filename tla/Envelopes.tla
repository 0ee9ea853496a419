----------------------------- MODULE Envelopes -----------------------------
(***************************************************************************)
(* ServiceCipher::open_envelope (src/src/cipher.rs): what arrives from     *)
(* other accounts and from our other devices, for our ACI or our PNI, in   *)
(* any order, and what the application gets to read.  A message that       *)
(* cannot be decrypted is asked for again (send_decryption_error_message), *)
(* which needs the error to name its sender and the ciphertext the sender  *)
(* knows it by.                                                            *)
(*                                                                         *)
(* External: libsignal's sessions (an epoch is one session; a pre-key      *)
(* message brings its session along), the senders, and the application,    *)
(* which reports every failure that names its sender.                      *)
(***************************************************************************)
EXTENDS Naturals, FiniteSets

CONSTANTS Messages,    \* what is sent; see MCEnvelopes for the fields
          Accounts,    \* who sends; "self" is our own account.  A PNI that sends is
                       \* a member of its own: its sessions are not its ACI's
          KnownPnis,   \* sets of <<account, device>> our store may know a PNI identity for
          None,
          MaxTransit,  \* bound on how many envelopes wait when another is sent
          MaxLosses    \* bound on how often our sessions are lost

\* A PniSignatureMessage: it names a PNI, and holds the signature that the PNI
\* key of account "by" made over the ACI identity of account "over".
Signatures == [pni : Accounts, by : Accounts, over : Accounts]

\* What senders can send.  Group messages are sealed.  Nobody can forge a
\* signature: one that the sender did not make itself is a copy of one its maker
\* made, over its own ACI identity.
ASSUME MessagesAssumption ==
    /\ None \notin Accounts
    /\ None \notin Signatures
    /\ Messages \subseteq
          [id : Nat, from : Accounts, device : Nat,
           kind : {"none", "data", "sync", "error"}, way : {"session", "senderkey", "plain"},
           sealed : BOOLEAN, identified : BOOLEAN, as : {"aci", "pni"},
           to : {"aci", "pni", "missing", "elsewhere"}, stamped : BOOLEAN,
           skdm : {"none", "good", "bad"}, sig : {None} \cup Signatures]
    /\ \A m \in Messages :
          /\ m.way = "senderkey" => m.sealed
          /\ m.sig # None => m.sig.by = m.from \/ m.sig.by = m.sig.over

\* The protocol address a message comes from.
Sender(m) == <<m.from, m.device>>
Addresses == {Sender(m) : m \in Messages}

VARIABLES sent,        \* external: messages that were sent
          transit,     \* external: envelopes to be opened
          epoch,       \* external: epoch[a], the session address a encrypts with
          confirmed,   \* external: a knows that we have that session
          sessions,    \* sessions[a]: the epochs our store can decrypt
          senderKeys,  \* addresses whose sender key our store has
          identities,  \* addresses whose identity our store has
          knownPnis,   \* whose PNI identity our store has, at which device
          read,        \* what open_envelope returned
          failed,      \* its errors that are still to be reported
          receipts,    \* retry receipts on their way to their account
          losses

vars == <<sent, transit, epoch, confirmed, sessions, senderKeys, identities,
          knownPnis, read, failed, receipts, losses>>

-----------------------------------------------------------------------------
(* Senders *)

\* External: a ciphertext as its sender makes it.  An account sends its messages
\* in turn; they arrive in any order.
Cipher(m) == CASE m.way = "plain" -> "Plaintext"
               [] m.way = "senderkey" -> "SenderKey"
               [] OTHER -> IF confirmed[Sender(m)] THEN "Whisper" ELSE "PreKey"

EnvelopeType(m, cipher) ==
    IF m.sealed THEN "UnidentifiedSender"
    ELSE CASE cipher = "PreKey" -> "PrekeyMessage"
           [] cipher = "Whisper" -> "DoubleRatchet"
           [] cipher = "Plaintext" -> "PlaintextContent"

Envelope(m, cipher, skdm, e) ==
    [msg |-> m, type |-> EnvelopeType(m, cipher), cipher |-> cipher, epoch |-> e,
     source |-> IF m.sealed /\ ~m.identified THEN None ELSE m.from, skdm |-> skdm]

Transmit(m) ==
    /\ m \in Messages \ sent /\ Cardinality(transit) < MaxTransit
    /\ \A s \in Messages \ sent : s.from = m.from => m.id <= s.id
    /\ m.way = "senderkey" => \E s \in sent : Sender(s) = Sender(m) /\ s.skdm = "good"
    /\ sent' = sent \cup {m}
    /\ transit' = transit \cup {Envelope(m, Cipher(m), m.skdm, epoch[Sender(m)])}
    /\ UNCHANGED <<epoch, confirmed, sessions, senderKeys, identities, knownPnis,
                   read, failed, receipts, losses>>

\* External: what was encrypted with a sender key is resent together with it.
SenderKeyAgain(e) == IF e.cipher = "SenderKey" THEN "good" ELSE e.skdm

\* External: a device gets a retry receipt that names a ciphertext of its own:
\* it starts a new session and sends the message again.
SendAgain(r) ==
    LET a == Sender(r.original.msg)
        m == [r.original.msg EXCEPT !.way = "session"] IN
    /\ r \in receipts /\ r.to = a
    /\ receipts' = receipts \ {r}
    /\ epoch' = [epoch EXCEPT ![a] = @ + 1]
    /\ confirmed' = [confirmed EXCEPT ![a] = FALSE]
    /\ transit' = transit \cup
          {[Envelope(m, "PreKey", SenderKeyAgain(r.original), epoch[a] + 1)
              EXCEPT !.msg = r.original.msg]}
    /\ UNCHANGED <<sent, sessions, senderKeys, identities, knownPnis, read, failed, losses>>

\* Our store goes back to one without sessions and sender keys of address a.
LoseSessions(a) ==
    /\ losses < MaxLosses /\ sessions[a] # {}
    /\ losses' = losses + 1
    /\ sessions' = [sessions EXCEPT ![a] = {}]
    /\ senderKeys' = senderKeys \ {a}
    /\ UNCHANGED <<sent, transit, epoch, confirmed, identities, knownPnis,
                   read, failed, receipts>>

-----------------------------------------------------------------------------
(* decrypt *)

\* The reasons to reject an envelope before its content is looked at: it names no
\* destination, or not the address of the cipher that opens it; it is sealed and
\* for our PNI; it is from a PNI.  Server delivery receipts, the one thing a PNI
\* may send, have no content.
InvalidFrame(e) ==
    \/ e.msg.to \in {"missing", "elsewhere"}
    \/ e.msg.to = "pni" /\ e.source = None
    \/ e.source # None /\ e.msg.as = "pni"

Decrypts(e) == CASE e.cipher = "PreKey" -> TRUE
                 [] e.cipher = "Whisper" -> e.epoch \in sessions[Sender(e.msg)]
                 [] e.cipher = "SenderKey" -> Sender(e.msg) \in senderKeys
                 [] e.cipher = "Plaintext" -> TRUE

\* Mutant: a sealed sender certificate may be a PNI's.
SealedByAnyone(e) == FALSE
\* Sealed sender hides who sends: that it is a PNI is seen once the message has
\* been decrypted and the session stored.
SealedByPni(e) == e.type = "UnidentifiedSender" /\ e.msg.as = "pni"

\* What makes open_envelope fail after the message has been decrypted and the
\* session stored, without an error that names the sender: a PNI's certificate, a
\* timestamp that is out of range, a sender key that does not parse.
Unusable(e) == SealedByPni(e) \/ ~e.msg.stamped \/ e.skdm = "bad"

\* External: libsignal stores the session a pre-key message opens, and the
\* identity it came from.
Ratcheted(e) == e.cipher \in {"PreKey", "Whisper"}

\* Mutant: a sealed sender error does not say which message failed.
DecryptionErrorBare(e) == [to |-> Sender(e.msg), original |-> None]

\* What an error says: a sealed envelope that opened but whose payload did not
\* names its sender and the inner message; without a seal the envelope does.
DecryptionError(e) == [to |-> Sender(e.msg), original |-> e]

\* The PNI identity the signature is verified with, of the device that sent it
\* or else of the primary.
PniIdentity(pni, device) == <<pni, device>> \in knownPnis \/ <<pni, 1>> \in knownPnis

\* Mutant: any signature by the PNI's key will do, over whichever identity.
VerifyPniSignatureBare(e) ==
    LET sig == e.msg.sig IN
    IF /\ Sender(e.msg) \in identities'
       /\ PniIdentity(sig.pni, e.msg.device)
       /\ sig.by = sig.pni
    THEN sig.pni ELSE None

\* verify_pni_signature, with the identities the store has after decrypting: the
\* signature is by the PNI's identity and over the ACI identity of the address
\* the message came from, if the store has both.
VerifyPniSignature(e) ==
    LET sig == e.msg.sig IN
    IF /\ Sender(e.msg) \in identities'
       /\ PniIdentity(sig.pni, e.msg.device)
       /\ sig.by = sig.pni /\ sig.over = e.msg.from
    THEN sig.pni ELSE None

Metadata(e) ==
    [sender |-> e.msg.from, device |-> e.msg.device, destination |-> e.msg.to,
     unidentified_sender |-> e.type = "UnidentifiedSender",
     needs_receipt |-> e.type = "UnidentifiedSender" /\ e.source = None,
     was_plaintext |-> e.type = "PlaintextContent",
     pni_verified |-> IF e.msg.sig = None THEN None ELSE VerifyPniSignature(e)]

-----------------------------------------------------------------------------
(* open_envelope *)

\* Mutant: sync messages are taken from anyone.
DroppedNotSync(e, meta) ==
    \/ e.msg.kind = "none"
    \/ meta.was_plaintext /\ e.msg.kind # "error"

\* Content that is not returned: none at all, other than an error in a
\* plaintext envelope, a sync message that is not from our own ACI to our ACI.
Dropped(e, meta) ==
    \/ e.msg.kind = "none"
    \/ meta.was_plaintext /\ e.msg.kind # "error"
    \/ e.msg.kind = "sync" /\ (meta.sender # "self" \/ meta.destination = "pni")

\* Mutant: sender keys are ingested with the content they come with.
IngestedWithContent(e, meta) ==
    IF e.skdm = "good" /\ ~Dropped(e, meta)
    THEN senderKeys \cup {<<meta.sender, meta.device>>} ELSE senderKeys

\* The sender key distribution message, ingested before the content, also when
\* the content is about to be dropped and when the envelope was plaintext.
Ingested(e, meta) ==
    IF e.skdm = "good" THEN senderKeys \cup {<<meta.sender, meta.device>>} ELSE senderKeys

OpenEnvelope(e) ==
    /\ e \in transit
    /\ transit' = transit \ {e}
    /\ \/ /\ InvalidFrame(e)
          /\ UNCHANGED <<confirmed, sessions, senderKeys, identities, read, failed>>
       \/ /\ ~InvalidFrame(e) /\ ~Decrypts(e)
          /\ failed' = failed \cup {DecryptionError(e)}
          /\ UNCHANGED <<confirmed, sessions, senderKeys, identities, read>>
       \/ /\ ~InvalidFrame(e) /\ Decrypts(e)
          /\ IF Ratcheted(e)
             THEN /\ sessions' = [sessions EXCEPT ![Sender(e.msg)] = @ \cup {e.epoch}]
                  /\ confirmed' = [confirmed EXCEPT
                                     ![Sender(e.msg)] = @ \/ e.epoch = epoch[Sender(e.msg)]]
                  /\ identities' = identities \cup {Sender(e.msg)}
             ELSE UNCHANGED <<sessions, confirmed, identities>>
          /\ IF Unusable(e)
             THEN UNCHANGED <<senderKeys, read>>
             ELSE LET meta == Metadata(e) IN
                  /\ senderKeys' = Ingested(e, meta)
                  /\ read' = IF Dropped(e, meta) THEN read
                             ELSE read \cup {[msg |-> e.msg, metadata |-> meta]}
          /\ UNCHANGED failed
    /\ UNCHANGED <<sent, epoch, knownPnis, receipts, losses>>

\* send_decryption_error_message, for an error that names what failed.
Report(f) ==
    /\ f \in failed
    /\ failed' = failed \ {f}
    /\ receipts' = IF f.original = None THEN receipts ELSE receipts \cup {f}
    /\ UNCHANGED <<sent, transit, epoch, confirmed, sessions, senderKeys, identities,
                   knownPnis, read, losses>>

-----------------------------------------------------------------------------

Init ==
    /\ sent = {} /\ transit = {} /\ read = {} /\ failed = {} /\ receipts = {}
    /\ epoch = [a \in Addresses |-> 1]
    /\ confirmed = [a \in Addresses |-> FALSE]
    /\ sessions = [a \in Addresses |-> {}]
    /\ senderKeys = {} /\ identities = {}
    /\ knownPnis \in KnownPnis
    /\ losses = 0

Open == \E e \in transit : OpenEnvelope(e)
Retry == (\E f \in failed : Report(f)) \/ (\E r \in receipts : SendAgain(r))

Next == \/ \E m \in Messages : Transmit(m)
        \/ Open
        \/ Retry
        \/ \E a \in Addresses : LoseSessions(a)

Spec == Init /\ [][Next]_vars

\* What arrives is opened, failures are reported and senders answer.
FairSpec == Spec /\ WF_vars(Open) /\ WF_vars(Retry)

-----------------------------------------------------------------------------
(* Properties *)

\* What the application reads it may act on: it knows who sent it, sync
\* messages are our own account's, an envelope without encryption brings
\* nothing but a retry receipt, it is for us, nobody writes to our PNI
\* unidentified or from a PNI, and delivery receipts are due for what came unidentified.
ReadIsEntitled ==
    \A r \in read :
        LET m == r.msg IN
        /\ r.metadata.sender = m.from
        /\ m.kind = "sync" => m.from = "self" /\ m.to = "aci"
        /\ m.way = "plain" /\ ~m.sealed => m.kind = "error"
        /\ m.to = "aci" \/ (m.to = "pni" /\ ~(m.sealed /\ ~m.identified))
        /\ m.as = "aci"
        /\ r.metadata.needs_receipt <=> m.sealed /\ ~m.identified

\* The sender key of an address may stem from an envelope that was not encrypted:
\* then a group message can be decrypted whose sender's identity we do not have.
PlainKey(a) == \E s \in sent : Sender(s) = a /\ s.way = "plain" /\ s.skdm = "good"

\* A PNI that is reported as verified is the sender's own: a signature that was
\* copied from another account, or made over another identity or for another
\* PNI, verifies nothing.  A PNI that its owner did prove is reported, if we know
\* its identity at the sending or the primary device, with every message that
\* was encrypted, unless it was in a group with a sender key nobody vouched for.
PniVerifiedExactly ==
    \A r \in read :
        LET m == r.msg
            proved == m.sig = [pni |-> m.from, by |-> m.from, over |-> m.from]
            known == <<m.from, m.device>> \in knownPnis \/ <<m.from, 1>> \in knownPnis
            encrypted == m.way = "session" \/ (m.way = "senderkey" /\ ~PlainKey(Sender(m))) IN
        /\ r.metadata.pni_verified \in {None, m.from}
        /\ r.metadata.pni_verified # None => proved /\ known
        /\ proved /\ known /\ encrypted => r.metadata.pni_verified = m.from

\* Content we are entitled to, in an envelope that open_envelope can use.
Wanted(m) == /\ m.kind # "none" /\ m.stamped /\ m.skdm # "bad"
             /\ m.kind = "sync" => m.from = "self" /\ m.to = "aci"
             /\ m.way = "plain" => m.kind = "error"
             /\ m.to = "aci" \/ (m.to = "pni" /\ ~(m.sealed /\ ~m.identified))
             /\ m.as = "aci"

\* Every message we are entitled to is read in the end, whatever overtook it
\* and whatever sessions and sender keys our store had when it came: a message
\* that fails is named in a receipt its sender can match.
EveryMessageRead ==
    <>[](\A m \in sent : Wanted(m) => \E r \in read : r.msg = m)

\* Once a sender key has come with a message that could be decrypted, or in
\* plaintext, group messages need no retry for want of it, whatever became of
\* that message's content, unless its frame was invalid, it could not be used, as
\* nothing can that a PNI sends, or our store lost the key.
SenderKeysKept ==
    [][ \A e \in transit : e.skdm = "good" /\ e \notin transit'
                            /\ Sender(e.msg) \notin senderKeys'
          => failed' # failed \/ InvalidFrame(e) \/ Unusable(e) ]_vars
=============================================================================
