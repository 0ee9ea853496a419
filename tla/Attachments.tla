----------------------------- MODULE Attachments -----------------------------
(***************************************************************************)
(* Attachments on their way to the CDN and back:                           *)
(*                                                                         *)
(*   upload_attachment, upload_contact_details     src/src/sender.rs       *)
(*   the resumable uploads of CDN 2 and 3, get_attachment                  *)
(*                                         src/src/push_service/cdn.rs     *)
(*   retrieve_contacts and its iterator            src/src/receiver.rs     *)
(*                                                                         *)
(* Contents are sequences of tokens: an encoded ContactDetails, a byte of  *)
(* an avatar, a zero of the padding, or bytes that do not decode.          *)
(***************************************************************************)
EXTENDS Naturals, Sequences, FiniteSets

CONSTANTS Uploads,      \* one upload each; also names the keys they draw
          CdnNumbers,   \* what the server may write into an upload form
          Brackets,     \* the lengths attachments are padded to
          NoBlob

\* avatar: the length the contact announces for the avatar that follows it.
Token == [is : {"contact", "byte", "zero", "junk"}, name : STRING, avatar : Nat]
Contact(n, a) == [is |-> "contact", name |-> n, avatar |-> a]
Other(k) == [is |-> k, name |-> "MissingUuid", avatar |-> 0]

Contacts(buf) == {i \in DOMAIN buf : buf[i].is = "contact"}
Upto(buf, i) == Cardinality({j \in Contacts(buf) : j <= i})

\* What a list is made of: contacts, bytes of an avatar some contact before them
\* announced, and padding.  A contact may announce more than follows.
ContactList(buf) ==
    \A i \in DOMAIN buf :
        \/ buf[i].is = "contact"
        \/ buf[i].is = "byte" /\ \E j \in Contacts(buf) : j < i /\ i <= j + buf[j].avatar
        \/ \A j \in i .. Len(buf) : buf[j] = Other("zero")

VARIABLES up,     \* up[u]: where upload u is
          stored, \* stored[u]: the object at u's upload location, or NoBlob
          down    \* down[u]: where the download of u's object is

attachmentVars == <<up, stored, down>>

NoUpload == [step |-> "idle", cdn |-> 0, offset |-> 0, size |-> 0, contents |-> <<>>,
             digest |-> NoBlob]
NoDownload == [step |-> "idle", items |-> <<>>]

AttachmentInit ==
    /\ up = [u \in Uploads |-> NoUpload]
    /\ stored = [u \in Uploads |-> NoBlob]
    /\ down = [u \in Uploads |-> NoDownload]

SetUp(u, f) == up' = [up EXCEPT ![u] = f] /\ UNCHANGED down
SetDown(u, f) == down' = [down EXCEPT ![u] = f] /\ UNCHANGED <<up, stored>>

-----------------------------------------------------------------------------
(* Uploading *)

\* contents.resize(padded_len, 0); a padded length below the length changes
\* nothing.
Pad(contents, padded) ==
    contents \o [i \in 1 .. (IF padded < Len(contents) THEN 0 ELSE padded - Len(contents))
                   |-> Other("zero")]

\* encrypt_in_place, decrypt_in_place: an object decrypts with its key only, and
\* unless it was changed.
Encrypt(u, contents) == [key |-> u, contents |-> contents]
Decrypts(u, object) == object.key = u

\* upload_contact_details and upload_attachment, up to the request for a form.  The
\* contacts are encoded as the caller gave them, announced avatars included, and no
\* avatar is written.
StartUpload(u, contents, padded) ==
    SetUp(u, [NoUpload EXCEPT !.step = "form", !.size = Len(contents),
                              !.contents = Pad(contents, padded)])

\* get_attachment_v4_upload_attributes
GetForm(u, cdn) ==
    /\ up[u].step = "form"
    /\ SetUp(u, [up[u] EXCEPT !.step = "url", !.cdn = cdn])
    /\ UNCHANGED stored

\* get_attachment_resumable_upload_url: a new location, which only this call
\* knows of, or UnknownCdnVersion.
GetUploadUrl(u) ==
    /\ up[u].step = "url"
    /\ up[u].cdn \in {2, 3}
    /\ SetUp(u, [up[u] EXCEPT !.step = "resume"])
    /\ stored' = [stored EXCEPT ![u] = NoBlob]

UnknownCdnVersion(u) ==
    /\ up[u].step = "url"
    /\ up[u].cdn \notin {2, 3}
    /\ SetUp(u, [up[u] EXCEPT !.step = "failed"])
    /\ UNCHANGED stored

\* What the location has: how many tokens of the object.
Received(u) == IF stored[u] = NoBlob THEN 0 ELSE Len(stored[u].contents)

\* get_attachment_resume_info_cdn2 and _cdn3.
GetResumeInfo(u) ==
    /\ up[u].step = "resume"
    /\ SetUp(u, [up[u] EXCEPT !.step = "put", !.offset = Received(u)])
    /\ UNCHANGED stored

\* Mutant: the digest is that of the contents before they were padded.
BodyUnpadded(u) == SubSeq(up[u].contents, 1, up[u].size)

\* What is read through the DigestingReader, sent, and digested: CDN 2 takes the
\* whole contents, CDN 3 those from the offset on, or nothing is left to send
\* and all of them are only digested.
Body(u) ==
    IF up[u].cdn = 3 /\ up[u].offset # Len(up[u].contents)
      THEN SubSeq(up[u].contents, up[u].offset + 1, Len(up[u].contents))
      ELSE up[u].contents

\* upload_to_cdn2, upload_to_cdn3.  The CDN has stored the object, whether or not
\* the answer gets through.
PutObject(u, answered) ==
    /\ up[u].step = "put"
    /\ stored' = [stored EXCEPT ![u] = Encrypt(u, up[u].contents)]
    /\ SetUp(u, IF answered
                  THEN [up[u] EXCEPT !.step = "done", !.digest = Encrypt(u, Body(u))]
                  ELSE [up[u] EXCEPT !.step = "failed"])

\* Any request fails, or is refused (413 for the form): AttachmentUploadError.
UploadFails(u) ==
    /\ up[u].step \in {"form", "url", "resume", "put"}
    /\ SetUp(u, [up[u] EXCEPT !.step = "failed"])
    /\ UNCHANGED stored

\* The AttachmentPointer of a finished upload.
Pointer(u) == [key |-> u, size |-> up[u].size, digest |-> up[u].digest]

\* External: another client's upload, with the avatars its contacts announce.
ForeignUpload(u, contents) ==
    /\ SetUp(u, [NoUpload EXCEPT !.step = "foreign"])
    /\ stored' = [stored EXCEPT ![u] = Encrypt(u, contents)]

UploadStep(u) ==
    \/ \E cdn \in CdnNumbers : GetForm(u, cdn)
    \/ GetUploadUrl(u)
    \/ UnknownCdnVersion(u)
    \/ GetResumeInfo(u)
    \/ \E answered \in BOOLEAN : PutObject(u, answered)
    \/ UploadFails(u)

-----------------------------------------------------------------------------
(* Downloading, by another device *)

\* get_attachment.  A failure of any kind is ServiceError::Http: retrieve_contacts
\* looks for ServiceError::Timeout and so never tries again.
GetAttachment(u) ==
    /\ down[u].step = "idle"
    /\ stored[u] # NoBlob
    /\ SetDown(u, [down[u] EXCEPT !.step = "stream"])

GetAttachmentFails(u) ==
    /\ down[u].step = "idle"
    /\ SetDown(u, [down[u] EXCEPT !.step = "failed"])

\* Mutant: an announced avatar is not skipped.
ItemsWithAvatars(buf) ==
    LET next[i \in 1 .. Len(buf) + 1] ==
          IF i > Len(buf) \/ buf[i].is \in {"junk", "byte"} THEN <<>>
          ELSE <<buf[i].name>> \o next[i + 1]
    IN  next[1]

\* DeviceContactsIterator: a contact and the avatar it announces at a time.  A
\* zero is an empty ContactDetails, an error (MissingUuid); what does
\* not decode ends the iteration; an avatar longer than the rest panics.
Items(buf) ==
    LET next[i \in 1 .. Len(buf) + 1] ==
          IF i > Len(buf) \/ buf[i].is \in {"junk", "byte"} THEN <<>>
          ELSE IF i + buf[i].avatar > Len(buf) THEN <<"panic">>
          ELSE <<buf[i].name>> \o next[i + 1 + buf[i].avatar]
    IN  next[1]

\* The stream is read to its end and decrypted; both panic when they fail.
ReadContacts(u) ==
    /\ down[u].step = "stream"
    /\ Decrypts(u, stored[u])
    /\ SetDown(u, [step |-> "read", items |-> Items(stored[u].contents)])

StreamBreaks(u) ==
    /\ down[u].step = "stream"
    /\ SetDown(u, [down[u] EXCEPT !.step = "panic"])

DownloadStep(u) ==
    \/ GetAttachment(u)
    \/ GetAttachmentFails(u)
    \/ ReadContacts(u)
    \/ StreamBreaks(u)

-----------------------------------------------------------------------------
(* Properties *)

\* The contact at i is followed by the avatar it announces.
Brings(buf, i) ==
    /\ i + buf[i].avatar <= Len(buf)
    /\ \A j \in i + 1 .. i + buf[i].avatar : buf[j].is = "byte"

\* So are all contacts in front of i.
BroughtBefore(buf, i) == \A j \in Contacts(buf) : j < i => Brings(buf, j)

\* What retrieve_contacts yields for an uploaded list are its contacts in their
\* order, up to and including the first that announces an avatar it does not
\* bring; if there is none, all of them, followed by errors for the padding only.
ContactsArrive ==
    \A u \in Uploads : down[u].step = "read" =>
        LET buf == stored[u].contents
            items == down[u].items
        IN  /\ \A i \in Contacts(buf) :
                  BroughtBefore(buf, i) /\ i + buf[i].avatar <= Len(buf) =>
                     /\ Upto(buf, i) \in DOMAIN items
                     /\ items[Upto(buf, i)] = buf[i].name
            /\ (\A i \in Contacts(buf) : Brings(buf, i)) =>
                  \A k \in DOMAIN items :
                     k > Cardinality(Contacts(buf)) => items[k] = "MissingUuid"

\* "Upload contact details to the CDN and send a sync message": every contact that
\* was given to send_contact_details can be read from what it uploaded.
UploadedContactsArrive ==
    \A u \in Uploads : up[u].step = "done" /\ down[u].step = "read" =>
        \A i \in Contacts(stored[u].contents) :
            \E k \in DOMAIN down[u].items : down[u].items[k] = stored[u].contents[i].name
=============================================================================
