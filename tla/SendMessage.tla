----------------------------- MODULE SendMessage -----------------------------
(***************************************************************************)
(* What MessageSender's public operations make of try_send_message         *)
(* (src/src/sender.rs): a message to a recipient or to the members of a    *)
(* group, and the sync messages that tell this account's other devices.    *)
(*                                                                         *)
(* MessageSender is Clone: several calls run at once over one store, each  *)
(* a sequence of try_send_message calls with awaits between them.  What    *)
(* one of those does inside is the subject of module MessageSender; here   *)
(* it is one step with every outcome it can have.                          *)
(***************************************************************************)
EXTENDS Attachments

CONSTANTS Recipients,    \* ServiceIds of others
          Self,          \* local_aci
          OtherDevices,  \* devices that may be linked to this account
          Tasks,         \* the calls; their uploads bear their names
          Calls,         \* Calls[t]: what task t may be asked for
          MaxLinks       \* bound on changes of this account's devices

\* What callers may ask for: the arguments of the public operations, and in
\* place of a call another client's contact list.
Arguments == [op : {"message", "group", "receipt", "sync", "request", "contacts", "foreign"},
              to : Seq(Recipients \cup {Self}), content : {"data", "other", "sync", "none"},
              sealed : BOOLEAN, contacts : Seq(Token)]

ASSUME SendMessageAssumption ==
    /\ Tasks = Uploads
    /\ Self \notin Recipients
    /\ Brackets \subseteq Nat
    /\ Calls \in [Tasks -> SUBSET Arguments]
    /\ \A t \in Tasks : \A c \in Calls[t] : c.op \in {"message", "receipt"} => c.to # <<>>
    \* send_contact_details is given ContactDetails, other clients write avatars too
    /\ \A t \in Tasks : \A c \in Calls[t] :
          /\ ContactList(c.contacts)
          /\ c.op = "contacts" => Contacts(c.contacts) = DOMAIN c.contacts

VARIABLES primary,   \* device_id == DEFAULT_DEVICE_ID
          linked,    \* external: the account's other devices, the primary apart
          subs,      \* the other devices the store has sessions with
          links,     \* how often linked has changed
          call,      \* call[t]: the locals of t
          accepted   \* history: accepted[t], what the server took from t, in order

vars == <<attachmentVars, primary, linked, subs, links, call, accepted>>
accountVars == <<primary, linked, links>>

NoCall == [op |-> "none", to |-> <<>>, content |-> "none", sealed |-> FALSE,
           contacts |-> <<>>]

\* pc: the send that comes next; results: what try_send_message returned.
Idle == [arg |-> NoCall, pc |-> "idle", multi |-> FALSE, needs |-> FALSE,
         results |-> {}, todo |-> <<>>, ret |-> "none"]

Init ==
    /\ AttachmentInit
    /\ primary \in BOOLEAN
    /\ linked \in SUBSET OtherDevices
    /\ subs \in SUBSET linked
    /\ links = 0
    /\ call = [t \in Tasks |-> Idle]
    /\ accepted = [t \in Tasks |-> <<>>]

\* SentMessage, or an error.
Result == [to : Recipients \cup {Self}, ok : BOOLEAN, sealed : BOOLEAN]

TypeOK ==
    /\ primary \in BOOLEAN
    /\ subs \subseteq OtherDevices
    /\ links \in 0 .. MaxLinks
    /\ \A t \in Tasks :
          /\ call[t].pc \in {"idle", "note", "send", "sync", "member", "groupsync",
                             "receipt", "upload", "own", "done"}
          /\ call[t].results \subseteq Result
          /\ call[t].ret \in {"none", "Ok", "Err", "Dropped"}
          /\ call[t].pc = "done" <=> call[t].ret # "none"

\* is_multi_device
IsMultiDevice == primary => subs # {}

-----------------------------------------------------------------------------
(* try_send_message, one step *)

Message(to, kind, sealed, status) ==
    [to |-> to, kind |-> kind, sealed |-> sealed, status |-> status, others |-> FALSE]

\* The server can take a message for this account only if there is another
\* device to send it to, and the sender only tries if it has a session.
Reachable(m) == (m.to = Self /\ primary) => (subs # {} /\ linked # {})

\* The sessions with the other devices after a send to them: repaired, or left
\* half way.
Repaired(m) == IF m.to = Self THEN linked ELSE subs
HalfRepaired(m) == IF m.to = Self THEN SUBSET (subs \cup linked) ELSE {subs}

\* A sealed message may end up identified (401); only then does the server know
\* whose other devices need to be told.
Outcomes(m) ==
    {[ok |-> TRUE, arrived |-> TRUE, sealed |-> s, subs |-> Repaired(m),
      needs |-> ~s /\ m.to # Self /\ (primary => linked # {})] :
        s \in IF Reachable(m) THEN {FALSE, m.sealed} ELSE {}}
    \cup
    {[ok |-> FALSE, arrived |-> a, sealed |-> m.sealed, subs |-> S, needs |-> FALSE] :
        a \in {FALSE, Reachable(m)}, S \in HalfRepaired(m)}

\* The outcome o of sending m for t.
Sent(t, m, o) ==
    /\ subs' = o.subs
    /\ accepted' = IF o.arrived
         THEN [accepted EXCEPT ![t] =
                 Append(@, [m EXCEPT !.sealed = o.sealed,
                                     !.others = primary => linked # {}])]
         ELSE accepted
    /\ UNCHANGED <<attachmentVars, accountVars>>

ResultOf(m, o) == [to |-> m.to, ok |-> o.ok, sealed |-> o.sealed]

Set(t, locals) == call' = [call EXCEPT ![t] = locals]

Return(t, r) == Set(t, [call[t] EXCEPT !.pc = "done", !.ret = r])
OkOrErr(o) == IF o.ok THEN "Ok" ELSE "Err"
Quiet == UNCHANGED <<attachmentVars, accountVars, subs, accepted>>

\* Mutant: the transcript lists every recipient that was tried.
TriedTranscript(t) ==
    Message(Self, "transcript", FALSE, {[to |-> r.to, sealed |-> r.sealed] : r \in call[t].results})

\* create_multi_device_sent_transcript_content: data and edit messages only,
\* with the recipients that were reached.
Syncable(t) == call[t].arg.content = "data"
Transcript(t) ==
    Message(Self, "transcript", FALSE,
            {[to |-> r.to, sealed |-> r.sealed] : r \in {x \in call[t].results : x.ok}})

-----------------------------------------------------------------------------
(* send_message, send_message_request_response *)

\* send_message_request_response is send_message with a sync message, identified.
RequestResponse(p) == [NoCall EXCEPT !.op = "message", !.to = <<p>>, !.content = "sync"]

Recipient(t) == Head(call[t].arg.to)
IsSync(t) == call[t].arg.content = "sync"

\* is_multi_device is awaited once, at the start.
StartMessage(t, c) ==
    /\ call[t].pc = "idle"
    /\ c.op = "message"
    /\ Set(t, [Idle EXCEPT
                 !.arg = c, !.multi = IsMultiDevice,
                 !.pc = IF Head(c.to) = Self /\ IsMultiDevice /\ c.content # "sync"
                          THEN "note" ELSE "send"])
    /\ Quiet

\* A note to self is a transcript and nothing else.
NoteToSelf(t) ==
    /\ call[t].pc = "note"
    /\ IF Syncable(t)
         THEN \E o \in Outcomes(Transcript(t)) :
                 Sent(t, Transcript(t), o) /\ Return(t, OkOrErr(o))
         ELSE Return(t, "Err") /\ Quiet      \* NoMessagesToSend

\* Sync messages are never sent as unidentified.
Original(t) ==
    Message(Recipient(t), call[t].arg.content, call[t].arg.sealed /\ ~IsSync(t), {})

SendToRecipient(t) ==
    /\ call[t].pc = "send"
    /\ \E o \in Outcomes(Original(t)) :
          /\ Sent(t, Original(t), o)
          /\ Set(t, [call[t] EXCEPT !.pc = "sync", !.needs = o.needs,
                                    !.results = {ResultOf(Original(t), o)}])

SyncBody(t) == IF IsSync(t) THEN Message(Self, "sync", FALSE, {}) ELSE Transcript(t)
Delivered(t) == IF \A r \in call[t].results : r.ok THEN "Ok" ELSE "Err"

\* Mutant: the error of the sync message is only logged.
SyncOthersLogged(t) ==
    /\ call[t].pc = "sync"
    /\ IF (call[t].needs \/ call[t].multi) /\ (Syncable(t) \/ IsSync(t))
         THEN \E o \in Outcomes(SyncBody(t)) :
                 Sent(t, SyncBody(t), o) /\ Return(t, Delivered(t))
         ELSE Return(t, Delivered(t)) /\ Quiet

\* Mutant: a message that cannot be synced is an error.
SyncOthersStrict(t) ==
    /\ call[t].pc = "sync"
    /\ IF call[t].needs \/ call[t].multi
         THEN \E o \in Outcomes(SyncBody(t)) :
                 /\ Sent(t, SyncBody(t), o)
                 /\ Return(t, IF o.ok /\ (Syncable(t) \/ IsSync(t)) THEN Delivered(t) ELSE "Err")
         ELSE Return(t, Delivered(t)) /\ Quiet

\* The other devices are told, whether or not the recipient was reached; an
\* error here takes the place of the recipient's result.
SyncOthers(t) ==
    /\ call[t].pc = "sync"
    /\ IF (call[t].needs \/ call[t].multi) /\ (Syncable(t) \/ IsSync(t))
         THEN \E o \in Outcomes(SyncBody(t)) :
                 /\ Sent(t, SyncBody(t), o)
                 /\ Return(t, IF o.ok THEN Delivered(t) ELSE "Err")
         ELSE Return(t, Delivered(t)) /\ Quiet

-----------------------------------------------------------------------------
(* send_message_to_group *)

StartGroup(t, c) ==
    /\ call[t].pc = "idle"
    /\ c.op = "group"
    /\ Set(t, [Idle EXCEPT !.arg = c, !.todo = c.to, !.pc = "member"])
    /\ Quiet

ToMember(t) ==
    Message(Head(call[t].todo), call[t].arg.content, call[t].arg.sealed, {})

\* One member after the other; a failure is a result like any other.
SendToMember(t) ==
    /\ call[t].pc = "member"
    /\ call[t].todo # <<>>
    /\ \E o \in Outcomes(ToMember(t)) :
          /\ Sent(t, ToMember(t), o)
          /\ Set(t, [call[t] EXCEPT !.todo = Tail(@), !.needs = @ \/ o.needs,
                                    !.results = @ \cup {ResultOf(ToMember(t), o)}])

MembersDone(t) ==
    /\ call[t].pc = "member"
    /\ call[t].todo = <<>>
    /\ Set(t, [call[t] EXCEPT !.pc = "groupsync", !.multi = IsMultiDevice])
    /\ Quiet

\* One transcript for all; its result is not among the results.
SyncGroup(t) ==
    /\ call[t].pc = "groupsync"
    /\ IF (call[t].needs \/ call[t].multi) /\ Syncable(t)
         THEN \E o \in Outcomes(Transcript(t)) : Sent(t, Transcript(t), o)
         ELSE UNCHANGED <<attachmentVars, accountVars, subs, accepted>>
    /\ Return(t, "Ok")

-----------------------------------------------------------------------------
(* send_decryption_error_message, send_sync_message, send_sync_message_request *)
(* and send_contact_details                                                    *)

StartReceipt(t, c) ==
    /\ call[t].pc = "idle"
    /\ c.op = "receipt"
    /\ Set(t, [Idle EXCEPT !.arg = c, !.pc = "receipt"])
    /\ Quiet

\* The retry receipt: plaintext, identified, to nobody else.
Receipt(t) == Message(Recipient(t), "receipt", FALSE, {})
SendReceipt(t) ==
    /\ call[t].pc = "receipt"
    /\ \E o \in Outcomes(Receipt(t)) : Sent(t, Receipt(t), o) /\ Return(t, OkOrErr(o))

\* A primary device has nobody to ask: SendSyncMessageError.
StartSync(t, c) ==
    /\ call[t].pc = "idle"
    /\ c.op \in {"sync", "request"}
    /\ IF c.op = "request" /\ primary
         THEN Set(t, [Idle EXCEPT !.arg = c, !.pc = "done", !.ret = "Err"])
         ELSE Set(t, [Idle EXCEPT !.arg = c, !.pc = "own"])
    /\ Quiet

OwnSync(t) == Message(Self, IF call[t].arg.op = "contacts" THEN "contacts" ELSE "sync", FALSE, {})

\* send_sync_message
SendSync(t) ==
    /\ call[t].pc = "own"
    /\ IF IsMultiDevice
         THEN \E o \in Outcomes(OwnSync(t)) : Sent(t, OwnSync(t), o) /\ Return(t, OkOrErr(o))
         ELSE Return(t, "Ok") /\ Quiet

StartContacts(t, c, padded) ==
    /\ call[t].pc = "idle"
    /\ c.op = "contacts"
    /\ StartUpload(t, c.contacts, padded)
    /\ Set(t, [Idle EXCEPT !.arg = c, !.pc = "upload"])
    /\ UNCHANGED <<stored, accountVars, subs, accepted>>

\* External: a contact list of another client, in place of a call.
StartForeign(t, c) ==
    /\ call[t].pc = "idle"
    /\ c.op = "foreign"
    /\ ForeignUpload(t, c.contacts)
    /\ Set(t, [Idle EXCEPT !.arg = c, !.pc = "done", !.ret = "Ok"])
    /\ UNCHANGED <<accountVars, subs, accepted>>

\* Mutant: the sync message goes out while the upload is under way.
ContactsEagerly(t) ==
    /\ call[t].pc = "upload"
    /\ up[t].step \in {"put", "failed"}
    /\ IF up[t].step = "put" THEN Set(t, [call[t] EXCEPT !.pc = "own"]) ELSE Return(t, "Err")
    /\ Quiet

\* The pointer goes into the sync message once the upload is complete.
ContactsUploaded(t) ==
    /\ call[t].pc = "upload"
    /\ up[t].step \in {"done", "failed"}
    /\ IF up[t].step = "done" THEN Set(t, [call[t] EXCEPT !.pc = "own"]) ELSE Return(t, "Err")
    /\ Quiet

-----------------------------------------------------------------------------
(* Dropped calls, other devices *)

\* The caller drops the future between two of its sends.
Drop(t) ==
    /\ call[t].pc \notin {"idle", "done"}
    /\ Return(t, "Dropped")
    /\ Quiet

\* External: a device is linked or unlinked.
ChangeLinked(d) ==
    /\ links < MaxLinks
    /\ links' = links + 1
    /\ linked' = IF d \in linked THEN linked \ {d} ELSE linked \cup {d}
    /\ UNCHANGED <<attachmentVars, primary, subs, call, accepted>>

\* A prekey message of another device is decrypted: a session with it.
MeetDevice(d) ==
    /\ d \in linked \ subs
    /\ subs' = subs \cup {d}
    /\ UNCHANGED <<attachmentVars, accountVars, call, accepted>>

Unaffected == UNCHANGED <<accountVars, subs, call, accepted>>

\* A device is given the sync message, or another client's, and retrieves the list.
Announced(u) ==
    \/ up[u].step = "foreign"
    \/ \E i \in DOMAIN accepted[u] : accepted[u][i].kind = "contacts"

CallStep(t) ==
    \/ \E c \in Calls[t] : StartMessage(t, c) \/ StartGroup(t, c) \/ StartReceipt(t, c)
                             \/ StartSync(t, c) \/ StartForeign(t, c)
    \/ \E c \in Calls[t], p \in Brackets : StartContacts(t, c, p)
    \/ NoteToSelf(t)
    \/ SendToRecipient(t)
    \/ SyncOthers(t)
    \/ SendToMember(t)
    \/ MembersDone(t)
    \/ SyncGroup(t)
    \/ SendReceipt(t)
    \/ SendSync(t)
    \/ ContactsUploaded(t)
    \/ Drop(t)

Terminated ==
    /\ \A t \in Tasks : call[t].pc = "done"
    /\ UNCHANGED vars

Next ==
    \/ \E t \in Tasks : CallStep(t)
    \/ \E t \in Tasks : call[t].pc = "upload" /\ UploadStep(t) /\ Unaffected
    \/ \E u \in Uploads : Announced(u) /\ DownloadStep(u) /\ Unaffected
    \/ \E d \in OtherDevices : ChangeLinked(d) \/ MeetDevice(d)
    \/ Terminated

Spec == Init /\ [][Next]_vars

-----------------------------------------------------------------------------
(* Properties *)

Took(t, to, kinds) ==
    {i \in DOMAIN accepted[t] : accepted[t][i].to = to /\ accepted[t][i].kind \in kinds}
OwnKinds == {"transcript", "sync", "contacts"}

\* A transcript names the recipients of its message that were reached, all of
\* those whose send returned Ok, and sealed or not as they were reached
\* (sender.rs: create_multi_device_sent_transcript_content).
TranscriptIsTrue ==
    \A t \in Tasks : \A i \in Took(t, Self, {"transcript"}) :
        /\ \A s \in accepted[t][i].status :
              \E j \in DOMAIN accepted[t] :
                 j < i /\ accepted[t][j].to = s.to /\ accepted[t][j].sealed = s.sealed
        /\ \A r \in call[t].results :
              r.ok => [to |-> r.to, sealed |-> r.sealed] \in accepted[t][i].status

\* send_message that returns Ok has told the other devices, if the account had
\* any when the server took the message from a sender it could identify; also
\* if they were linked, or unlinked and linked, while the call ran.
NoSilentUnsynced ==
    \A t \in Tasks :
        /\ call[t].arg.op = "message" /\ call[t].ret = "Ok"
        /\ call[t].arg.content \in {"data", "sync"}
        /\ Recipient(t) # Self
        /\ \E i \in Took(t, Recipient(t), {"data", "sync"}) :
              ~accepted[t][i].sealed /\ accepted[t][i].others
        => Took(t, Self, OwnKinds) # {}

\* send_message fails only if the recipient was not reached, for all the sender
\* could know, or there were other devices to tell: "not getting a content body
\* to sync is not an error".
FailureIsReal ==
    \A t \in Tasks :
        call[t].arg.op = "message" /\ call[t].ret = "Err" =>
            \/ call[t].results = {}
            \/ \E r \in call[t].results : ~r.ok
            \/ (call[t].multi \/ call[t].needs) /\ call[t].arg.content \in {"data", "sync"}

\* What send_message returns is true: Ok when the other devices know, an error
\* when somebody was not reached.
ResultIsTrue == NoSilentUnsynced /\ FailureIsReal

\* The pointer upload_attachment returns describes the object the CDN has: its
\* digest, and a size that holds the contents without their padding.  A contacts
\* sync message that other devices get carries such a pointer.
PointersResolve ==
    /\ \A u \in Uploads : up[u].step = "done" =>
          /\ stored[u] = up[u].digest
          /\ up[u].size <= Len(stored[u].contents)
    /\ \A t \in Tasks : Took(t, Self, {"contacts"}) # {} => up[t].step = "done"
=============================================================================
