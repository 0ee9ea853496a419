------------------------- MODULE SendMessageProofs -------------------------
(***************************************************************************)
(* What send_message and its relatives tell, proved for any calls, any     *)
(* number of them at once, any recipients, groups, other devices and       *)
(* attachments: transcripts name who was reached, results are true, and    *)
(* pointers lead to what was uploaded.                                     *)
(***************************************************************************)
EXTENDS SendMessage, FiniteSetTheorems, NaturalsInduction, WellFoundedInduction, TLAPS

USE SendMessageAssumption

-----------------------------------------------------------------------------
(* The spaces of values *)

People == Recipients \cup {Self}
Status == [to : People, sealed : BOOLEAN]
Kinds == {"data", "other", "sync", "none", "transcript", "receipt", "contacts"}
Messages == [to : People, kind : Kinds, sealed : BOOLEAN, status : SUBSET Status,
             others : BOOLEAN]

Locals == [arg : [op : {"none", "message", "group", "receipt", "sync", "request",
                        "contacts", "foreign"},
                  to : Seq(People), content : {"data", "other", "sync", "none"},
                  sealed : BOOLEAN, contacts : Seq(Token)],
           pc : {"idle", "note", "send", "sync", "member", "groupsync", "receipt",
                 "upload", "own", "done"},
           multi : BOOLEAN, needs : BOOLEAN, results : SUBSET Result,
           todo : Seq(People), ret : {"none", "Ok", "Err", "Dropped"}]

\* What objects are made of: the tokens of contact lists, and padding.
Tokens == Token \cup {Other("zero")}
Objects == {NoBlob} \cup [key : Uploads, contents : Seq(Tokens)]
UploadLocals == [step : {"idle", "form", "url", "resume", "put", "done", "failed", "foreign"},
                 cdn : CdnNumbers \cup {0}, offset : Nat, size : Nat,
                 contents : Seq(Tokens), digest : Objects]

-----------------------------------------------------------------------------
(* The inductive invariant: one task's locals c, what the server took from it   *)
(* (acc), its upload u and the object at its location (obj)                     *)

\* Where a call is says what it was asked for and what it has sent so far.
Phase(c, acc) ==
    /\ c.pc = "idle" => c.arg.op = "none"
    /\ c.pc # "done" => c.ret = "none"
    /\ c.pc \in {"note", "send", "sync"} => c.arg.op = "message" /\ c.arg.to # <<>>
    /\ c.pc = "note" => Head(c.arg.to) = Self
    /\ c.pc \in {"member", "groupsync"} => c.arg.op = "group"
    /\ c.pc = "receipt" => c.arg.op = "receipt" /\ c.arg.to # <<>>
    /\ c.pc = "upload" => c.arg.op = "contacts"
    /\ c.pc = "own" => c.arg.op \in {"sync", "request", "contacts"}
    /\ c.pc \in {"idle", "note", "send", "receipt", "upload", "own"} =>
          acc = <<>> /\ c.results = {}

\* A result that is Ok is of a message that the server took, and took that way.
ResultsTrue(c, acc) ==
    \A r \in c.results : r.ok =>
        \E j \in DOMAIN acc : acc[j].to = r.to /\ acc[j].sealed = r.sealed

\* The transcript is the last thing a call sends.
TranscriptsTrue(c, acc) ==
    \A i \in DOMAIN acc : acc[i].kind = "transcript" =>
        /\ c.pc = "done"
        /\ \A s \in acc[i].status :
              \E j \in DOMAIN acc : j < i /\ acc[j].to = s.to /\ acc[j].sealed = s.sealed
        /\ \A r \in c.results :
              r.ok => [to |-> r.to, sealed |-> r.sealed] \in acc[i].status

\* The server took this call's message for somebody else, knew who sent it and
\* that the sender has other devices.
Unsynced(c, acc) ==
    /\ c.arg.op = "message" /\ c.arg.content \in {"data", "sync"}
    /\ Head(c.arg.to) # Self
    /\ \E i \in DOMAIN acc : /\ acc[i].to = Head(c.arg.to)
                             /\ acc[i].kind \in {"data", "sync"}
                             /\ ~acc[i].sealed /\ acc[i].others

Told(acc) == \E i \in DOMAIN acc :
                acc[i].to = Self /\ acc[i].kind \in {"transcript", "sync", "contacts"}

\* The sender that returned Ok knows of an unsynced message: needs_sync, in the
\* answer to it.
NeedsKnown(c, acc) ==
    c.pc = "sync" /\ Unsynced(c, acc) /\ (\A r \in c.results : r.ok) => c.needs

OkTrue(c, acc) == c.ret = "Ok" /\ Unsynced(c, acc) => Told(acc)
ErrTrue(c) ==
    c.arg.op = "message" /\ c.ret = "Err" =>
        \/ c.results = {}
        \/ \E r \in c.results : ~r.ok
        \/ (c.multi \/ c.needs) /\ c.arg.content \in {"data", "sync"}

\* The offset of an upload is that of a new location, so the body is all of it.
UploadTrue(t, u, obj) ==
    /\ u.step \in {"form", "url", "resume", "put", "done"} => u.size <= Len(u.contents)
    /\ u.step = "resume" => obj = NoBlob
    /\ u.step = "put" => u.offset = 0
    /\ u.step = "done" => obj = u.digest /\ obj = Encrypt(t, u.contents)

\* A contacts message goes out, as the last thing of its call, once its upload
\* is done.
ContactsTrue(c, acc, u) ==
    /\ c.pc = "own" /\ c.arg.op = "contacts" => u.step = "done"
    /\ \A i \in DOMAIN acc : acc[i].kind = "contacts" => c.pc = "done" /\ u.step = "done"

CallOK(c, acc, u) ==
    /\ c \in Locals /\ acc \in Seq(Messages)
    /\ Phase(c, acc) /\ ResultsTrue(c, acc) /\ TranscriptsTrue(c, acc)
    /\ NeedsKnown(c, acc) /\ OkTrue(c, acc) /\ ErrTrue(c)
    /\ ContactsTrue(c, acc, u)

UploadOK(t, u, obj) == u \in UploadLocals /\ obj \in Objects /\ UploadTrue(t, u, obj)

Shapes == /\ call = [t \in Tasks |-> call[t]]
          /\ accepted = [t \in Tasks |-> accepted[t]]
          /\ up = [t \in Tasks |-> up[t]]
          /\ stored = [t \in Tasks |-> stored[t]]

SendInv == /\ Shapes
           /\ \A t \in Tasks : /\ CallOK(call[t], accepted[t], up[t])
                               /\ UploadOK(t, up[t], stored[t])

-----------------------------------------------------------------------------
(* Steps of one task *)

\* A call's step that leaves the uploads alone.
LEMMA CallKeeps ==
    ASSUME SendInv, NEW t \in Tasks, NEW c, NEW acc,
           call' = [call EXCEPT ![t] = c],
           accepted' = [accepted EXCEPT ![t] = acc],
           up' = up, stored' = stored,
           CallOK(c, acc, up[t])
    PROVE  SendInv'
<1>1. Shapes'
  BY DEF SendInv, Shapes
<1>2. ASSUME NEW s \in Tasks
      PROVE  CallOK(call'[s], accepted'[s], up'[s]) /\ UploadOK(s, up'[s], stored'[s])
  <2>1. CASE s = t
    BY <2>1 DEF SendInv, Shapes
  <2>2. CASE s # t
    <3>1. call'[s] = call[s] /\ accepted'[s] = accepted[s]
      BY <2>2 DEF SendInv, Shapes
    <3> QED
      BY <3>1 DEF SendInv
  <2> QED
    BY <2>1, <2>2
<1> QED
  BY <1>1, <1>2 DEF SendInv

\* A step of an upload, or the start of one.
LEMMA UploadKeeps ==
    ASSUME SendInv, NEW t \in Tasks, NEW c, NEW u, NEW obj,
           call' = [call EXCEPT ![t] = c], accepted' = accepted,
           up' = [up EXCEPT ![t] = u],
           stored' = [stored EXCEPT ![t] = obj],
           CallOK(c, accepted[t], u), UploadOK(t, u, obj)
    PROVE  SendInv'
<1>1. Shapes'
  BY DEF SendInv, Shapes
<1>2. ASSUME NEW s \in Tasks
      PROVE  CallOK(call'[s], accepted'[s], up'[s]) /\ UploadOK(s, up'[s], stored'[s])
  <2>1. CASE s = t
    BY <2>1 DEF SendInv, Shapes
  <2>2. CASE s # t
    <3>1. call'[s] = call[s] /\ up'[s] = up[s] /\ stored'[s] = stored[s]
      BY <2>2 DEF SendInv, Shapes
    <3> QED
      BY <3>1 DEF SendInv
  <2> QED
    BY <2>1, <2>2
<1> QED
  BY <1>1, <1>2 DEF SendInv

-----------------------------------------------------------------------------
(* try_send_message *)

\* What the outcomes of a send have in common.
LEMMA OutcomeFacts ==
    ASSUME NEW m \in Messages, NEW o \in Outcomes(m)
    PROVE  /\ o.ok \in BOOLEAN /\ o.arrived \in BOOLEAN /\ o.sealed \in BOOLEAN
           /\ o.needs \in BOOLEAN
           /\ o.ok => o.arrived
           /\ o.ok /\ ~o.sealed /\ m.to # Self /\ (primary => linked # {}) => o.needs
<1> DEFINE good == {[ok |-> TRUE, arrived |-> TRUE, sealed |-> s, subs |-> Repaired(m),
                     needs |-> ~s /\ m.to # Self /\ (primary => linked # {})] :
                        s \in IF Reachable(m) THEN {FALSE, m.sealed} ELSE {}}
           bad == {[ok |-> FALSE, arrived |-> a, sealed |-> m.sealed, subs |-> S,
                    needs |-> FALSE] :
                        a \in {FALSE, Reachable(m)}, S \in HalfRepaired(m)}
<1>1. m.sealed \in BOOLEAN /\ Reachable(m) \in BOOLEAN
  BY DEF Messages, Reachable
<1>2. o \in good \/ o \in bad
  <2>1. Outcomes(m) = good \cup bad
    BY DEF Outcomes
  <2> HIDE DEF good, bad
  <2> QED
    BY <2>1
<1>3. CASE o \in good
  <2>1. PICK s \in IF Reachable(m) THEN {FALSE, m.sealed} ELSE {} :
          o = [ok |-> TRUE, arrived |-> TRUE, sealed |-> s, subs |-> Repaired(m),
               needs |-> ~s /\ m.to # Self /\ (primary => linked # {})]
    BY <1>3
  <2>2. s \in BOOLEAN
    BY <1>1
  <2>3. /\ o.ok = TRUE /\ o.arrived = TRUE /\ o.sealed = s
        /\ o.needs = (~s /\ m.to # Self /\ (primary => linked # {}))
    BY <2>1
  <2> QED
    BY <2>2, <2>3
<1>4. CASE o \in bad
  <2>1. PICK a \in {FALSE, Reachable(m)}, S \in HalfRepaired(m) :
          o = [ok |-> FALSE, arrived |-> a, sealed |-> m.sealed, subs |-> S, needs |-> FALSE]
    BY <1>4
  <2> QED
    BY <1>1, <2>1
<1> HIDE DEF good, bad
<1> QED
  BY <1>2, <1>3, <1>4

\* What the history of t is after a send, acc: longer by the message as it was
\* taken, k, if it was.
Recorded(t, m, o, acc, k) ==
    /\ accepted' = [accepted EXCEPT ![t] = acc]
    /\ acc = IF o.arrived THEN Append(accepted[t], k) ELSE accepted[t]
    /\ k \in Messages
    /\ k.to = m.to /\ k.kind = m.kind /\ k.status = m.status
    /\ k.sealed = o.sealed /\ k.others = (primary => linked # {})

\* One try_send_content records at most what it sent.
LEMMA SentFacts ==
    ASSUME SendInv, NEW t \in Tasks, NEW m \in Messages, NEW o \in Outcomes(m), Sent(t, m, o)
    PROVE  /\ up' = up /\ stored' = stored
           /\ \E acc, k : Recorded(t, m, o, acc, k)
<1>1. up' = up /\ stored' = stored
  BY DEF Sent, attachmentVars
<1>2. PICK k : k = [m EXCEPT !.sealed = o.sealed, !.others = primary => linked # {}]
  OBVIOUS
<1>3. o.sealed \in BOOLEAN /\ o.arrived \in BOOLEAN
  BY OutcomeFacts
<1>4. /\ k \in Messages
      /\ k.to = m.to /\ k.kind = m.kind /\ k.status = m.status
      /\ k.sealed = o.sealed /\ k.others = (primary => linked # {})
  BY <1>2, <1>3 DEF Messages
<1>5. PICK acc : acc = IF o.arrived THEN Append(accepted[t], k) ELSE accepted[t]
  OBVIOUS
<1>6. accepted' = [accepted EXCEPT ![t] = acc]
  <2>1. CASE o.arrived
    BY <1>2, <1>5, <2>1 DEF Sent
  <2>2. CASE ~o.arrived
    BY <1>5, <2>2 DEF Sent, SendInv, Shapes
  <2> QED
    BY <2>1, <2>2
<1>7. Recorded(t, m, o, acc, k)
  BY <1>4, <1>5, <1>6 DEF Recorded
<1> QED
  BY <1>1, <1>7

-----------------------------------------------------------------------------
(* Histories and locals *)

\* What an appended sequence holds, and where.
LEMMA AppendFacts ==
    ASSUME NEW acc \in Seq(Messages), NEW k \in Messages
    PROVE  /\ Append(acc, k) \in Seq(Messages)
           /\ Len(acc) + 1 \in DOMAIN Append(acc, k)
           /\ Append(acc, k)[Len(acc) + 1] = k
           /\ \A i \in DOMAIN acc : /\ i \in DOMAIN Append(acc, k)
                                    /\ Append(acc, k)[i] = acc[i]
                                    /\ i < Len(acc) + 1
           /\ \A i \in DOMAIN Append(acc, k) : i \in DOMAIN acc \/ i = Len(acc) + 1
  OBVIOUS

\* A call that has sent nothing yet.
LEMMA FreshOK ==
    ASSUME NEW c \in Locals, NEW acc, NEW u, acc = <<>>, c.results = {},
           Phase(c, acc), c.pc = "own" /\ c.arg.op = "contacts" => u.step = "done"
    PROVE  CallOK(c, acc, u)
<1>1. acc \in Seq(Messages) /\ DOMAIN acc = {}
  OBVIOUS
<1>2. ~Unsynced(c, acc)
  BY <1>1 DEF Unsynced
<1> QED
  BY <1>1, <1>2 DEF CallOK, ResultsTrue, TranscriptsTrue, NeedsKnown, OkTrue, ErrTrue,
                    ContactsTrue

\* The history after a call's last send: longer by one message or not.  If it is a
\* transcript it lists the results that are Ok, if it is a contact list the
\* upload is done.
LastSend(old, acc, new, u) ==
    \/ new = acc
    \/ \E k \in Messages :
          /\ new = Append(acc, k)
          /\ k.kind = "transcript" =>
                k.status = {[to |-> r.to, sealed |-> r.sealed] : r \in {x \in old.results : x.ok}}
          /\ k.kind = "contacts" => u.step = "done"

\* A call that returns.
LEMMA DoneOK ==
    ASSUME NEW old, NEW acc, NEW u, CallOK(old, acc, u), old.pc # "done",
           NEW r \in {"Ok", "Err", "Dropped"},
           NEW c, c = [old EXCEPT !.pc = "done", !.ret = r],
           NEW new, LastSend(old, acc, new, u), OkTrue(c, new), ErrTrue(c)
    PROVE  CallOK(c, new, u)
<1>1. old \in Locals /\ acc \in Seq(Messages)
  BY DEF CallOK
<1>2. /\ c \in Locals /\ c.pc = "done" /\ c.ret = r /\ c.results = old.results
      /\ c.arg = old.arg
  BY <1>1 DEF Locals
<1>3. Phase(c, new)
  BY <1>2 DEF Phase
<1>4. NeedsKnown(c, new)
  BY <1>2 DEF NeedsKnown
<1>5. CASE new = acc
  <2>1. ResultsTrue(c, new)
    BY <1>2, <1>5 DEF CallOK, ResultsTrue
  <2>2. TranscriptsTrue(c, new)
    BY <1>5 DEF CallOK, TranscriptsTrue
  <2>3. ContactsTrue(c, new, u)
    BY <1>2, <1>5 DEF CallOK, ContactsTrue
  <2> QED
    BY <1>1, <1>2, <1>3, <1>4, <1>5, <2>1, <2>2, <2>3 DEF CallOK
<1>6. ASSUME NEW k \in Messages, new = Append(acc, k),
             k.kind = "transcript" =>
               k.status = {[to |-> x.to, sealed |-> x.sealed] : x \in {y \in old.results : y.ok}},
             k.kind = "contacts" => u.step = "done"
      PROVE  CallOK(c, new, u)
  <2> DEFINE n == Len(acc) + 1
  <2>1. /\ new \in Seq(Messages)
        /\ n \in DOMAIN new /\ new[n] = k
        /\ \A i \in DOMAIN acc : i \in DOMAIN new /\ new[i] = acc[i] /\ i < n
        /\ \A i \in DOMAIN new : i \in DOMAIN acc \/ i = n
    BY <1>1, <1>6, AppendFacts
  <2> HIDE DEF n
  <2>2. ResultsTrue(c, new)
    <3> SUFFICES ASSUME NEW x \in old.results, x.ok
                 PROVE  \E j \in DOMAIN new : new[j].to = x.to /\ new[j].sealed = x.sealed
      BY <1>2 DEF ResultsTrue
    <3>1. PICK j \in DOMAIN acc : acc[j].to = x.to /\ acc[j].sealed = x.sealed
      BY DEF CallOK, ResultsTrue
    <3> QED
      BY <2>1, <3>1
  <2>3. TranscriptsTrue(c, new)
    <3> SUFFICES ASSUME NEW i \in DOMAIN new, new[i].kind = "transcript"
                 PROVE  /\ \A s \in new[i].status :
                              \E j \in DOMAIN new : /\ j < i /\ new[j].to = s.to
                                                    /\ new[j].sealed = s.sealed
                        /\ \A x \in old.results :
                              x.ok => [to |-> x.to, sealed |-> x.sealed] \in new[i].status
      BY <1>2 DEF TranscriptsTrue
    <3>1. i = n
      BY <2>1 DEF CallOK, TranscriptsTrue
    <3>2. new[i].status =
            {[to |-> x.to, sealed |-> x.sealed] : x \in {y \in old.results : y.ok}}
      BY <1>6, <2>1, <3>1
    <3>3. ASSUME NEW s \in new[i].status
          PROVE  \E j \in DOMAIN new : j < i /\ new[j].to = s.to /\ new[j].sealed = s.sealed
      <4>1. PICK x \in old.results : x.ok /\ s = [to |-> x.to, sealed |-> x.sealed]
        BY <3>2
      <4>2. s.to = x.to /\ s.sealed = x.sealed
        BY <4>1
      <4>3. PICK j \in DOMAIN acc : acc[j].to = x.to /\ acc[j].sealed = x.sealed
        BY <4>1 DEF CallOK, ResultsTrue
      <4> QED
        BY <2>1, <3>1, <4>2, <4>3
    <3>4. ASSUME NEW x \in old.results, x.ok
          PROVE  [to |-> x.to, sealed |-> x.sealed] \in new[i].status
      BY <3>2, <3>4
    <3> QED
      BY <3>3, <3>4
  <2>4. ContactsTrue(c, new, u)
    BY <1>2, <1>6, <2>1 DEF CallOK, ContactsTrue
  <2> QED
    BY <1>2, <1>3, <1>4, <2>1, <2>2, <2>3, <2>4 DEF CallOK
<1> QED
  BY <1>5, <1>6 DEF LastSend

-----------------------------------------------------------------------------
(* The steps *)

\* A step of a call that sends nothing.
LEMMA QuietKeeps ==
    ASSUME SendInv, NEW t \in Tasks, NEW c, Set(t, c), Quiet, CallOK(c, accepted[t], up[t])
    PROVE  SendInv'
<1>1. /\ call' = [call EXCEPT ![t] = c] /\ accepted' = accepted
      /\ up' = up /\ stored' = stored
  BY DEF Set, Quiet, attachmentVars
<1>2. accepted' = [accepted EXCEPT ![t] = accepted[t]]
  BY <1>1 DEF SendInv, Shapes
<1> QED
  BY <1>1, <1>2, CallKeeps

\* A call returns without sending.
LEMMA QuietReturn ==
    ASSUME SendInv, NEW t \in Tasks, call[t].pc # "done",
           NEW r \in {"Ok", "Err", "Dropped"}, Return(t, r), Quiet,
           OkTrue([call[t] EXCEPT !.pc = "done", !.ret = r], accepted[t]),
           ErrTrue([call[t] EXCEPT !.pc = "done", !.ret = r])
    PROVE  SendInv'
<1>1. PICK c : c = [call[t] EXCEPT !.pc = "done", !.ret = r]
  OBVIOUS
<1>2. CallOK(c, accepted[t], up[t])
  <2>1. LastSend(call[t], accepted[t], accepted[t], up[t])
    BY DEF LastSend
  <2>2. CallOK(call[t], accepted[t], up[t])
    BY DEF SendInv
  <2> QED
    BY <1>1, <2>1, <2>2, DoneOK
<1> QED
  BY <1>1, <1>2, QuietKeeps DEF Return

\* The result r of t is true once the send of m has had outcome o.
Justified(t, m, o, r) ==
    LET c == [call[t] EXCEPT !.pc = "done", !.ret = r] IN
    /\ ErrTrue(c)
    /\ \A k \in Messages :
          /\ k.to = m.to /\ k.kind = m.kind
          /\ k.sealed = o.sealed /\ k.others = (primary => linked # {})
          => OkTrue(c, IF o.arrived THEN Append(accepted[t], k) ELSE accepted[t])

\* A call returns after the last of its sends.
LEMMA SendReturn ==
    ASSUME SendInv, NEW t \in Tasks, call[t].pc # "done", NEW m \in Messages,
           NEW o \in Outcomes(m), Sent(t, m, o),
           NEW r \in {"Ok", "Err", "Dropped"}, Return(t, r),
           m.kind = "transcript" => m = Transcript(t),
           m.kind = "contacts" => up[t].step = "done",
           Justified(t, m, o, r)
    PROVE  SendInv'
<1>1. PICK c : c = [call[t] EXCEPT !.pc = "done", !.ret = r]
  OBVIOUS
<1>2. PICK acc, k : Recorded(t, m, o, acc, k)
  BY SentFacts
<1>3. up' = up /\ stored' = stored
  BY SentFacts
<1>4. OkTrue(c, acc) /\ ErrTrue(c)
  BY <1>1, <1>2 DEF Recorded, Justified
<1>5. LastSend(call[t], accepted[t], acc, up[t])
  <2>1. CASE ~o.arrived
    BY <1>2, <2>1 DEF LastSend, Recorded
  <2>2. CASE o.arrived
    <3>1. k.kind = "transcript" =>
            k.status = {[to |-> x.to, sealed |-> x.sealed] : x \in {y \in call[t].results : y.ok}}
      BY <1>2 DEF Transcript, Message, Recorded
    <3> QED
      BY <1>2, <2>2, <3>1 DEF LastSend, Recorded
  <2> QED
    BY <2>1, <2>2
<1>6. CallOK(c, acc, up[t])
  <2>1. CallOK(call[t], accepted[t], up[t])
    BY DEF SendInv
  <2> QED
    BY <1>1, <1>4, <1>5, <2>1, DoneOK
<1>7. call' = [call EXCEPT ![t] = c]
  BY <1>1 DEF Return, Set
<1> QED
  BY <1>2, <1>3, <1>6, <1>7, CallKeeps DEF Recorded

\* A transcript is a message to the own account.
LEMMA TranscriptType ==
    ASSUME SendInv, NEW t \in Tasks
    PROVE  /\ Transcript(t) \in Messages
           /\ Transcript(t).to = Self /\ Transcript(t).kind = "transcript"
<1> DEFINE st == {[to |-> r.to, sealed |-> r.sealed] : r \in {x \in call[t].results : x.ok}}
<1>1. call[t].results \subseteq Result
  BY DEF SendInv, CallOK, Locals
<1>2. st \in SUBSET Status
  BY <1>1 DEF Result, Status, People
<1>4. Transcript(t) = Message(Self, "transcript", FALSE, st)
  BY DEF Transcript
<1> HIDE DEF st
<1> QED
  BY <1>2, <1>4 DEF Message, Messages, Kinds, People

\* A call begins.
LEMMA StartKeeps ==
    ASSUME SendInv, NEW t \in Tasks, NEW a \in Calls[t],
           StartMessage(t, a) \/ StartGroup(t, a) \/ StartReceipt(t, a) \/ StartSync(t, a)
    PROVE  SendInv'
<1>1. /\ call[t].pc = "idle" /\ Quiet
      /\ \E c : Set(t, c) /\ c \in Locals /\ c.results = {} /\ Phase(c, <<>>)
               /\ ~(c.pc = "own" /\ c.arg.op = "contacts")
  <2>1. a \in Arguments /\ (a.op \in {"message", "receipt"} => a.to # <<>>)
    OBVIOUS
  <2>2. a \in [op : {"none", "message", "group", "receipt", "sync", "request",
                     "contacts", "foreign"},
               to : Seq(People), content : {"data", "other", "sync", "none"},
               sealed : BOOLEAN, contacts : Seq(Token)]
    BY <2>1 DEF Arguments, People
  <2>3. IsMultiDevice \in BOOLEAN /\ <<>> \in Seq(People)
    BY DEF IsMultiDevice
  <2>4. CASE StartMessage(t, a)
    <3>1. PICK c : c = [Idle EXCEPT !.arg = a, !.multi = IsMultiDevice,
                          !.pc = IF Head(a.to) = Self /\ IsMultiDevice /\ a.content # "sync"
                                   THEN "note" ELSE "send"]
      OBVIOUS
    <3>2. c \in Locals
      BY <2>2, <2>3, <3>1 DEF Locals, Idle, Result
    <3>3. /\ c.arg = a /\ c.pc \in {"note", "send"} /\ c.ret = "none" /\ c.results = {}
          /\ c.pc = "note" => Head(a.to) = Self
      BY <3>1 DEF Idle
    <3>4. Phase(c, <<>>)
      BY <2>1, <2>4, <3>3 DEF Phase, StartMessage
    <3> QED
      BY <2>4, <3>1, <3>2, <3>3, <3>4 DEF StartMessage
  <2>5. CASE StartGroup(t, a)
    <3>1. PICK c : c = [Idle EXCEPT !.arg = a, !.todo = a.to, !.pc = "member"]
      OBVIOUS
    <3>2. c \in Locals
      BY <2>2, <2>3, <3>1 DEF Locals, Idle, Result
    <3>3. c.arg = a /\ c.pc = "member" /\ c.ret = "none" /\ c.results = {}
      BY <3>1 DEF Idle
    <3>4. Phase(c, <<>>)
      BY <2>1, <2>5, <3>3 DEF Phase, StartGroup
    <3> QED
      BY <2>5, <3>1, <3>2, <3>3, <3>4 DEF StartGroup
  <2>6. CASE StartReceipt(t, a)
    <3>1. PICK c : c = [Idle EXCEPT !.arg = a, !.pc = "receipt"]
      OBVIOUS
    <3>2. c \in Locals
      BY <2>2, <2>3, <3>1 DEF Locals, Idle, Result
    <3>3. c.arg = a /\ c.pc = "receipt" /\ c.ret = "none" /\ c.results = {}
      BY <3>1 DEF Idle
    <3>4. Phase(c, <<>>)
      BY <2>1, <2>6, <3>3 DEF Phase, StartReceipt
    <3> QED
      BY <2>6, <3>1, <3>2, <3>3, <3>4 DEF StartReceipt
  <2>7. CASE StartSync(t, a)
    <3>1. PICK c : c = IF a.op = "request" /\ primary
                         THEN [Idle EXCEPT !.arg = a, !.pc = "done", !.ret = "Err"]
                         ELSE [Idle EXCEPT !.arg = a, !.pc = "own"]
      OBVIOUS
    <3>2. c \in Locals
      BY <2>2, <2>3, <3>1 DEF Locals, Idle, Result
    <3>3. /\ c.arg = a /\ c.pc \in {"done", "own"} /\ c.results = {}
          /\ c.pc = "own" => c.ret = "none"
      BY <3>1 DEF Idle
    <3>4. Phase(c, <<>>)
      BY <2>1, <2>7, <3>3 DEF Phase, StartSync
    <3>5. Set(t, c)
      BY <2>7, <3>1 DEF StartSync
    <3> QED
      BY <2>7, <3>2, <3>3, <3>4, <3>5 DEF StartSync
  <2> QED
    BY <2>4, <2>5, <2>6, <2>7
<1>2. accepted[t] = <<>>
  BY <1>1 DEF SendInv, CallOK, Phase
<1> QED
  BY <1>1, <1>2, FreshOK, QuietKeeps

\* The facts about a call that its steps start from.
LEMMA CallFacts ==
    ASSUME SendInv, NEW t \in Tasks
    PROVE  /\ call[t] \in Locals /\ accepted[t] \in Seq(Messages)
           /\ Phase(call[t], accepted[t]) /\ ResultsTrue(call[t], accepted[t])
           /\ TranscriptsTrue(call[t], accepted[t])
           /\ NeedsKnown(call[t], accepted[t]) /\ OkTrue(call[t], accepted[t])
           /\ ErrTrue(call[t]) /\ ContactsTrue(call[t], accepted[t], up[t])
  BY DEF SendInv, CallOK

\* The locals of a call that has returned.
LEMMA ReturnedFacts ==
    ASSUME SendInv, NEW t \in Tasks, NEW r
    PROVE  LET c == [call[t] EXCEPT !.pc = "done", !.ret = r] IN
           /\ c.arg = call[t].arg /\ c.results = call[t].results
           /\ c.multi = call[t].multi /\ c.needs = call[t].needs
           /\ c.pc = "done" /\ c.ret = r
  BY CallFacts DEF Locals

\* Only a send_message can be unsynced or fail for want of a sync.
LEMMA OtherResults ==
    ASSUME SendInv, NEW t \in Tasks, NEW r, call[t].arg.op # "message"
    PROVE  LET c == [call[t] EXCEPT !.pc = "done", !.ret = r] IN
           ErrTrue(c) /\ \A acc : OkTrue(c, acc)
  BY ReturnedFacts DEF ErrTrue, OkTrue, Unsynced

\* Only send_message has a transcript to justify.
LEMMA OtherJustified ==
    ASSUME SendInv, NEW t \in Tasks, NEW m, NEW o, NEW r, call[t].arg.op # "message"
    PROVE  Justified(t, m, o, r)
  BY OtherResults DEF Justified

\* What a send returns.
LEMMA OkOrErrType == \A o : OkOrErr(o) \in {"Ok", "Err", "Dropped"}
  BY DEF OkOrErr

\* A note to self is sent.
LEMMA NoteKeeps ==
    ASSUME SendInv, NEW t \in Tasks, NoteToSelf(t)
    PROVE  SendInv'
<1>1. call[t].pc = "note" /\ Head(call[t].arg.to) = Self /\ call[t].results = {}
  BY CallFacts DEF NoteToSelf, Phase
<1>2. ASSUME NEW r
      PROVE  LET c == [call[t] EXCEPT !.pc = "done", !.ret = r] IN
             ErrTrue(c) /\ \A acc : OkTrue(c, acc)
  BY <1>1, ReturnedFacts DEF ErrTrue, OkTrue, Unsynced
<1>3. CASE Syncable(t)
  <2>1. PICK o \in Outcomes(Transcript(t)) :
          Sent(t, Transcript(t), o) /\ Return(t, OkOrErr(o))
    BY <1>3 DEF NoteToSelf
  <2>2. PICK r \in {"Ok", "Err", "Dropped"} : r = OkOrErr(o)
    BY OkOrErrType
  <2>3. PICK m : m = Transcript(t)
    OBVIOUS
  <2>4. m \in Messages /\ m.kind = "transcript"
    BY <2>3, TranscriptType
  <2>5. Justified(t, m, o, r)
    BY <1>2 DEF Justified
  <2> QED
    BY <1>1, <2>1, <2>2, <2>3, <2>4, <2>5, SendReturn
<1>4. CASE ~Syncable(t)
  BY <1>1, <1>2, <1>4, QuietReturn DEF NoteToSelf
<1> QED
  BY <1>3, <1>4

\* A receipt is sent.
LEMMA ReceiptKeeps ==
    ASSUME SendInv, NEW t \in Tasks, SendReceipt(t)
    PROVE  SendInv'
<1>1. /\ call[t].pc = "receipt" /\ call[t].arg.op = "receipt"
      /\ call[t].arg.to # <<>> /\ call[t].arg.to \in Seq(People)
  BY CallFacts DEF SendReceipt, Phase, Locals
<1>2. PICK o \in Outcomes(Receipt(t)) : Sent(t, Receipt(t), o) /\ Return(t, OkOrErr(o))
  BY DEF SendReceipt
<1>3. PICK r \in {"Ok", "Err", "Dropped"} : r = OkOrErr(o)
  BY OkOrErrType
<1>4. PICK m : m = Receipt(t)
  OBVIOUS
<1>5. m \in Messages /\ m.kind = "receipt"
  <2>1. Recipient(t) \in People
    BY <1>1 DEF Recipient
  <2> QED
    BY <1>4, <2>1 DEF Receipt, Message, Messages, Kinds
<1> QED
  BY <1>1, <1>2, <1>3, <1>4, <1>5, OtherJustified, SendReturn

\* A sync message is sent.
LEMMA SendSyncKeeps ==
    ASSUME SendInv, NEW t \in Tasks, SendSync(t)
    PROVE  SendInv'
<1>1. /\ call[t].pc = "own" /\ call[t].arg.op # "message"
      /\ call[t].arg.op = "contacts" => up[t].step = "done"
  BY CallFacts DEF SendSync, Phase, ContactsTrue
<1>2. CASE IsMultiDevice
  <2>1. PICK o \in Outcomes(OwnSync(t)) : Sent(t, OwnSync(t), o) /\ Return(t, OkOrErr(o))
    BY <1>2 DEF SendSync
  <2>2. PICK r \in {"Ok", "Err", "Dropped"} : r = OkOrErr(o)
    BY OkOrErrType
  <2>3. PICK m : m = OwnSync(t)
    OBVIOUS
  <2>4. /\ m \in Messages /\ m.kind \in {"contacts", "sync"}
        /\ m.kind = "contacts" => call[t].arg.op = "contacts"
    BY <2>3 DEF OwnSync, Message, Messages, Kinds, People
  <2> QED
    BY <1>1, <2>1, <2>2, <2>3, <2>4, OtherJustified, SendReturn
<1>3. CASE ~IsMultiDevice
  BY <1>1, <1>3, OtherResults, QuietReturn DEF SendSync
<1> QED
  BY <1>2, <1>3

\* The transcript of a group message is sent.
LEMMA SyncGroupKeeps ==
    ASSUME SendInv, NEW t \in Tasks, SyncGroup(t)
    PROVE  SendInv'
<1>1. call[t].pc = "groupsync" /\ call[t].arg.op # "message" /\ Return(t, "Ok")
  BY CallFacts DEF SyncGroup, Phase
<1>2. CASE (call[t].needs \/ call[t].multi) /\ Syncable(t)
  <2>1. PICK o \in Outcomes(Transcript(t)) : Sent(t, Transcript(t), o)
    BY <1>2 DEF SyncGroup
  <2>2. PICK m : m = Transcript(t)
    OBVIOUS
  <2>3. m \in Messages /\ m.kind = "transcript"
    BY <2>2, TranscriptType
  <2> QED
    BY <1>1, <2>1, <2>2, <2>3, OtherJustified, SendReturn
<1>3. CASE ~((call[t].needs \/ call[t].multi) /\ Syncable(t))
  <2>1. Quiet
    BY <1>3 DEF SyncGroup, Quiet
  <2> QED
    BY <1>1, <2>1, OtherResults, QuietReturn
<1> QED
  BY <1>2, <1>3

\* A call is dropped.
LEMMA DropKeeps ==
    ASSUME SendInv, NEW t \in Tasks, Drop(t)
    PROVE  SendInv'
<1>1. call[t].pc # "done" /\ Return(t, "Dropped") /\ Quiet
  BY DEF Drop
<1>2. LET c == [call[t] EXCEPT !.pc = "done", !.ret = "Dropped"] IN
      ErrTrue(c) /\ OkTrue(c, accepted[t])
  BY ReturnedFacts DEF ErrTrue, OkTrue
<1> QED
  BY <1>1, <1>2, QuietReturn

\* send_message sends to its recipient.
LEMMA SendToRecipientKeeps ==
    ASSUME SendInv, NEW t \in Tasks, SendToRecipient(t)
    PROVE  SendInv'
<1>1. /\ call[t] \in Locals /\ call[t].pc = "send" /\ call[t].arg.op = "message"
      /\ call[t].arg.to # <<>> /\ call[t].arg.to \in Seq(People)
      /\ accepted[t] = <<>> /\ call[t].ret = "none"
      /\ call[t].arg.content \in {"data", "other", "sync", "none"}
      /\ call[t].arg.sealed \in BOOLEAN
  BY CallFacts DEF SendToRecipient, Phase, Locals
<1>2. PICK o \in Outcomes(Original(t)) :
        /\ Sent(t, Original(t), o)
        /\ Set(t, [call[t] EXCEPT !.pc = "sync", !.needs = o.needs,
                                  !.results = {ResultOf(Original(t), o)}])
  BY DEF SendToRecipient
<1>3. PICK m : m = Original(t)
  OBVIOUS
<1>4. /\ m \in Messages /\ m.to = Head(call[t].arg.to) /\ m.to \in People
      /\ m.kind = call[t].arg.content
  <2>1. Head(call[t].arg.to) \in People
    BY <1>1
  <2> QED
    BY <1>1, <1>3, <2>1 DEF Original, Message, Messages, Kinds, Recipient
<1>5. /\ o.ok \in BOOLEAN /\ o.sealed \in BOOLEAN /\ o.needs \in BOOLEAN
      /\ o.ok => o.arrived
      /\ o.ok /\ ~o.sealed /\ m.to # Self /\ (primary => linked # {}) => o.needs
  BY <1>3, <1>4, OutcomeFacts
<1>6. PICK acc, k : Recorded(t, m, o, acc, k)
  BY <1>2, <1>3, <1>4, SentFacts
<1>7. PICK r : r = ResultOf(m, o)
  OBVIOUS
<1>8. r \in Result /\ r.ok = o.ok /\ r.to = m.to /\ r.sealed = o.sealed
  BY <1>4, <1>5, <1>7 DEF ResultOf, Result, People
<1>9. PICK c : c = [call[t] EXCEPT !.pc = "sync", !.needs = o.needs, !.results = {r}]
  OBVIOUS
<1>10. /\ c \in Locals /\ c.pc = "sync" /\ c.needs = o.needs /\ c.results = {r}
       /\ c.arg = call[t].arg /\ c.ret = "none"
  BY <1>1, <1>5, <1>8, <1>9 DEF Locals
<1>11. /\ k \in Messages /\ k.to = m.to /\ k.kind = m.kind
       /\ k.sealed = o.sealed /\ k.others = (primary => linked # {})
       /\ acc = IF o.arrived THEN Append(<<>>, k) ELSE <<>>
       /\ accepted' = [accepted EXCEPT ![t] = acc]
  BY <1>1, <1>6 DEF Recorded
<1>12. /\ acc \in Seq(Messages)
       /\ \A i \in DOMAIN acc : o.arrived /\ acc[i] = k
       /\ o.arrived => 1 \in DOMAIN acc /\ acc[1] = k
  BY <1>11
<1>13. Phase(c, acc)
  BY <1>1, <1>10 DEF Phase
<1>14. ResultsTrue(c, acc)
  BY <1>5, <1>8, <1>10, <1>11, <1>12 DEF ResultsTrue
<1>15. TranscriptsTrue(c, acc) /\ ContactsTrue(c, acc, up[t])
  BY <1>1, <1>4, <1>10, <1>11, <1>12 DEF TranscriptsTrue, ContactsTrue
<1>16. NeedsKnown(c, acc)
  <2> SUFFICES ASSUME Unsynced(c, acc), r.ok
               PROVE  o.needs
    BY <1>10 DEF NeedsKnown
  <2>1. m.to # Self /\ ~k.sealed /\ k.others
    BY <1>4, <1>10, <1>12 DEF Unsynced
  <2> QED
    BY <1>5, <1>8, <1>11, <2>1
<1>17. OkTrue(c, acc) /\ ErrTrue(c)
  BY <1>10 DEF OkTrue, ErrTrue
<1>18. CallOK(c, acc, up[t])
  BY <1>10, <1>12, <1>13, <1>14, <1>15, <1>16, <1>17 DEF CallOK
<1>19. call' = [call EXCEPT ![t] = c] /\ up' = up /\ stored' = stored
  BY <1>2, <1>3, <1>4, <1>7, <1>9, SentFacts DEF Set
<1> QED
  BY <1>11, <1>18, <1>19, CallKeeps

\* send_message tells the other devices.
LEMMA SyncOthersKeeps ==
    ASSUME SendInv, NEW t \in Tasks, SyncOthers(t)
    PROVE  SendInv'
<1>1. /\ call[t].pc = "sync" /\ accepted[t] \in Seq(Messages)
      /\ call[t].arg.content \in {"data", "other", "sync", "none"}
      /\ NeedsKnown(call[t], accepted[t])
  BY CallFacts DEF SyncOthers, Locals
<1>2. /\ Delivered(t) \in {"Ok", "Err"}
      /\ Delivered(t) = "Ok" <=> \A x \in call[t].results : x.ok
  BY DEF Delivered
<1>3. Syncable(t) \/ IsSync(t) <=> call[t].arg.content \in {"data", "sync"}
  BY DEF Syncable, IsSync
<1>4. CASE (call[t].needs \/ call[t].multi) /\ (Syncable(t) \/ IsSync(t))
  <2>1. PICK o \in Outcomes(SyncBody(t)) :
          /\ Sent(t, SyncBody(t), o)
          /\ Return(t, IF o.ok THEN Delivered(t) ELSE "Err")
    BY <1>4 DEF SyncOthers
  <2>2. PICK r \in {"Ok", "Err", "Dropped"} : r = IF o.ok THEN Delivered(t) ELSE "Err"
    BY <1>2
  <2>3. PICK m : m = SyncBody(t)
    OBVIOUS
  <2>4. /\ m \in Messages /\ m.to = Self /\ m.kind \in {"transcript", "sync"}
        /\ m.kind = "transcript" => m = Transcript(t)
    <3>1. CASE IsSync(t)
      BY <2>3, <3>1 DEF SyncBody, Message, Messages, Kinds, People
    <3>2. CASE ~IsSync(t)
      BY <2>3, <3>2, TranscriptType DEF SyncBody
    <3> QED
      BY <3>1, <3>2
  <2>5. Justified(t, m, o, r)
    <3>1. PICK c : c = [call[t] EXCEPT !.pc = "done", !.ret = r]
      OBVIOUS
    <3>2. /\ c.arg = call[t].arg /\ c.multi = call[t].multi /\ c.needs = call[t].needs
          /\ c.ret = r
      BY <3>1, ReturnedFacts
    <3>3. ErrTrue(c)
      BY <1>3, <1>4, <3>2 DEF ErrTrue
    <3>4. ASSUME NEW k \in Messages, k.to = m.to, k.kind = m.kind
          PROVE  OkTrue(c, IF o.arrived THEN Append(accepted[t], k) ELSE accepted[t])
      <4> SUFFICES ASSUME r = "Ok"
                   PROVE  Told(IF o.arrived THEN Append(accepted[t], k) ELSE accepted[t])
        BY <3>2 DEF OkTrue
      <4>1. o.arrived
        BY <2>2, <2>3, <2>4, OutcomeFacts
      <4>2. PICK acc : acc = Append(accepted[t], k)
        OBVIOUS
      <4>3. Len(accepted[t]) + 1 \in DOMAIN acc /\ acc[Len(accepted[t]) + 1] = k
        BY <1>1, <4>2, AppendFacts
      <4> QED
        BY <2>4, <3>4, <4>1, <4>2, <4>3 DEF Told
    <3> QED
      BY <3>1, <3>3, <3>4 DEF Justified
  <2> QED
    BY <1>1, <2>1, <2>2, <2>3, <2>4, <2>5, SendReturn
<1>5. CASE ~((call[t].needs \/ call[t].multi) /\ (Syncable(t) \/ IsSync(t)))
  <2>1. Return(t, Delivered(t)) /\ Quiet
    BY <1>5 DEF SyncOthers
  <2>2. PICK r \in {"Ok", "Err", "Dropped"} : r = Delivered(t)
    BY <1>2
  <2>3. PICK c : c = [call[t] EXCEPT !.pc = "done", !.ret = r]
    OBVIOUS
  <2>4. c.arg = call[t].arg /\ c.results = call[t].results /\ c.ret = r
    BY <2>3, ReturnedFacts
  <2>5. ErrTrue(c)
    BY <1>2, <2>2, <2>4 DEF ErrTrue
  <2>6. OkTrue(c, accepted[t])
    <3> SUFFICES ASSUME r = "Ok", Unsynced(c, accepted[t])
                 PROVE  FALSE
      BY <2>4 DEF OkTrue
    <3>1. Unsynced(call[t], accepted[t])
      BY <2>4 DEF Unsynced
    <3>2. call[t].needs
      BY <1>1, <1>2, <2>2, <3>1 DEF NeedsKnown
    <3> QED
      BY <1>3, <1>5, <3>1, <3>2 DEF Unsynced
  <2> QED
    BY <1>1, <2>1, <2>2, <2>3, <2>5, <2>6, QuietReturn
<1> QED
  BY <1>4, <1>5

\* send_message_to_group sends to the next member.
LEMMA SendToMemberKeeps ==
    ASSUME SendInv, NEW t \in Tasks, SendToMember(t)
    PROVE  SendInv'
<1>1. /\ call[t] \in Locals /\ call[t].pc = "member" /\ call[t].arg.op = "group"
      /\ call[t].todo # <<>> /\ call[t].todo \in Seq(People)
      /\ accepted[t] \in Seq(Messages) /\ call[t].ret = "none"
      /\ call[t].arg.content \in {"data", "other", "sync", "none"}
      /\ call[t].arg.sealed \in BOOLEAN /\ call[t].needs \in BOOLEAN
      /\ call[t].results \subseteq Result
  BY CallFacts DEF SendToMember, Phase, Locals
<1>2. PICK o \in Outcomes(ToMember(t)) :
        /\ Sent(t, ToMember(t), o)
        /\ Set(t, [call[t] EXCEPT !.todo = Tail(@), !.needs = @ \/ o.needs,
                                  !.results = @ \cup {ResultOf(ToMember(t), o)}])
  BY DEF SendToMember
<1>3. PICK m : m = ToMember(t)
  OBVIOUS
<1>4. /\ m \in Messages /\ m.to \in People /\ m.kind = call[t].arg.content
  <2>1. Head(call[t].todo) \in People
    BY <1>1
  <2> QED
    BY <1>1, <1>3, <2>1 DEF ToMember, Message, Messages, Kinds
<1>5. /\ o.ok \in BOOLEAN /\ o.sealed \in BOOLEAN /\ o.needs \in BOOLEAN
      /\ o.ok => o.arrived
  BY <1>3, <1>4, OutcomeFacts
<1>6. PICK acc, k : Recorded(t, m, o, acc, k)
  BY <1>2, <1>3, <1>4, SentFacts
<1>7. PICK r : r = ResultOf(m, o)
  OBVIOUS
<1>8. r \in Result /\ r.ok = o.ok /\ r.to = m.to /\ r.sealed = o.sealed
  BY <1>4, <1>5, <1>7 DEF ResultOf, Result, People
<1>9. PICK c : c = [call[t] EXCEPT !.todo = Tail(@), !.needs = @ \/ o.needs,
                                   !.results = @ \cup {r}]
  OBVIOUS
<1>10. /\ c \in Locals /\ c.pc = "member" /\ c.results = call[t].results \cup {r}
       /\ c.arg = call[t].arg /\ c.ret = "none"
  <2>1. Tail(call[t].todo) \in Seq(People)
    BY <1>1
  <2> QED
    BY <1>1, <1>5, <1>8, <1>9, <2>1 DEF Locals
<1>11. /\ k \in Messages /\ k.to = m.to /\ k.kind = m.kind /\ k.sealed = o.sealed
       /\ acc = IF o.arrived THEN Append(accepted[t], k) ELSE accepted[t]
       /\ accepted' = [accepted EXCEPT ![t] = acc]
  BY <1>6 DEF Recorded
<1>12. /\ acc \in Seq(Messages)
       /\ \A i \in DOMAIN accepted[t] : i \in DOMAIN acc /\ acc[i] = accepted[t][i]
       /\ \A i \in DOMAIN acc :
             (i \in DOMAIN accepted[t] /\ acc[i] = accepted[t][i]) \/ acc[i] = k
       /\ o.arrived => \E j \in DOMAIN acc : acc[j] = k
  <2>1. CASE o.arrived
    <3>1. acc = Append(accepted[t], k)
      BY <1>11, <2>1
    <3> QED
      BY <1>1, <1>11, <3>1, AppendFacts
  <2>2. CASE ~o.arrived
    BY <1>1, <1>11, <2>2
  <2> QED
    BY <2>1, <2>2
<1>13. Phase(c, acc)
  BY <1>1, <1>10 DEF Phase
<1>14. ResultsTrue(c, acc)
  <2> SUFFICES ASSUME NEW x \in c.results, x.ok
               PROVE  \E j \in DOMAIN acc : acc[j].to = x.to /\ acc[j].sealed = x.sealed
    BY DEF ResultsTrue
  <2>1. CASE x = r
    BY <1>5, <1>8, <1>11, <1>12, <2>1
  <2>2. CASE x \in call[t].results
    <3>1. PICK j \in DOMAIN accepted[t] :
            accepted[t][j].to = x.to /\ accepted[t][j].sealed = x.sealed
      BY <2>2, CallFacts DEF ResultsTrue
    <3> QED
      BY <1>12, <3>1
  <2> QED
    BY <1>10, <2>1, <2>2
<1>15. \A i \in DOMAIN acc : acc[i].kind \notin {"transcript", "contacts"}
  BY <1>1, <1>4, <1>11, <1>12, CallFacts DEF TranscriptsTrue, ContactsTrue
<1>16. TranscriptsTrue(c, acc) /\ ContactsTrue(c, acc, up[t])
  BY <1>10, <1>15 DEF TranscriptsTrue, ContactsTrue
<1>17. NeedsKnown(c, acc) /\ OkTrue(c, acc) /\ ErrTrue(c)
  BY <1>10 DEF NeedsKnown, OkTrue, ErrTrue
<1>18. CallOK(c, acc, up[t])
  BY <1>10, <1>12, <1>13, <1>14, <1>16, <1>17 DEF CallOK
<1>19. call' = [call EXCEPT ![t] = c] /\ up' = up /\ stored' = stored
  BY <1>2, <1>3, <1>4, <1>7, <1>9, SentFacts DEF Set
<1> QED
  BY <1>11, <1>18, <1>19, CallKeeps

\* send_message_to_group has been through its members.
LEMMA MembersDoneKeeps ==
    ASSUME SendInv, NEW t \in Tasks, MembersDone(t)
    PROVE  SendInv'
<1>1. call[t] \in Locals /\ call[t].pc = "member" /\ Quiet /\ IsMultiDevice \in BOOLEAN
  BY CallFacts DEF MembersDone, IsMultiDevice
<1>2. PICK c : c = [call[t] EXCEPT !.pc = "groupsync", !.multi = IsMultiDevice]
  OBVIOUS
<1>3. /\ c \in Locals /\ c.pc = "groupsync" /\ c.results = call[t].results
      /\ c.arg = call[t].arg /\ c.ret = call[t].ret
  BY <1>1, <1>2 DEF Locals
<1>4. CallOK(c, accepted[t], up[t])
  BY <1>1, <1>3, CallFacts
     DEF CallOK, Phase, ResultsTrue, TranscriptsTrue, ContactsTrue, NeedsKnown, OkTrue, ErrTrue
<1> QED
  BY <1>1, <1>2, <1>4, QuietKeeps DEF MembersDone

\* The contact list is uploaded and is announced next.
LEMMA ContactsUploadedKeeps ==
    ASSUME SendInv, NEW t \in Tasks, ContactsUploaded(t)
    PROVE  SendInv'
<1>1. /\ call[t] \in Locals /\ call[t].pc = "upload" /\ call[t].arg.op = "contacts" /\ Quiet
      /\ accepted[t] = <<>> /\ call[t].results = {} /\ call[t].ret = "none"
  BY CallFacts DEF ContactsUploaded, Phase
<1>2. CASE up[t].step = "done"
  <2>1. PICK c : c = [call[t] EXCEPT !.pc = "own"]
    OBVIOUS
  <2>2. /\ c \in Locals /\ c.pc = "own" /\ c.results = {} /\ c.arg = call[t].arg
        /\ c.ret = "none"
    BY <1>1, <2>1 DEF Locals
  <2>3. CallOK(c, accepted[t], up[t])
    BY <1>1, <1>2, <2>2, FreshOK DEF Phase
  <2> QED
    BY <1>1, <1>2, <2>1, <2>3, QuietKeeps DEF ContactsUploaded
<1>3. CASE up[t].step # "done"
  <2>1. Return(t, "Err")
    BY <1>3 DEF ContactsUploaded
  <2> QED
    BY <1>1, <2>1, OtherResults, QuietReturn
<1> QED
  BY <1>2, <1>3

-----------------------------------------------------------------------------
(* Uploads *)

\* Padding adds to the contents and keeps them tokens.
LEMMA PadFacts ==
    ASSUME NEW s \in Seq(Token), NEW n \in Nat
    PROVE  Pad(s, n) \in Seq(Tokens) /\ Len(s) <= Len(Pad(s, n))
<1> DEFINE k == IF n < Len(s) THEN 0 ELSE n - Len(s)
           z == [i \in 1 .. k |-> Other("zero")]
<1>1. k \in Nat /\ Len(s) \in Nat
  OBVIOUS
<1>2. Other("zero") \in Tokens /\ s \in Seq(Tokens)
  BY DEF Tokens
<1>3. z \in Seq(Tokens) /\ Len(z) = k
  BY <1>1, <1>2
<1>4. Pad(s, n) = s \o z
  BY DEF Pad
<1> HIDE DEF k, z
<1> QED
  BY <1>1, <1>2, <1>3, <1>4

\* The first body of an upload is all of it.
LEMMA WholeBody ==
    ASSUME NEW s \in Seq(Tokens)
    PROVE  SubSeq(s, 1, Len(s)) = s
  OBVIOUS

\* send_contact_details begins.
LEMMA StartContactsKeeps ==
    ASSUME SendInv, NEW t \in Tasks, NEW a \in Calls[t], NEW p \in Brackets,
           StartContacts(t, a, p)
    PROVE  SendInv'
<1>1. call[t].pc = "idle" /\ a.op = "contacts" /\ accepted[t] = <<>>
  BY CallFacts DEF StartContacts, Phase
<1>2. a \in Arguments /\ a.contacts \in Seq(Token) /\ p \in Nat
  BY DEF Arguments
<1>3. PICK c : c = [Idle EXCEPT !.arg = a, !.pc = "upload"]
  OBVIOUS
<1>4. /\ c \in Locals /\ c.pc = "upload" /\ c.arg = a /\ c.results = {} /\ c.ret = "none"
  <2>1. <<>> \in Seq(People)
    OBVIOUS
  <2> QED
    BY <1>2, <1>3, <2>1 DEF Locals, Idle, Result, Arguments, People
<1>5. PICK u : u = [NoUpload EXCEPT !.step = "form", !.size = Len(a.contacts),
                                    !.contents = Pad(a.contacts, p)]
  OBVIOUS
<1>6. UploadOK(t, u, stored[t])
  <2>1. /\ Pad(a.contacts, p) \in Seq(Tokens)
        /\ Len(a.contacts) <= Len(Pad(a.contacts, p)) /\ Len(a.contacts) \in Nat
    BY <1>2, PadFacts
  <2>2. /\ u \in UploadLocals /\ u.step = "form" /\ u.size = Len(a.contacts)
        /\ u.contents = Pad(a.contacts, p)
    BY <1>5, <2>1 DEF NoUpload, UploadLocals, Objects
  <2> QED
    BY <2>1, <2>2 DEF UploadOK, UploadTrue, SendInv
<1>7. CallOK(c, accepted[t], u)
  BY <1>1, <1>4, FreshOK DEF Phase
<1>8. /\ call' = [call EXCEPT ![t] = c] /\ accepted' = accepted
      /\ up' = [up EXCEPT ![t] = u] /\ stored' = stored
  BY <1>3, <1>5 DEF StartContacts, Set, StartUpload, SetUp
<1>9. stored' = [stored EXCEPT ![t] = stored[t]]
  BY <1>8 DEF SendInv, Shapes
<1> QED
  BY <1>6, <1>7, <1>8, <1>9, UploadKeeps

\* Another client uploads its contact list.
LEMMA StartForeignKeeps ==
    ASSUME SendInv, NEW t \in Tasks, NEW a \in Calls[t], StartForeign(t, a)
    PROVE  SendInv'
<1>1. call[t].pc = "idle" /\ a.op = "foreign" /\ accepted[t] = <<>>
  BY CallFacts DEF StartForeign, Phase
<1>2. a \in Arguments /\ a.contacts \in Seq(Token)
  BY DEF Arguments
<1>3. PICK c : c = [Idle EXCEPT !.arg = a, !.pc = "done", !.ret = "Ok"]
  OBVIOUS
<1>4. /\ c \in Locals /\ c.pc = "done" /\ c.arg = a /\ c.results = {}
  <2>1. <<>> \in Seq(People)
    OBVIOUS
  <2> QED
    BY <1>2, <1>3, <2>1 DEF Locals, Idle, Result, Arguments, People
<1>5. PICK u : u = [NoUpload EXCEPT !.step = "foreign"]
  OBVIOUS
<1>6. PICK obj : obj = Encrypt(t, a.contacts)
  OBVIOUS
<1>7. UploadOK(t, u, obj)
  <2>1. obj \in Objects
    BY <1>2, <1>6 DEF Encrypt, Objects, Tokens
  <2>2. u \in UploadLocals /\ u.step = "foreign"
    <3>1. <<>> \in Seq(Tokens)
      OBVIOUS
    <3> QED
      BY <1>5, <3>1 DEF NoUpload, UploadLocals, Objects
  <2> QED
    BY <2>1, <2>2 DEF UploadOK, UploadTrue
<1>8. CallOK(c, accepted[t], u)
  BY <1>1, <1>4, FreshOK DEF Phase
<1>9. /\ call' = [call EXCEPT ![t] = c] /\ accepted' = accepted
      /\ up' = [up EXCEPT ![t] = u] /\ stored' = [stored EXCEPT ![t] = obj]
  BY <1>3, <1>5, <1>6 DEF StartForeign, Set, ForeignUpload, SetUp
<1> QED
  BY <1>7, <1>8, <1>9, UploadKeeps

\* An upload goes on.
LEMMA UploadStepKeeps ==
    ASSUME SendInv, NEW t \in Tasks, call[t].pc = "upload", UploadStep(t), Unaffected
    PROVE  SendInv'
<1>1. call' = call /\ accepted' = accepted
  BY DEF Unaffected
<1>2. call' = [call EXCEPT ![t] = call[t]]
  BY <1>1 DEF SendInv, Shapes
<1>3. ASSUME NEW u
      PROVE  CallOK(call[t], accepted[t], u)
  BY CallFacts, FreshOK DEF Phase
<1>4. /\ up[t] \in UploadLocals /\ stored[t] \in Objects /\ UploadTrue(t, up[t], stored[t])
      /\ up[t].contents \in Seq(Tokens) /\ t \in Uploads
  BY DEF SendInv, UploadOK, UploadLocals
<1>5. stored[t] = stored[t] /\ stored = [stored EXCEPT ![t] = stored[t]]
  BY DEF SendInv, Shapes
<1>6. ASSUME NEW u, NEW obj, UploadOK(t, u, obj),
             up' = [up EXCEPT ![t] = u], stored' = [stored EXCEPT ![t] = obj]
      PROVE  SendInv'
  BY <1>1, <1>2, <1>3, <1>6, UploadKeeps
<1>7. ASSUME NEW cdn \in CdnNumbers, GetForm(t, cdn)
      PROVE  SendInv'
  <2>1. PICK u : u = [up[t] EXCEPT !.step = "url", !.cdn = cdn]
    OBVIOUS
  <2>2. UploadOK(t, u, stored[t])
    BY <1>4, <1>7, <2>1 DEF UploadOK, UploadTrue, UploadLocals, GetForm
  <2>3. up' = [up EXCEPT ![t] = u] /\ stored' = [stored EXCEPT ![t] = stored[t]]
    BY <1>5, <1>7, <2>1 DEF GetForm, SetUp
  <2> QED
    BY <1>6, <2>2, <2>3
<1>8. CASE GetUploadUrl(t)
  <2>1. PICK u : u = [up[t] EXCEPT !.step = "resume"]
    OBVIOUS
  <2>2. UploadOK(t, u, NoBlob)
    BY <1>4, <1>8, <2>1 DEF UploadOK, UploadTrue, UploadLocals, GetUploadUrl, Objects
  <2>3. up' = [up EXCEPT ![t] = u] /\ stored' = [stored EXCEPT ![t] = NoBlob]
    BY <1>8, <2>1 DEF GetUploadUrl, SetUp
  <2> QED
    BY <1>6, <2>2, <2>3
<1>9. CASE UnknownCdnVersion(t) \/ UploadFails(t)
  <2>1. PICK u : u = [up[t] EXCEPT !.step = "failed"]
    OBVIOUS
  <2>2. UploadOK(t, u, stored[t])
    BY <1>4, <2>1 DEF UploadOK, UploadTrue, UploadLocals
  <2>3. up' = [up EXCEPT ![t] = u] /\ stored' = [stored EXCEPT ![t] = stored[t]]
    BY <1>5, <1>9, <2>1 DEF UnknownCdnVersion, UploadFails, SetUp
  <2> QED
    BY <1>6, <2>2, <2>3
<1>10. CASE GetResumeInfo(t)
  <2>1. Received(t) = 0 /\ up[t].step = "resume"
    BY <1>4, <1>10 DEF Received, UploadTrue, GetResumeInfo
  <2>2. PICK u : u = [up[t] EXCEPT !.step = "put", !.offset = Received(t)]
    OBVIOUS
  <2>3. UploadOK(t, u, stored[t])
    <3>0. u = [up[t] EXCEPT !.step = "put", !.offset = 0]
      BY <2>1, <2>2
    <3>1. /\ u \in UploadLocals /\ u.step = "put" /\ u.offset = 0
          /\ u.size = up[t].size /\ u.contents = up[t].contents
      BY <1>4, <3>0 DEF UploadLocals
    <3> QED
      BY <1>4, <2>1, <3>1 DEF UploadOK, UploadTrue
  <2>4. up' = [up EXCEPT ![t] = u] /\ stored' = [stored EXCEPT ![t] = stored[t]]
    BY <1>5, <1>10, <2>2 DEF GetResumeInfo, SetUp
  <2> QED
    BY <1>6, <2>3, <2>4
<1>11. ASSUME NEW answered \in BOOLEAN, PutObject(t, answered)
       PROVE  SendInv'
  <2>1. up[t].step = "put" /\ up[t].offset = 0
    BY <1>4, <1>11 DEF PutObject, UploadTrue
  <2>2. Body(t) = up[t].contents
    <3>1. up[t].offset + 1 = 1
      BY <2>1
    <3>2. SubSeq(up[t].contents, 1, Len(up[t].contents)) = up[t].contents
      BY <1>4, WholeBody
    <3> QED
      BY <3>1, <3>2 DEF Body
  <2>3. PICK obj : obj = Encrypt(t, up[t].contents)
    OBVIOUS
  <2>4. obj \in Objects
    BY <1>4, <2>3 DEF Encrypt, Objects
  <2>5. PICK u : u = IF answered
                       THEN [up[t] EXCEPT !.step = "done", !.digest = Encrypt(t, Body(t))]
                       ELSE [up[t] EXCEPT !.step = "failed"]
    OBVIOUS
  <2>6. UploadOK(t, u, obj)
    <3>1. CASE answered
      <4>1. u = [up[t] EXCEPT !.step = "done", !.digest = obj]
        BY <2>2, <2>3, <2>5, <3>1
      <4>2. /\ u \in UploadLocals /\ u.step = "done" /\ u.digest = obj
            /\ u.size = up[t].size /\ u.contents = up[t].contents
        BY <1>4, <2>4, <4>1 DEF UploadLocals
      <4> QED
        BY <1>4, <2>1, <2>3, <2>4, <4>2 DEF UploadOK, UploadTrue
    <3>2. CASE ~answered
      BY <1>4, <2>4, <2>5, <3>2 DEF UploadOK, UploadTrue, UploadLocals
    <3> QED
      BY <3>1, <3>2
  <2>7. up' = [up EXCEPT ![t] = u] /\ stored' = [stored EXCEPT ![t] = obj]
    BY <1>11, <2>3, <2>5 DEF PutObject, SetUp
  <2> QED
    BY <1>6, <2>6, <2>7
<1> QED
  BY <1>7, <1>8, <1>9, <1>10, <1>11 DEF UploadStep

\* Downloads, the account's other devices, and rest.
LEMMA RestKeeps ==
    ASSUME SendInv, call' = call, accepted' = accepted, up' = up, stored' = stored
    PROVE  SendInv'
  BY DEF SendInv, Shapes

-----------------------------------------------------------------------------
(* What the contacts iterator yields *)

\* Induction over data rests on this: a least counterexample.
LEMMA LeastNat ==
    ASSUME NEW T \in SUBSET Nat, T # {}
    PROVE  \E n \in T : \A m \in T : n <= m
<1> DEFINE R == OpToRel(<, Nat)
<1>1. IsWellFoundedOn(R, Nat)
  BY NatLessThanWellFounded
<1>2. \A x, y \in Nat : <<x, y>> \in R <=> x < y
  BY DEF OpToRel
<1> HIDE DEF R
<1>3. PICK n \in T : \A m \in T : ~(<<m, n>> \in R)
  BY <1>1, WFMin
<1>4. ASSUME NEW m \in T PROVE n <= m
  <2>1. n \in Nat /\ m \in Nat
    OBVIOUS
  <2>2. ~(m < n)
    BY <1>2, <1>3, <2>1, Zenon
  <2> QED BY <2>1, <2>2
<1> QED BY <1>3, <1>4

\* What is yielded.
Names == STRING \cup {"MissingUuid", "panic"}

\* The recursion of Items, from position k on.
Yields(g, buf, i) ==
    IF i > Len(buf) \/ buf[i].is \in {"junk", "byte"} THEN <<>>
    ELSE IF i + buf[i].avatar > Len(buf) THEN <<"panic">>
    ELSE <<buf[i].name>> \o g[i + 1 + buf[i].avatar]
Iterates(g, buf, k) == g = [i \in k .. Len(buf) + 1 |-> Yields(g, buf, i)]

\* There is a function that follows the iterator of contacts, by induction.
LEMMA IteratesExists ==
    ASSUME NEW buf \in Seq(Tokens)
    PROVE  \E g : Iterates(g, buf, 1)
<1> DEFINE end == Len(buf) + 1
           T == {n \in Nat : n <= Len(buf) /\ ~ \E g : Iterates(g, buf, end - n)}
<1>1. end \in Nat /\ Len(buf) \in Nat /\ end = Len(buf) + 1
  OBVIOUS
<1>2. \A i \in 1 .. Len(buf) : buf[i].avatar \in Nat
  BY DEF Tokens, Token, Other
<1>3. ASSUME T # {} PROVE FALSE
  <2>1. PICK n \in T : \A m \in T : n <= m
    BY <1>3, LeastNat
  <2>2. n \in Nat /\ n <= Len(buf) /\ ~ \E g : Iterates(g, buf, end - n)
    OBVIOUS
  <2>3. CASE n = 0
    <3>1. end - n = end /\ end .. Len(buf) + 1 = {end}
      BY <1>1, <2>3
    <3> DEFINE h == [i \in {end} |-> <<>>]
    <3>2. Yields(h, buf, end) = <<>>
      BY <1>1 DEF Yields
    <3>3. Iterates(h, buf, end - n)
      BY <3>1, <3>2 DEF Iterates
    <3> QED BY <2>2, <3>3
  <2>4. CASE n # 0
    <3>1. n - 1 \in Nat /\ n - 1 \notin T /\ n - 1 <= Len(buf)
      BY <2>1, <2>2, <2>4
    <3>2. PICK g : Iterates(g, buf, end - (n - 1))
      BY <3>1
    <3>3. PICK p \in 1 .. Len(buf) : p = end - n /\ end - (n - 1) = p + 1
      <4>1. end - n \in 1 .. Len(buf) /\ end - (n - 1) = (end - n) + 1
        BY <1>1, <2>2, <2>4
      <4> QED BY <4>1
    <3> HIDE DEF T, end
    <3> DEFINE h == [i \in p .. Len(buf) + 1 |-> IF i = p THEN Yields(g, buf, p) ELSE g[i]]
    <3>4. ASSUME NEW i \in p .. Len(buf) + 1 PROVE h[i] = Yields(h, buf, i)
      <4>1. ASSUME i <= Len(buf), i + buf[i].avatar <= Len(buf)
            PROVE  h[i + 1 + buf[i].avatar] = g[i + 1 + buf[i].avatar]
        <5>1. PICK a \in Nat : a = buf[i].avatar
          BY <1>2, <4>1
        <5>2. i + 1 + a \in p .. Len(buf) + 1 /\ i + 1 + a # p
          BY <1>1, <4>1, <5>1
        <5> QED BY <5>1, <5>2
      <4>2. i > Len(buf) \/ i <= Len(buf)
        OBVIOUS
      <4>3. Yields(h, buf, i) = Yields(g, buf, i)
        <5>1. CASE i > Len(buf)
          BY <5>1 DEF Yields
        <5>2. CASE i <= Len(buf) /\ i + buf[i].avatar <= Len(buf)
          <6> HIDE DEF h
          <6> QED BY <4>1, <5>2 DEF Yields
        <5>3. CASE i <= Len(buf) /\ i + buf[i].avatar > Len(buf)
          BY <5>3 DEF Yields
        <5>4. i <= Len(buf) => i + buf[i].avatar \in Nat
          BY <1>2
        <5> QED BY <1>1, <5>1, <5>2, <5>3, <5>4
      <4>4. CASE i = p
        BY <4>3, <4>4
      <4>5. CASE i # p
        <5>1. i \in p + 1 .. Len(buf) + 1
          BY <4>5
        <5>2. g[i] = Yields(g, buf, i)
          BY <3>2, <3>3, <5>1 DEF Iterates
        <5> QED BY <4>3, <4>5, <5>2
      <4> QED BY <4>4, <4>5
    <3>5. Iterates(h, buf, p)
      <4>1. h = [i \in p .. Len(buf) + 1 |-> h[i]]
        OBVIOUS
      <4> HIDE DEF h
      <4> QED BY <3>4, <4>1 DEF Iterates
    <3> QED BY <2>2, <3>3, <3>5
  <2> QED BY <2>3, <2>4
<1>4. Len(buf) \notin T /\ end - Len(buf) = 1
  BY <1>1, <1>3
<1> QED BY <1>1, <1>4

\* Items is its first value.
LEMMA ItemsIterates ==
    ASSUME NEW buf \in Seq(Tokens)
    PROVE  \E g : Iterates(g, buf, 1) /\ Items(buf) = g[1]
<1> DEFINE a == CHOOSE g : Iterates(g, buf, 1)
<1>1. Iterates(a, buf, 1)
  BY IteratesExists
<1>2. Items(buf) = a[1]
  BY DEF Items, Iterates, Yields
<1> QED BY <1>1, <1>2

\* The contacts from position i to position j.
Between(buf, i, j) == {m \in Contacts(buf) : i <= m /\ m <= j}

\* From one contact to the next there is one fewer.
LEMMA BetweenSize ==
    ASSUME NEW buf \in Seq(Tokens), NEW i \in Nat, NEW n \in Nat, NEW j \in Nat,
           i \in Contacts(buf), i < n, i <= j, \A m \in Contacts(buf) : m > i => m >= n
    PROVE  /\ Cardinality(Between(buf, i, j)) = Cardinality(Between(buf, n, j)) + 1
           /\ Cardinality(Between(buf, n, j)) \in Nat
<1>1. Contacts(buf) \subseteq 1 .. Len(buf) /\ Len(buf) \in Nat
  BY DEF Contacts
<1>2. IsFiniteSet(1 .. Len(buf))
  <2>1. 1 \in Int /\ Len(buf) \in Int
    BY <1>1
  <2> QED BY <2>1, FS_Interval
<1>3. \A k \in Nat : IsFiniteSet(Between(buf, k, j))
  BY <1>1, <1>2, FS_Subset DEF Between
<1>4. \A k \in Nat : Cardinality(Between(buf, k, j)) \in Nat
  BY <1>3, FS_CardinalityType
<1>5. i \notin Between(buf, n, j)
  BY DEF Between
<1>6. Between(buf, i, j) = Between(buf, n, j) \cup {i}
  BY <1>1 DEF Between
<1>7. Cardinality(Between(buf, n, j) \cup {i}) = Cardinality(Between(buf, n, j)) + 1
  BY <1>3, <1>5, FS_AddElement
<1> QED BY <1>4, <1>6, <1>7

\* The contact at j can be read if those in front of it bring their avatars.
Legible(buf, j) == BroughtBefore(buf, j) /\ j + buf[j].avatar <= Len(buf)
AllBring(buf) == \A j \in Contacts(buf) : Brings(buf, j)

\* What is yielded from position i on are the names of the contacts from there, as
\* far as they can be read, and then errors.
ToldFrom(s, buf, i) ==
    /\ s \in Seq(Names)
    /\ \A j \in Contacts(buf) : j >= i /\ Legible(buf, j) =>
          /\ Cardinality(Between(buf, i, j)) \in DOMAIN s
          /\ s[Cardinality(Between(buf, i, j))] = buf[j].name
    /\ AllBring(buf) => \A k \in DOMAIN s :
          k > Cardinality(Between(buf, i, Len(buf))) => s[k] = "MissingUuid"

\* One more in front.
Front(t, x, s) ==
    /\ t \in Seq(Names) /\ 1 \in DOMAIN t /\ t[1] = x
    /\ \A k \in DOMAIN s : k + 1 \in DOMAIN t /\ t[k + 1] = s[k]
    /\ \A k \in DOMAIN t : k = 1 \/ \E m \in DOMAIN s : k = m + 1

\* A name put in front of others.
LEMMA InFront ==
    ASSUME NEW x \in Names, NEW s \in Seq(Names)
    PROVE  Front(<<x>> \o s, x, s)
<1>1. <<x>> \in Seq(Names) /\ Len(<<x>>) = 1 /\ <<x>>[1] = x
  OBVIOUS
<1>2. PICK h \in Seq(Names) : h = <<x>>
  BY <1>1
<1>3. /\ h \o s \in Seq(Names) /\ Len(h \o s) = Len(s) + 1 /\ Len(s) \in Nat
      /\ \A k \in 1 .. Len(s) + 1 : (h \o s)[k] = IF k = 1 THEN x ELSE s[k - 1]
  BY <1>1, <1>2
<1>4. DOMAIN s = 1 .. Len(s) /\ DOMAIN (h \o s) = 1 .. Len(s) + 1
  BY <1>3
<1>5. ASSUME NEW k \in DOMAIN (h \o s), k # 1 PROVE k - 1 \in DOMAIN s /\ k = (k - 1) + 1
  BY <1>3, <1>4, <1>5
<1>6. \A k \in DOMAIN s : k + 1 \in 1 .. Len(s) + 1 /\ k + 1 # 1 /\ (k + 1) - 1 = k
  BY <1>3, <1>4
<1>7. \A k \in DOMAIN s : (h \o s)[k + 1] = s[k]
  BY <1>3, <1>6
<1>8. (h \o s)[1] = x /\ 1 \in DOMAIN (h \o s)
  BY <1>3, <1>4
<1>9. Front(h \o s, x, s)
  BY <1>3, <1>4, <1>5, <1>6, <1>7, <1>8 DEF Front
<1> QED BY <1>2, <1>9

\* The position after a contact and its avatar is that of the next thing to read.
LEMMA AfterContact ==
    ASSUME NEW buf \in Seq(Tokens), ContactList(buf), NEW i \in Contacts(buf),
           BroughtBefore(buf, i), Brings(buf, i)
    PROVE  \E n \in 1 .. Len(buf) + 1 :
              /\ n = i + 1 + buf[i].avatar /\ i < n
              /\ n \in DOMAIN buf => buf[n].is # "byte"
              /\ \A m \in Contacts(buf) : m > i => m >= n
<1>1. Len(buf) \in Nat /\ DOMAIN buf = 1 .. Len(buf)
  OBVIOUS
<1>2. \A j \in 1 .. Len(buf) : buf[j].avatar \in Nat
  BY DEF Tokens, Token, Other
<1>3. i \in 1 .. Len(buf) /\ buf[i].is = "contact"
  BY DEF Contacts
<1>4. ASSUME NEW j \in Contacts(buf)
      PROVE  /\ j \in 1 .. Len(buf) /\ buf[j].is = "contact"
             /\ j < i => \A m \in j + 1 .. j + buf[j].avatar : buf[m].is = "byte"
  BY DEF Contacts, BroughtBefore, Brings
<1>5. PICK a \in Nat : a = buf[i].avatar
  BY <1>2, <1>3
<1>6. i + a <= Len(buf) /\ \A m \in i + 1 .. i + a : buf[m].is = "byte"
  BY <1>5 DEF Brings
<1>7. ASSUME NEW m \in Contacts(buf), m > i PROVE m >= i + 1 + a
  <2>1. m \in 1 .. Len(buf) /\ buf[m].is # "byte"
    BY <1>4
  <2> QED BY <1>3, <1>6, <1>7, <2>1
<1>8. ASSUME i + 1 + a \in DOMAIN buf, buf[i + 1 + a].is = "byte" PROVE FALSE
  <2>1. PICK n \in 1 .. Len(buf) : n = i + 1 + a
    BY <1>1, <1>8
  <2>2. n \in DOMAIN buf /\ n \in n .. Len(buf) /\ buf[n].is = "byte" /\ Other("zero").is = "zero"
    BY <1>1, <1>8, <2>1 DEF Other
  <2>3. PICK j \in Contacts(buf) : j < n /\ n <= j + buf[j].avatar
    BY <2>2 DEF ContactList
  <2>4. PICK b \in Nat : b = buf[j].avatar
    BY <1>2, <1>4
  <2>5. j \in 1 .. Len(buf) /\ (j < i => \A m \in j + 1 .. j + b : buf[m].is = "byte")
    BY <1>4, <2>4
  <2>6. CASE j < i
    <3>1. i \in j + 1 .. j + b
      BY <1>3, <2>1, <2>3, <2>4, <2>5, <2>6
    <3> QED BY <1>3, <2>5, <2>6, <3>1
  <2>7. CASE j = i
    BY <1>3, <1>5, <2>1, <2>3, <2>7
  <2>8. CASE j > i
    BY <1>3, <1>7, <2>1, <2>3, <2>5, <2>8
  <2> QED BY <1>3, <2>5, <2>6, <2>7, <2>8
<1>9. i + 1 + a \in 1 .. Len(buf) + 1 /\ i < i + 1 + a
  BY <1>1, <1>3, <1>6
<1> QED BY <1>5, <1>7, <1>8, <1>9

\* Whatever the list, what is yielded are names and errors.
LEMMA YieldsSeq ==
    ASSUME NEW buf \in Seq(Tokens), NEW g, Iterates(g, buf, 1)
    PROVE  \A i \in 1 .. Len(buf) + 1 : g[i] \in Seq(Names)
<1> DEFINE end == Len(buf) + 1
           Good(i) == g[i] \in Seq(Names)
           T == {n \in Nat : n <= Len(buf) /\ ~Good(end - n)}
<1>1. end \in Nat /\ Len(buf) \in Nat /\ end = Len(buf) + 1
  OBVIOUS
<1>2. ASSUME NEW i \in 1 .. Len(buf) + 1 PROVE g[i] = Yields(g, buf, i)
  BY DEF Iterates
<1>3. \A i \in 1 .. Len(buf) : buf[i].avatar \in Nat /\ buf[i].name \in Names
  <2>1. \A x \in Token : x.avatar \in Nat /\ x.name \in Names
    BY DEF Token, Names
  <2>2. Other("zero").avatar \in Nat /\ Other("zero").name \in Names
    BY DEF Other, Names
  <2>3. \A i \in 1 .. Len(buf) : buf[i] \in Token \/ buf[i] = Other("zero")
    BY DEF Tokens
  <2> QED BY <2>1, <2>2, <2>3
<1>4. ASSUME NEW i \in 1 .. Len(buf) + 1, \A m \in 1 .. Len(buf) + 1 : m > i => Good(m)
      PROVE  Good(i)
  <2>1. CASE i > Len(buf) \/ buf[i].is \in {"junk", "byte"}
    <3>1. g[i] = <<>>
      BY <1>2, <2>1 DEF Yields
    <3>2. <<>> \in Seq(Names)
      OBVIOUS
    <3> QED BY <3>1, <3>2
  <2>2. CASE ~(i > Len(buf) \/ buf[i].is \in {"junk", "byte"})
    <3>1. i \in 1 .. Len(buf) /\ i \in Nat
      BY <1>1, <2>2
    <3>2. PICK a \in Nat : a = buf[i].avatar
      BY <1>3, <3>1
    <3>3. CASE i + a > Len(buf)
      <4>1. g[i] = <<"panic">>
        BY <1>2, <2>2, <3>2, <3>3 DEF Yields
      <4>2. "panic" \in Names
        BY DEF Names
      <4> QED BY <4>1, <4>2
    <3>4. CASE i + a <= Len(buf)
      <4>1. i + 1 + a \in 1 .. Len(buf) + 1 /\ i + 1 + a > i /\ ~(i + a > Len(buf))
        BY <1>1, <3>1, <3>2, <3>4
      <4>2. PICK n \in 1 .. Len(buf) + 1 : n = i + 1 + a /\ n > i
        BY <4>1
      <4>3. g[i] = <<buf[i].name>> \o g[n]
        BY <1>2, <2>2, <3>2, <4>1, <4>2 DEF Yields
      <4>4. PICK s \in Seq(Names) : s = g[n]
        BY <1>4, <4>2
      <4>5. Front(<<buf[i].name>> \o s, buf[i].name, s)
        BY <1>3, <3>1, InFront
      <4> QED BY <4>3, <4>4, <4>5 DEF Front
    <3> QED BY <1>1, <3>1, <3>2, <3>3, <3>4
  <2> QED BY <2>1, <2>2
<1>5. ASSUME T # {} PROVE FALSE
  <2>1. PICK n \in T : \A m \in T : n <= m
    BY <1>5, LeastNat
  <2>2. n \in Nat /\ n <= Len(buf) /\ ~Good(end - n)
    OBVIOUS
  <2>3. PICK i \in 1 .. Len(buf) + 1 : i = end - n
    BY <1>1, <2>2
  <2>4. ASSUME NEW m \in 1 .. Len(buf) + 1, m > i PROVE Good(m)
    <3>1. end - m \in Nat /\ end - m < n /\ end - m <= Len(buf) /\ end - (end - m) = m
      BY <1>1, <2>2, <2>3, <2>4
    <3>2. end - m \notin T
      BY <2>1, <2>2, <3>1
    <3> HIDE DEF Good
    <3>3. Good(end - (end - m))
      BY <3>1, <3>2
    <3> QED BY <3>1, <3>3
  <2> QED BY <1>4, <2>2, <2>3, <2>4
<1>6. ASSUME NEW i \in 1 .. Len(buf) + 1 PROVE Good(i)
  <2>1. end - i \in Nat /\ end - i <= Len(buf) /\ end - (end - i) = i
    BY <1>1
  <2> HIDE DEF Good
  <2>2. end - i \notin T
    BY <1>5
  <2>3. Good(end - (end - i))
    BY <2>1, <2>2
  <2> QED BY <2>1, <2>3
<1> QED BY <1>6

\* From each contact on that can be read, the iterator yields the names there are.
LEMMA YieldsNames ==
    ASSUME NEW buf \in Seq(Tokens), ContactList(buf), NEW g, Iterates(g, buf, 1)
    PROVE  \A i \in 1 .. Len(buf) + 1 :
              BroughtBefore(buf, i) /\ (i \in DOMAIN buf => buf[i].is # "byte")
                 => ToldFrom(g[i], buf, i)
<1> DEFINE end == Len(buf) + 1
           Good(i) == BroughtBefore(buf, i) /\ (i \in DOMAIN buf => buf[i].is # "byte")
                         => ToldFrom(g[i], buf, i)
           T == {n \in Nat : n <= Len(buf) /\ ~Good(end - n)}
<1>1. end \in Nat /\ Len(buf) \in Nat /\ end = Len(buf) + 1 /\ DOMAIN buf = 1 .. Len(buf)
  OBVIOUS
<1>2. ASSUME NEW i \in 1 .. Len(buf) + 1 PROVE g[i] = Yields(g, buf, i)
  BY DEF Iterates
<1>3. \A i \in 1 .. Len(buf) : buf[i].avatar \in Nat /\ buf[i].name \in Names
  <2>1. \A x \in Token : x.avatar \in Nat /\ x.name \in Names
    BY DEF Token, Names
  <2>2. Other("zero").avatar \in Nat /\ Other("zero").name \in Names
    BY DEF Other, Names
  <2>3. \A i \in 1 .. Len(buf) : buf[i] \in Token \/ buf[i] = Other("zero")
    BY DEF Tokens
  <2> QED BY <2>1, <2>2, <2>3
<1>4. ASSUME NEW i \in 1 .. Len(buf) + 1, BroughtBefore(buf, i),
             i \in DOMAIN buf => buf[i].is # "byte",
             \A m \in 1 .. Len(buf) + 1 : m > i => Good(m)
      PROVE  ToldFrom(g[i], buf, i)
  <2>1. CASE i \notin DOMAIN buf
    <3>1. i > Len(buf) /\ i \in Nat
      BY <1>1, <2>1
    <3>2. g[i] = <<>>
      BY <1>2, <3>1 DEF Yields
    <3>3. \A j \in Contacts(buf) : ~(j >= i)
      BY <1>1, <3>1 DEF Contacts
    <3>4. <<>> \in Seq(Names) /\ DOMAIN <<>> = {}
      OBVIOUS
    <3> QED BY <3>2, <3>3, <3>4 DEF ToldFrom
  <2>2. CASE i \in DOMAIN buf /\ \A j \in i .. Len(buf) : buf[j] = Other("zero")
    <3>1. /\ buf[i] = Other("zero") /\ i \in 1 .. Len(buf)
          /\ i + 1 \in 1 .. Len(buf) + 1 /\ i + 1 > i
          /\ i + 1 \in DOMAIN buf => buf[i + 1].is # "byte"
      <4>1. i \in 1 .. Len(buf) /\ i \in i .. Len(buf)
        BY <1>1, <2>2
      <4>2. i + 1 \in DOMAIN buf => i + 1 \in i .. Len(buf)
        BY <1>1, <4>1
      <4>3. Other("zero").is = "zero"
        BY DEF Other
      <4> QED BY <1>1, <2>2, <4>1, <4>2, <4>3
    <3>2. buf[i].is = "zero" /\ buf[i].avatar = 0 /\ buf[i].name = "MissingUuid"
      BY <3>1 DEF Other
    <3>3. ToldFrom(g[i + 1], buf, i + 1)
      <4>1. \A j \in Contacts(buf) : j < i + 1 => j < i
        <5>1. \A j \in Contacts(buf) : j \in Nat /\ j # i
          BY <1>1, <3>1, <3>2 DEF Contacts
        <5> QED BY <3>1, <5>1
      <4>2. BroughtBefore(buf, i + 1)
        BY <1>4, <4>1 DEF BroughtBefore
      <4> QED BY <1>4, <3>1, <4>2
    <3>4. g[i] = <<"MissingUuid">> \o g[i + 1]
      <4>1. i + 1 + 0 = i + 1 /\ ~(i + 0 > Len(buf)) /\ ~(i > Len(buf))
        BY <1>1, <3>1
      <4> QED BY <1>2, <3>1, <3>2, <4>1 DEF Yields
    <3>5. \A j \in Contacts(buf) : ~(j >= i)
      <4>1. Other("zero").is # "contact"
        BY DEF Other
      <4>2. \A j \in Contacts(buf) : j >= i => j \in i .. Len(buf) /\ buf[j].is = "contact"
        BY <1>1, <3>1 DEF Contacts
      <4> QED BY <2>2, <4>1, <4>2
    <3>6. PICK s \in Seq(Names) : s = g[i + 1]
      BY <3>3 DEF ToldFrom
    <3>7. Cardinality(Between(buf, i + 1, Len(buf))) = 0
      <4>1. Between(buf, i + 1, Len(buf)) = {}
        BY <1>1, <3>1, <3>5 DEF Between, Contacts
      <4> QED BY <4>1, FS_EmptySet
    <3>8. AllBring(buf) => \A k \in DOMAIN s : s[k] = "MissingUuid"
      BY <3>3, <3>6, <3>7 DEF ToldFrom
    <3>9. /\ g[i] \in Seq(Names)
          /\ AllBring(buf) => \A k \in DOMAIN g[i] : g[i][k] = "MissingUuid"
      <4>1. Front(g[i], "MissingUuid", s)
        <5>1. PICK x \in Names : x = "MissingUuid"
          BY DEF Names
        <5> QED BY <3>4, <3>6, <5>1, InFront
      <4>2. ASSUME AllBring(buf), NEW k \in DOMAIN g[i] PROVE g[i][k] = "MissingUuid"
        <5>1. CASE k = 1
          BY <4>1, <5>1 DEF Front
        <5>2. CASE \E m \in DOMAIN s : k = m + 1
          <6>1. PICK m \in DOMAIN s : k = m + 1
            BY <5>2
          <6> QED BY <3>8, <4>1, <4>2, <6>1 DEF Front
        <5> QED BY <4>1, <5>1, <5>2 DEF Front
      <4>3. g[i] \in Seq(Names)
        BY <4>1 DEF Front
      <4> QED BY <4>2, <4>3
    <3>10. \A j \in Contacts(buf) : j >= i /\ Legible(buf, j) =>
               /\ Cardinality(Between(buf, i, j)) \in DOMAIN g[i]
               /\ g[i][Cardinality(Between(buf, i, j))] = buf[j].name
      BY <3>5
    <3>11. AllBring(buf) => \A k \in DOMAIN g[i] :
               k > Cardinality(Between(buf, i, Len(buf))) => g[i][k] = "MissingUuid"
      BY <3>9, Zenon
    <3> QED BY <3>9, <3>10, <3>11, Zenon DEF ToldFrom
  <2>3. CASE i \in Contacts(buf) /\ Brings(buf, i)
    <3>1. PICK n \in 1 .. Len(buf) + 1 :
              /\ n = i + 1 + buf[i].avatar /\ i < n
              /\ n \in DOMAIN buf => buf[n].is # "byte"
              /\ \A m \in Contacts(buf) : m > i => m >= n
      BY <1>4, <2>3, AfterContact
    <3>2. ToldFrom(g[n], buf, n)
      <4>1. \A j \in Contacts(buf) : j \in Nat /\ i \in Nat /\ n \in Nat
        BY <1>1 DEF Contacts
      <4>2. \A j \in Contacts(buf) : j < n => j < i \/ j = i
        BY <3>1, <4>1
      <4>3. BroughtBefore(buf, n)
        BY <1>4, <2>3, <4>2 DEF BroughtBefore
      <4> QED BY <1>4, <3>1, <4>3
    <3>3. PICK s \in Seq(Names) : s = g[n]
      BY <3>2 DEF ToldFrom
    <3>4. i \in 1 .. Len(buf) /\ buf[i].is = "contact" /\ i \in Nat /\ n \in Nat
      BY <1>1, <2>3, <3>1 DEF Contacts
    <3>5. PICK t \in Seq(Names) : t = g[i] /\ Front(t, buf[i].name, s)
      <4>1. ~(i > Len(buf)) /\ ~(i + buf[i].avatar > Len(buf))
        BY <1>1, <1>3, <3>1, <3>4
      <4>2. g[i] = <<buf[i].name>> \o g[n]
        BY <1>2, <3>1, <3>4, <4>1 DEF Yields
      <4>3. Front(<<buf[i].name>> \o s, buf[i].name, s)
        BY <1>3, <3>4, InFront
      <4> QED BY <3>3, <4>2, <4>3 DEF Front
    <3>6. ASSUME NEW j \in Nat, j >= i
          PROVE  /\ Cardinality(Between(buf, i, j)) = Cardinality(Between(buf, n, j)) + 1
                 /\ Cardinality(Between(buf, n, j)) \in Nat
      BY <2>3, <3>1, <3>4, <3>6, BetweenSize
    <3>7. ASSUME NEW j \in Contacts(buf), j >= i, Legible(buf, j)
          PROVE  /\ Cardinality(Between(buf, i, j)) \in DOMAIN t
                 /\ t[Cardinality(Between(buf, i, j))] = buf[j].name
      <4>1. j \in Nat
        BY <1>1 DEF Contacts
      <4>2. PICK c \in Nat : c = Cardinality(Between(buf, n, j)) /\ Cardinality(Between(buf, i, j)) = c + 1
        BY <3>6, <3>7, <4>1
      <4>3. CASE j = i
        <5>1. Between(buf, n, j) = {}
          BY <3>1, <3>4, <4>1, <4>3 DEF Between, Contacts
        <5>2. c = 0
          BY <4>2, <5>1, FS_EmptySet
        <5>3. 1 \in DOMAIN t /\ t[1] = buf[i].name
          BY <3>5 DEF Front
        <5> QED BY <4>2, <4>3, <5>2, <5>3
      <4>4. CASE j # i
        <5>1. j >= n
          BY <3>1, <3>4, <3>7, <4>1, <4>4
        <5>2. c \in DOMAIN s /\ s[c] = buf[j].name
          BY <3>2, <3>3, <3>7, <4>2, <5>1 DEF ToldFrom
        <5>3. c + 1 \in DOMAIN t /\ t[c + 1] = s[c]
          BY <3>5, <5>2 DEF Front
        <5> QED BY <4>2, <5>2, <5>3
      <4> QED BY <4>3, <4>4
    <3>8. ASSUME AllBring(buf), NEW k \in DOMAIN t, k > Cardinality(Between(buf, i, Len(buf)))
          PROVE  t[k] = "MissingUuid"
      <4>1. PICK c \in Nat : /\ c = Cardinality(Between(buf, n, Len(buf)))
                             /\ Cardinality(Between(buf, i, Len(buf))) = c + 1
        BY <1>1, <3>4, <3>6
      <4>2. k = 1 \/ \E m \in DOMAIN s : k = m + 1
        BY <3>5 DEF Front
      <4>3. PICK m \in DOMAIN s : k = m + 1
        BY <3>8, <4>1, <4>2
      <4>4. m \in Nat /\ m > c
        BY <3>8, <4>1, <4>3
      <4>5. s[m] = "MissingUuid"
        BY <3>2, <3>3, <3>8, <4>1, <4>4 DEF ToldFrom
      <4>6. t[m + 1] = s[m]
        BY <3>5 DEF Front
      <4> QED BY <4>3, <4>5, <4>6
    <3> QED BY <3>5, <3>7, <3>8 DEF ToldFrom
  <2>4. i \in DOMAIN buf => \/ \A j \in i .. Len(buf) : buf[j] = Other("zero")
                            \/ i \in Contacts(buf)
    BY <1>4 DEF ContactList, Contacts
  <2>5. CASE i \in Contacts(buf) /\ ~Brings(buf, i)
    <3>1. i \in 1 .. Len(buf) /\ buf[i].is = "contact" /\ i \in Nat
      BY <1>1, <2>5 DEF Contacts
    <3>2. g[i] \in Seq(Names) /\ ~AllBring(buf)
      BY <2>5, YieldsSeq DEF AllBring
    <3>3. ASSUME NEW j \in Contacts(buf), j >= i, Legible(buf, j)
          PROVE  /\ Cardinality(Between(buf, i, j)) \in DOMAIN g[i]
                 /\ g[i][Cardinality(Between(buf, i, j))] = buf[j].name
      <4>1. j = i
        <5>1. ~(i < j)
          BY <2>5, <3>3 DEF Legible, BroughtBefore
        <5>2. j \in Nat
          BY <1>1 DEF Contacts
        <5> QED BY <3>1, <3>3, <5>1, <5>2
      <4>2. Between(buf, i, j) = {i}
        BY <1>1, <2>5, <3>1, <4>1 DEF Between, Contacts
      <4>3. Cardinality(Between(buf, i, j)) = 1
        BY <4>2, FS_Singleton
      <4>4. PICK a \in Nat : a = buf[i].avatar
        BY <1>3, <3>1
      <4>5. i + a <= Len(buf)
        BY <3>3, <4>1, <4>4 DEF Legible
      <4>6. i + 1 + a \in 1 .. Len(buf) + 1 /\ ~(i + a > Len(buf)) /\ ~(i > Len(buf))
        BY <1>1, <3>1, <4>4, <4>5
      <4>7. PICK n \in 1 .. Len(buf) + 1 : n = i + 1 + a
        BY <4>6
      <4>8. g[i] = <<buf[i].name>> \o g[n]
        BY <1>2, <3>1, <4>4, <4>6, <4>7 DEF Yields
      <4>9. PICK s \in Seq(Names) : s = g[n]
        BY YieldsSeq
      <4>10. Front(<<buf[i].name>> \o s, buf[i].name, s)
        BY <1>3, <3>1, InFront
      <4>11. 1 \in DOMAIN g[i] /\ g[i][1] = buf[i].name
        BY <4>8, <4>9, <4>10 DEF Front
      <4> QED BY <4>1, <4>3, <4>11
    <3> QED BY <3>2, <3>3 DEF ToldFrom
  <2> QED BY <2>1, <2>2, <2>3, <2>4, <2>5
<1>5. ASSUME T # {} PROVE FALSE
  <2>1. PICK n \in T : \A m \in T : n <= m
    BY <1>5, LeastNat
  <2>2. n \in Nat /\ n <= Len(buf) /\ ~Good(end - n)
    OBVIOUS
  <2>3. PICK i \in 1 .. Len(buf) + 1 : i = end - n
    BY <1>1, <2>2
  <2>4. ASSUME NEW m \in 1 .. Len(buf) + 1, m > i PROVE Good(m)
    <3>1. end - m \in Nat /\ end - m < n /\ end - m <= Len(buf) /\ end - (end - m) = m
      BY <1>1, <2>2, <2>3, <2>4
    <3>2. end - m \notin T
      BY <2>1, <2>2, <3>1
    <3> HIDE DEF Good
    <3>3. Good(end - (end - m))
      BY <3>1, <3>2
    <3> QED BY <3>1, <3>3
  <2> QED BY <1>4, <2>2, <2>3, <2>4
<1>6. ASSUME NEW i \in 1 .. Len(buf) + 1 PROVE Good(i)
  <2>1. end - i \in Nat /\ end - i <= Len(buf) /\ end - (end - i) = i
    BY <1>1
  <2> HIDE DEF Good
  <2>2. end - i \notin T
    BY <1>5
  <2>3. Good(end - (end - i))
    BY <2>1, <2>2
  <2> QED BY <2>1, <2>3
<1> QED BY <1>6

\* The names of a list as far as it can be read, and errors for the padding.
NamesThenErrors(items, buf) ==
    /\ \A i \in Contacts(buf) : Legible(buf, i) =>
          Upto(buf, i) \in DOMAIN items /\ items[Upto(buf, i)] = buf[i].name
    /\ AllBring(buf) => \A k \in DOMAIN items :
          k > Cardinality(Contacts(buf)) => items[k] = "MissingUuid"

\* The iterator yields the names of the list, and then errors for the padding.
LEMMA ItemsAreNames ==
    ASSUME NEW buf \in Seq(Tokens), ContactList(buf)
    PROVE  NamesThenErrors(Items(buf), buf)
<1>1. PICK g : Iterates(g, buf, 1) /\ Items(buf) = g[1]
  BY ItemsIterates
<1>2. Len(buf) \in Nat /\ DOMAIN buf = 1 .. Len(buf) /\ 1 \in 1 .. Len(buf) + 1
  OBVIOUS
<1>3. ASSUME 1 \in DOMAIN buf PROVE buf[1].is # "byte"
  <2>1. \A j \in Contacts(buf) : ~(j < 1)
    BY <1>2 DEF Contacts
  <2>2. 1 \in 1 .. Len(buf) /\ Other("zero").is # "byte"
    BY <1>2, <1>3 DEF Other
  <2> QED BY <1>3, <2>1, <2>2 DEF ContactList
<1>4. ToldFrom(Items(buf), buf, 1)
  <2>1. BroughtBefore(buf, 1)
    BY <1>2 DEF BroughtBefore, Contacts
  <2> QED BY <1>1, <1>2, <1>3, <2>1, YieldsNames
<1>5. \A i \in Contacts(buf) : i >= 1 /\ Between(buf, 1, i) = {j \in Contacts(buf) : j <= i}
  BY <1>2 DEF Between, Contacts
<1>6. Between(buf, 1, Len(buf)) = Contacts(buf)
  BY <1>2 DEF Between, Contacts
<1> QED BY <1>4, <1>5, <1>6 DEF ToldFrom, NamesThenErrors, Upto

\* Padding keeps to the format.
LEMMA PadKeepsList ==
    ASSUME NEW s \in Seq(Token), NEW n \in Nat, ContactList(s)
    PROVE  ContactList(Pad(s, n))
<1> DEFINE k == IF n < Len(s) THEN 0 ELSE n - Len(s)
           z == [i \in 1 .. k |-> Other("zero")]
<1>1. k \in Nat /\ Len(s) \in Nat /\ DOMAIN s = 1 .. Len(s)
  OBVIOUS
<1>2. Other("zero") \in Tokens /\ s \in Seq(Tokens)
  BY DEF Tokens
<1>3. z \in Seq(Tokens) /\ Len(z) = k /\ \A i \in 1 .. k : z[i] = Other("zero")
  BY <1>1, <1>2
<1>4. Pad(s, n) = s \o z
  BY DEF Pad
<1> HIDE DEF k, z
<1> DEFINE t == s \o z
<1>5. t \in Seq(Tokens) /\ Len(t) = Len(s) + k /\ DOMAIN t = 1 .. Len(s) + k
  BY <1>1, <1>2, <1>3
<1>6. /\ \A i \in 1 .. Len(s) : t[i] = s[i]
      /\ \A i \in Len(s) + 1 .. Len(s) + k : t[i] = Other("zero")
  <2>1. \A i \in 1 .. Len(s) : t[i] = s[i]
    BY <1>1, <1>2, <1>3
  <2>2. ASSUME NEW i \in Len(s) + 1 .. Len(s) + k PROVE t[i] = Other("zero")
    <3>1. i - Len(s) \in 1 .. k /\ i \in 1 .. Len(s) + k /\ i > Len(s)
      BY <1>1
    <3>2. t[i] = z[i - Len(s)]
      BY <1>1, <1>2, <1>3, <3>1
    <3> QED BY <1>3, <3>1, <3>2
  <2> QED BY <2>1, <2>2
<1> HIDE DEF t
<1>7. \A i \in 1 .. Len(s) : s[i].avatar \in Nat
  <2>1. \A x \in Token : x.avatar \in Nat
    BY DEF Token
  <2> QED BY <2>1
<1>8. \A j \in Contacts(s) : j \in Contacts(t) /\ j \in 1 .. Len(s) /\ t[j] = s[j]
  BY <1>1, <1>5, <1>6 DEF Contacts
<1>9. ASSUME NEW i \in 1 .. Len(s) + k
      PROVE  \/ t[i].is = "contact"
             \/ t[i].is = "byte" /\ \E j \in Contacts(t) : j < i /\ i <= j + t[j].avatar
             \/ \A j \in i .. Len(t) : t[j] = Other("zero")
  <2>1. CASE i > Len(s)
    <3>1. \A j \in i .. Len(t) : j \in Len(s) + 1 .. Len(s) + k
      BY <1>1, <1>5, <2>1
    <3> QED BY <1>6, <3>1
  <2>2. CASE i <= Len(s)
    <3>1. i \in 1 .. Len(s) /\ t[i] = s[i]
      BY <1>1, <1>6, <2>2
    <3>2. CASE s[i].is = "contact"
      BY <3>1, <3>2
    <3>3. CASE s[i].is = "byte" /\ \E j \in Contacts(s) : j < i /\ i <= j + s[j].avatar
      BY <1>8, <3>1, <3>3
    <3>4. CASE \A j \in i .. Len(s) : s[j] = Other("zero")
      <4>1. ASSUME NEW j \in i .. Len(t) PROVE t[j] = Other("zero")
        <5>1. CASE j <= Len(s)
          <6>1. j \in i .. Len(s) /\ j \in 1 .. Len(s)
            BY <1>1, <3>1, <5>1
          <6> QED BY <1>6, <3>4, <6>1
        <5>2. CASE j > Len(s)
          <6>1. j \in Len(s) + 1 .. Len(s) + k
            BY <1>1, <1>5, <5>2
          <6> QED BY <1>6, <6>1
        <5> QED BY <1>1, <5>1, <5>2
      <4> QED BY <4>1
    <3> QED BY <1>1, <3>1, <3>2, <3>3, <3>4 DEF ContactList
  <2> QED BY <1>1, <2>1, <2>2
<1>10. ContactList(t)
  BY <1>5, <1>9 DEF ContactList
<1> QED BY <1>4, <1>10 DEF t

\* A list is uploaded as it should be, and read when its call is over: from then on
\* nothing changes at its location.
ListOK(c, u, obj, d) ==
    /\ ContactList(u.contents)
    /\ obj # NoBlob => ContactList(obj.contents)
    /\ u.step = "foreign" => c.pc = "done"
    /\ d.step # "idle" => c.pc = "done"
    /\ d.step \in {"stream", "read"} => obj # NoBlob
    /\ d.step = "read" => d.items = Items(obj.contents)

ListInv == /\ down = [t \in Tasks |-> down[t]]
           /\ \A t \in Tasks : ListOK(call[t], up[t], stored[t], down[t])

\* A step of one task keeps the others' lists.
LEMMA ListKeeps ==
    ASSUME SendInv, ListInv, NEW t \in Tasks, NEW c, NEW u, NEW obj, NEW d,
           call' = [call EXCEPT ![t] = c], up' = [up EXCEPT ![t] = u],
           stored' = [stored EXCEPT ![t] = obj], down' = [down EXCEPT ![t] = d],
           ListOK(c, u, obj, d)
    PROVE  ListInv'
<1>1. down' = [s \in Tasks |-> down'[s]]
  BY DEF ListInv
<1>2. ASSUME NEW s \in Tasks PROVE ListOK(call'[s], up'[s], stored'[s], down'[s])
  <2>1. CASE s = t
    BY <2>1 DEF SendInv, Shapes, ListInv
  <2>2. CASE s # t
    <3>1. call'[s] = call[s] /\ up'[s] = up[s] /\ stored'[s] = stored[s] /\ down'[s] = down[s]
      BY <2>2 DEF SendInv, Shapes, ListInv
    <3> QED BY <3>1 DEF ListInv
  <2> QED BY <2>1, <2>2
<1> QED BY <1>1, <1>2 DEF ListInv

\* At first there are no lists.
LEMMA ListInit == Init => ListInv
<1> SUFFICES ASSUME Init PROVE ListInv
  OBVIOUS
<1>1. /\ call = [t \in Tasks |-> Idle] /\ up = [t \in Tasks |-> NoUpload]
      /\ stored = [t \in Tasks |-> NoBlob] /\ down = [t \in Tasks |-> NoDownload]
  BY DEF Init, AttachmentInit
<1>2. NoUpload.contents = <<>> /\ NoUpload.step = "idle" /\ NoDownload.step = "idle"
  BY DEF NoUpload, NoDownload
<1>3. ContactList(<<>>)
  BY DEF ContactList
<1>4. ListOK(Idle, NoUpload, NoBlob, NoDownload)
  BY <1>2, <1>3 DEF ListOK
<1> QED BY <1>1, <1>4 DEF ListInv

\* Every step keeps the lists.
LEMMA ListNext ==
    ASSUME SendInv, ListInv, [Next]_vars
    PROVE  ListInv'
<1>1. \A t \in Tasks : ListOK(call[t], up[t], stored[t], down[t])
  BY DEF ListInv
<1>2. /\ call = [t \in Tasks |-> call[t]] /\ up = [t \in Tasks |-> up[t]]
      /\ stored = [t \in Tasks |-> stored[t]] /\ down = [t \in Tasks |-> down[t]]
  BY DEF SendInv, Shapes, ListInv
<1>3. \A t \in Tasks : /\ call = [call EXCEPT ![t] = call[t]] /\ up = [up EXCEPT ![t] = up[t]]
                       /\ stored = [stored EXCEPT ![t] = stored[t]]
                       /\ down = [down EXCEPT ![t] = down[t]]
  BY <1>2
<1>4. ASSUME NEW t \in Tasks, call[t].pc # "done", NEW c, call' = [call EXCEPT ![t] = c],
             UNCHANGED attachmentVars
      PROVE  ListInv'
  <2>1. ListOK(c, up[t], stored[t], down[t])
    BY <1>1, <1>4 DEF ListOK
  <2>2. /\ up' = [up EXCEPT ![t] = up[t]] /\ stored' = [stored EXCEPT ![t] = stored[t]]
        /\ down' = [down EXCEPT ![t] = down[t]]
    BY <1>3, <1>4 DEF attachmentVars
  <2> QED BY <1>4, <2>1, <2>2, ListKeeps
<1>5. ASSUME UNCHANGED <<call, attachmentVars>> PROVE ListInv'
  BY <1>5 DEF ListInv, attachmentVars
<1>6. ASSUME NEW t \in Tasks, NEW a \in Calls[t], NEW p \in Brackets, StartContacts(t, a, p)
      PROVE  ListInv'
  <2>1. PICK u : u = [NoUpload EXCEPT !.step = "form", !.size = Len(a.contacts),
                                      !.contents = Pad(a.contacts, p)]
    OBVIOUS
  <2>2. PICK c : c = [Idle EXCEPT !.arg = a, !.pc = "upload"]
    OBVIOUS
  <2>3. /\ call[t].pc = "idle" /\ call' = [call EXCEPT ![t] = c] /\ up' = [up EXCEPT ![t] = u]
        /\ stored' = [stored EXCEPT ![t] = stored[t]] /\ down' = [down EXCEPT ![t] = down[t]]
    BY <1>3, <1>6, <2>1, <2>2 DEF StartContacts, Set, StartUpload, SetUp
  <2>4. ContactList(Pad(a.contacts, p))
    BY PadKeepsList DEF Arguments
  <2>5. u.step = "form" /\ u.contents = Pad(a.contacts, p)
    BY <2>1 DEF NoUpload
  <2>6. ListOK(c, u, stored[t], down[t])
    BY <1>1, <2>3, <2>4, <2>5 DEF ListOK
  <2> QED BY <2>3, <2>6, ListKeeps
<1>7. ASSUME NEW t \in Tasks, NEW a \in Calls[t], StartForeign(t, a)
      PROVE  ListInv'
  <2>1. PICK u : u = [NoUpload EXCEPT !.step = "foreign"]
    OBVIOUS
  <2>2. PICK c : c = [Idle EXCEPT !.arg = a, !.pc = "done", !.ret = "Ok"]
    OBVIOUS
  <2>3. PICK obj : obj = Encrypt(t, a.contacts)
    OBVIOUS
  <2>4. /\ call[t].pc = "idle" /\ call' = [call EXCEPT ![t] = c] /\ up' = [up EXCEPT ![t] = u]
        /\ stored' = [stored EXCEPT ![t] = obj] /\ down' = [down EXCEPT ![t] = down[t]]
    BY <1>3, <1>7, <2>1, <2>2, <2>3 DEF StartForeign, Set, ForeignUpload, SetUp
  <2>5. u.step = "foreign" /\ u.contents = <<>> /\ c.pc = "done" /\ obj.contents = a.contacts
    BY <2>1, <2>2, <2>3 DEF NoUpload, Idle, Encrypt
  <2>6. ContactList(<<>>)
    BY DEF ContactList
  <2>7. ListOK(c, u, obj, down[t])
    BY <1>1, <2>4, <2>5, <2>6 DEF ListOK
  <2> QED BY <2>4, <2>7, ListKeeps
<1>8. ASSUME NEW t \in Tasks, CallStep(t) PROVE ListInv'
  <2>1. CASE \/ \E a \in Calls[t], p \in Brackets : StartContacts(t, a, p)
             \/ \E a \in Calls[t] : StartForeign(t, a)
    BY <1>6, <1>7, <2>1
  <2>2. CASE \E a \in Calls[t] : StartMessage(t, a) \/ StartGroup(t, a) \/ StartReceipt(t, a)
                                   \/ StartSync(t, a)
    <3>1. call[t].pc # "done" /\ UNCHANGED attachmentVars /\ \E c : call' = [call EXCEPT ![t] = c]
      BY <2>2 DEF StartMessage, StartGroup, StartReceipt, StartSync, Set, Quiet
    <3> QED BY <1>4, <3>1
  <2>3. CASE NoteToSelf(t) \/ SyncOthers(t) \/ SendSync(t) \/ SyncGroup(t)
    <3>1. call[t].pc # "done" /\ UNCHANGED attachmentVars /\ \E c : call' = [call EXCEPT ![t] = c]
      BY <2>3 DEF NoteToSelf, SyncOthers, SendSync, SyncGroup, Return, Set, Quiet, Sent
    <3> QED BY <1>4, <3>1
  <2>4. CASE \/ SendToRecipient(t) \/ SendToMember(t) \/ MembersDone(t) \/ SendReceipt(t)
             \/ ContactsUploaded(t) \/ Drop(t)
    <3>1. call[t].pc # "done" /\ UNCHANGED attachmentVars /\ \E c : call' = [call EXCEPT ![t] = c]
      BY <2>4 DEF SendToRecipient, SendToMember, MembersDone, SendReceipt, ContactsUploaded, Drop,
                  Return, Set, Quiet, Sent
    <3> QED BY <1>4, <3>1
  <2> QED BY <1>8, <2>1, <2>2, <2>3, <2>4, Zenon DEF CallStep
<1>9. ASSUME NEW t \in Tasks, call[t].pc = "upload", UploadStep(t), Unaffected PROVE ListInv'
  <2>1. up[t] \in UploadLocals /\ ListOK(call[t], up[t], stored[t], down[t])
    BY <1>1 DEF SendInv, UploadOK
  <2>2. \E u, obj : /\ up' = [up EXCEPT ![t] = u] /\ stored' = [stored EXCEPT ![t] = obj]
                    /\ u.contents = up[t].contents /\ u.step # "foreign"
                    /\ \/ obj = stored[t] \/ obj = NoBlob
                       \/ obj = Encrypt(t, up[t].contents)
    <3>1. ASSUME NEW cdn \in CdnNumbers, GetForm(t, cdn)
          PROVE  /\ up' = [up EXCEPT ![t] = [up[t] EXCEPT !.step = "url", !.cdn = cdn]]
                 /\ stored' = [stored EXCEPT ![t] = stored[t]]
      BY <1>3, <3>1 DEF GetForm, SetUp
    <3>2. ASSUME NEW cdn
          PROVE  LET u == [up[t] EXCEPT !.step = "url", !.cdn = cdn]
                 IN  u.contents = up[t].contents /\ u.step # "foreign"
      BY <2>1 DEF UploadLocals
    <3>3. ASSUME GetUploadUrl(t)
          PROVE  /\ up' = [up EXCEPT ![t] = [up[t] EXCEPT !.step = "resume"]]
                 /\ stored' = [stored EXCEPT ![t] = NoBlob]
      BY <3>3 DEF GetUploadUrl, SetUp
    <3>4. ASSUME UnknownCdnVersion(t) \/ UploadFails(t)
          PROVE  /\ up' = [up EXCEPT ![t] = [up[t] EXCEPT !.step = "failed"]]
                 /\ stored' = [stored EXCEPT ![t] = stored[t]]
      BY <1>3, <3>4 DEF UnknownCdnVersion, UploadFails, SetUp
    <3>5. ASSUME NEW step \in {"resume", "failed"}
          PROVE  LET u == [up[t] EXCEPT !.step = step]
                 IN  u.contents = up[t].contents /\ u.step # "foreign"
      BY <2>1 DEF UploadLocals
    <3>6. ASSUME GetResumeInfo(t)
          PROVE  /\ up' = [up EXCEPT ![t] = [up[t] EXCEPT !.step = "put", !.offset = Received(t)]]
                 /\ stored' = [stored EXCEPT ![t] = stored[t]]
      BY <1>3, <3>6 DEF GetResumeInfo, SetUp
    <3>7. ASSUME NEW n
          PROVE  LET u == [up[t] EXCEPT !.step = "put", !.offset = n]
                 IN  u.contents = up[t].contents /\ u.step # "foreign"
      BY <2>1 DEF UploadLocals
    <3>8. ASSUME NEW answered \in BOOLEAN, PutObject(t, answered)
          PROVE  /\ \/ up' = [up EXCEPT ![t] = [up[t] EXCEPT !.step = "done", !.digest = Encrypt(t, Body(t))]]
                    \/ up' = [up EXCEPT ![t] = [up[t] EXCEPT !.step = "failed"]]
                 /\ stored' = [stored EXCEPT ![t] = Encrypt(t, up[t].contents)]
      BY <3>8 DEF PutObject, SetUp
    <3>9. ASSUME NEW x
          PROVE  LET u == [up[t] EXCEPT !.step = "done", !.digest = x]
                 IN  u.contents = up[t].contents /\ u.step # "foreign"
      BY <2>1 DEF UploadLocals
    <3>10. CASE \E cdn \in CdnNumbers : GetForm(t, cdn)
      BY <3>1, <3>2, <3>10
    <3>11. CASE GetUploadUrl(t)
      BY <3>3, <3>5, <3>11
    <3>12. CASE UnknownCdnVersion(t) \/ UploadFails(t)
      BY <3>4, <3>5, <3>12
    <3>13. CASE GetResumeInfo(t)
      BY <3>6, <3>7, <3>13
    <3>14. CASE \E answered \in BOOLEAN : PutObject(t, answered)
      BY <3>5, <3>8, <3>9, <3>14
    <3> QED BY <1>9, <3>10, <3>11, <3>12, <3>13, <3>14 DEF UploadStep
  <2>3. PICK u, obj : /\ up' = [up EXCEPT ![t] = u] /\ stored' = [stored EXCEPT ![t] = obj]
                      /\ u.contents = up[t].contents /\ u.step # "foreign"
                      /\ \/ obj = stored[t] \/ obj = NoBlob
                         \/ obj = Encrypt(t, up[t].contents)
    BY <2>2
  <2>4. call' = [call EXCEPT ![t] = call[t]] /\ down' = [down EXCEPT ![t] = down[t]]
    <3>1. down' = down
      BY <1>9 DEF UploadStep, GetForm, GetUploadUrl, UnknownCdnVersion, GetResumeInfo, PutObject,
                  UploadFails, SetUp
    <3> QED BY <1>3, <1>9, <3>1 DEF Unaffected
  <2>5. Encrypt(t, up[t].contents).contents = up[t].contents
    BY DEF Encrypt
  <2>6. ListOK(call[t], u, obj, down[t])
    BY <1>9, <2>1, <2>3, <2>5 DEF ListOK
  <2> QED BY <2>3, <2>4, <2>6, ListKeeps
<1>10. ASSUME NEW t \in Tasks, Announced(t), DownloadStep(t), Unaffected PROVE ListInv'
  <2>1. call[t].pc = "done"
    BY <1>1, <1>10, CallFacts DEF Announced, ListOK, ContactsTrue
  <2>2. PICK d : /\ down' = [down EXCEPT ![t] = d] /\ UNCHANGED <<up, stored>>
                 /\ down[t].step # "read"
                 /\ \/ d = [down[t] EXCEPT !.step = "stream"] /\ stored[t] # NoBlob
                    \/ d = [down[t] EXCEPT !.step = "failed"]
                    \/ d = [down[t] EXCEPT !.step = "panic"]
                    \/ /\ d = [step |-> "read", items |-> Items(stored[t].contents)]
                       /\ down[t].step = "stream"
    BY <1>10 DEF DownloadStep, GetAttachment, GetAttachmentFails, ReadContacts, StreamBreaks, SetDown
  <2>3. /\ call' = [call EXCEPT ![t] = call[t]] /\ up' = [up EXCEPT ![t] = up[t]]
        /\ stored' = [stored EXCEPT ![t] = stored[t]]
    BY <1>3, <1>10, <2>2 DEF Unaffected
  <2>4. /\ d.step \in {"stream", "failed", "panic", "read"} \/ d.step = down[t].step
        /\ d.step = "stream" => stored[t] # NoBlob \/ d.step = down[t].step
        /\ d.step = "read" => down[t].step = "stream" /\ d.items = Items(stored[t].contents)
    <3>1. ASSUME NEW x PROVE LET e == [down[t] EXCEPT !.step = x]
                             IN  e.step = x \/ e.step = down[t].step
      OBVIOUS
    <3>2. CASE d = [down[t] EXCEPT !.step = "stream"] /\ stored[t] # NoBlob
      BY <2>2, <3>1, <3>2
    <3>3. CASE d = [down[t] EXCEPT !.step = "failed"]
      BY <2>2, <3>1, <3>3
    <3>4. CASE d = [down[t] EXCEPT !.step = "panic"]
      BY <2>2, <3>1, <3>4
    <3>5. CASE /\ d = [step |-> "read", items |-> Items(stored[t].contents)]
               /\ down[t].step = "stream"
      BY <3>5
    <3> QED BY <2>2, <3>2, <3>3, <3>4, <3>5
  <2>5. ListOK(call[t], up[t], stored[t], d)
    BY <1>1, <2>1, <2>4 DEF ListOK
  <2> QED BY <2>2, <2>3, <2>5, ListKeeps
<1>11. CASE \E d \in OtherDevices : ChangeLinked(d) \/ MeetDevice(d)
  BY <1>5, <1>11 DEF ChangeLinked, MeetDevice
<1>12. CASE UNCHANGED vars
  BY <1>5, <1>12 DEF vars
<1> QED BY <1>8, <1>9, <1>10, <1>11, <1>12 DEF Next, Terminated

-----------------------------------------------------------------------------
(* The theorems *)

\* At first there are no calls.
LEMMA InitOK == Init => SendInv
<1> SUFFICES ASSUME Init
             PROVE  SendInv
  OBVIOUS
<1>1. /\ call = [t \in Tasks |-> Idle] /\ accepted = [t \in Tasks |-> <<>>]
      /\ up = [t \in Tasks |-> NoUpload] /\ stored = [t \in Tasks |-> NoBlob]
  BY DEF Init, AttachmentInit
<1>2. Idle \in Locals /\ Idle.results = {} /\ Phase(Idle, <<>>) /\ Idle.pc = "idle"
  <2>1. <<>> \in Seq(People) /\ <<>> \in Seq(Token)
    OBVIOUS
  <2> QED
    BY <2>1 DEF Idle, NoCall, Locals, Result, Phase
<1>3. CallOK(Idle, <<>>, NoUpload)
  BY <1>2, FreshOK
<1>4. ASSUME NEW t \in Tasks
      PROVE  UploadOK(t, NoUpload, NoBlob)
  <2>1. <<>> \in Seq(Tokens)
    OBVIOUS
  <2> QED
    BY <2>1 DEF UploadOK, UploadTrue, NoUpload, UploadLocals, Objects
<1> QED
  BY <1>1, <1>3, <1>4 DEF SendInv, Shapes

\* Every step of a call keeps the invariant.
LEMMA CallStepKeeps ==
    ASSUME SendInv, NEW t \in Tasks, CallStep(t)
    PROVE  SendInv'
  BY StartKeeps, StartContactsKeeps, StartForeignKeeps, NoteKeeps, SendToRecipientKeeps,
     SyncOthersKeeps, SendToMemberKeeps, MembersDoneKeeps, SyncGroupKeeps, ReceiptKeeps,
     SendSyncKeeps, ContactsUploadedKeeps, DropKeeps DEF CallStep

\* A call knows what the server took from it, wherever it is.
LEMMA Invariance == Spec => []SendInv
<1>1. ASSUME SendInv, [Next]_vars
      PROVE  SendInv'
  <2>1. ASSUME NEW t \in Tasks, CallStep(t)
        PROVE  SendInv'
    BY <1>1, <2>1, CallStepKeeps
  <2>2. ASSUME NEW t \in Tasks, call[t].pc = "upload", UploadStep(t), Unaffected
        PROVE  SendInv'
    BY <1>1, <2>2, UploadStepKeeps
  <2>3. ASSUME NEW u \in Uploads, DownloadStep(u), Unaffected
        PROVE  SendInv'
    <3>1. up' = up /\ stored' = stored
      BY <2>3 DEF DownloadStep, GetAttachment, GetAttachmentFails, ReadContacts, StreamBreaks,
                  SetDown
    <3>2. call' = call /\ accepted' = accepted
      BY <2>3 DEF Unaffected
    <3> QED
      BY <1>1, <3>1, <3>2, RestKeeps
  <2>4. ASSUME NEW d \in OtherDevices, ChangeLinked(d) \/ MeetDevice(d)
        PROVE  SendInv'
    BY <1>1, <2>4, RestKeeps DEF ChangeLinked, MeetDevice, attachmentVars
  <2>5. CASE UNCHANGED vars
    BY <1>1, <2>5, RestKeeps DEF vars, attachmentVars
  <2> QED
    BY <1>1, <2>1, <2>2, <2>3, <2>4, <2>5 DEF Next, Terminated
<1> QED
  BY <1>1, InitOK, PTL DEF Spec

\* Whatever send fails or is dropped, a transcript that this account's other
\* devices get names all recipients for whom the call has an Ok, names only such,
\* and says of each how the message reached it.
THEOREM TranscriptsNameTheReached == Spec => []TranscriptIsTrue
<1>1. ASSUME SendInv
      PROVE  TranscriptIsTrue
  <2> SUFFICES ASSUME NEW t \in Tasks, NEW i \in Took(t, Self, {"transcript"})
               PROVE  /\ \A s \in accepted[t][i].status :
                            \E j \in DOMAIN accepted[t] :
                               /\ j < i /\ accepted[t][j].to = s.to
                               /\ accepted[t][j].sealed = s.sealed
                      /\ \A r \in call[t].results :
                            r.ok => [to |-> r.to, sealed |-> r.sealed] \in accepted[t][i].status
    BY DEF TranscriptIsTrue
  <2>1. i \in DOMAIN accepted[t] /\ accepted[t][i].kind = "transcript"
    BY DEF Took
  <2> QED
    BY <1>1, <2>1, CallFacts DEF TranscriptsTrue
<1> QED
  BY <1>1, Invariance, PTL

\* send_message that returns Ok has told the other devices whenever the server knew
\* of any, and fails only if somebody was not reached or there was somebody to
\* tell; whatever other calls do to the sessions with them meanwhile.
THEOREM ResultsHold == Spec => []ResultIsTrue
<1>1. ASSUME SendInv
      PROVE  NoSilentUnsynced
  <2> SUFFICES ASSUME NEW t \in Tasks,
                      call[t].arg.op = "message", call[t].ret = "Ok",
                      call[t].arg.content \in {"data", "sync"}, Recipient(t) # Self,
                      NEW i \in Took(t, Recipient(t), {"data", "sync"}),
                      ~accepted[t][i].sealed, accepted[t][i].others
               PROVE  Took(t, Self, OwnKinds) # {}
    BY DEF NoSilentUnsynced
  <2>1. Unsynced(call[t], accepted[t])
    BY DEF Unsynced, Took, Recipient
  <2>2. Told(accepted[t])
    BY <1>1, <2>1, CallFacts DEF OkTrue
  <2> QED
    BY <2>2 DEF Told, Took, OwnKinds
<1>2. ASSUME SendInv
      PROVE  FailureIsReal
  BY <1>2, CallFacts DEF FailureIsReal, ErrTrue
<1>3. SendInv => ResultIsTrue
  BY <1>1, <1>2 DEF ResultIsTrue
<1> QED
  BY <1>3, Invariance, PTL

\* A finished upload's pointer has the digest of the object the CDN stores, and a
\* contacts message that other devices get follows a finished upload, on both
\* CDNs and for any padding.
THEOREM PointersHold == Spec => []PointersResolve
<1>1. ASSUME SendInv
      PROVE  PointersResolve
  <2>1. ASSUME NEW u \in Uploads, up[u].step = "done"
        PROVE  stored[u] = up[u].digest /\ up[u].size <= Len(stored[u].contents)
    <3>1. /\ stored[u] = up[u].digest /\ stored[u] = Encrypt(u, up[u].contents)
          /\ up[u].size <= Len(up[u].contents)
      BY <1>1, <2>1 DEF SendInv, UploadOK, UploadTrue
    <3>2. stored[u].contents = up[u].contents
      BY <3>1 DEF Encrypt
    <3> QED
      BY <3>1, <3>2
  <2>2. ASSUME NEW t \in Tasks, Took(t, Self, {"contacts"}) # {}
        PROVE  up[t].step = "done"
    BY <1>1, <2>2, CallFacts DEF Took, ContactsTrue
  <2> QED
    BY <2>1, <2>2 DEF PointersResolve
<1> QED
  BY <1>1, Invariance, PTL

\* Whatever its length, the avatars it announces and brings, and its padding, and
\* whatever broke off before, a list that retrieve_contacts reads to its end yields
\* the contacts that were uploaded, in their order, up to the first whose avatar is
\* announced and missing; if none is, all of them, and errors only for the padding.
THEOREM ListsArrive == Spec => []ContactsArrive
<1>1. Init => ListInv
  BY ListInit
<1>2. SendInv /\ ListInv /\ [Next]_vars => ListInv'
  BY ListNext
<1>3. SendInv /\ ListInv => ContactsArrive
  <2> SUFFICES ASSUME SendInv, ListInv, NEW u \in Uploads, down[u].step = "read"
               PROVE  NamesThenErrors(down[u].items, stored[u].contents)
    BY DEF ContactsArrive, NamesThenErrors, Legible, AllBring
  <2>1. /\ stored[u] # NoBlob /\ ContactList(stored[u].contents)
        /\ down[u].items = Items(stored[u].contents)
    BY DEF ListInv, ListOK
  <2>2. stored[u].contents \in Seq(Tokens)
    BY <2>1 DEF SendInv, UploadOK, Objects
  <2> QED BY <2>1, <2>2, ItemsAreNames
<1> QED BY <1>1, <1>2, <1>3, Invariance, PTL DEF Spec
=============================================================================
