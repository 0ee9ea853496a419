--------------------------- MODULE GroupsManager ---------------------------
(***************************************************************************)
(* GroupsManager (src/src/groups_v2/manager.rs) and the group requests of  *)
(* PushService (src/src/push_service/mod.rs): clients that create, fetch   *)
(* and patch one group, each with a credential of the day out of its cache,*)
(* while days pass and other clients change the group.                     *)
(*                                                                         *)
(* External: the group server, which applies a change built on its current *)
(* revision; the applications, which make one edit each, apply the signed  *)
(* changes that arrive in messages in order, and after a conflict fetch    *)
(* the group and build the change again.                                   *)
(***************************************************************************)
EXTENDS GroupOperations

CONSTANTS Clients,      \* the ACIs of the clients
          ForeignEdits, \* edits of other clients: [by, changes]
          Creator,
          Candidates0,  \* the candidates the creator gives: [id, credential]
          Given,        \* the attributes a group is created with
          Intents,      \* the edits: sets of changes
          CredentialDays, \* days after today credentials are issued for (7)
          MaxDay, MaxVersion, MaxFailures  \* bounds

\* The application names each candidate once; whether the creator is among them
\* does not matter.
ASSUME GroupsAssumption ==
    /\ CredentialDays \in Nat /\ MaxDay \in Nat
    /\ IsFiniteSet(Candidates0)
    /\ \A m, n \in Candidates0 : m.id = n.id => m = n
    /\ \A m \in Candidates0 : m.credential \in BOOLEAN
    /\ None \notin {"InvalidFrame", "ZkGroupVerificationFailure", "Unauthorized"}
    /\ \A m \in Candidates0 : MemberPresentation(m.id, 1) # None
    /\ MemberPresentation(Creator, 1) # None

VARIABLES server,   \* external: [group, log], group None before it is created
          history,  \* history[v + 1]: what revision v means
          day, cli, failures

vars == <<server, history, day, cli, failures>>

Version == Len(history) - 1

-----------------------------------------------------------------------------
(* External: what a change does, to an encrypted group or to a read one *)

Without(S, id) == {m \in S : m.id # id}
Entry(S, id) == CHOOSE m \in S : m.id = id
Has(S, id) == \E m \in S : m.id = id
Update(S, id, f, v) == Without(S, id) \cup {[Entry(S, id) EXCEPT ![f] = v]}
Member(id, role, key, label) ==
    [kind |-> "NewMember", id |-> id, role |-> role, key |-> key, label |-> label]

Applied(g, c) ==
    CASE c.kind = "NewMember" -> [g EXCEPT !.members = @ \cup {c}]
      [] c.kind = "DeleteMember" -> [g EXCEPT !.members = Without(@, c.id)]
      [] c.kind = "ModifyMemberRole" -> [g EXCEPT !.members = Update(@, c.id, "role", c.role)]
      [] c.kind = "ModifyMemberProfileKey" ->
            [g EXCEPT !.members = Update(@, c.id, "key", c.key)]
      [] c.kind = "MemberLabel" -> [g EXCEPT !.members = Update(@, c.id, "label", c.label)]
      [] c.kind = "NewPendingMember" -> [g EXCEPT !.pending = @ \cup {c}]
      [] c.kind = "DeletePendingMember" -> [g EXCEPT !.pending = Without(@, c.id)]
      [] c.kind = "PromotePendingMember" ->
            [g EXCEPT !.pending = Without(@, c.id),
                      !.members = @ \cup {Member(c.id, Entry(g.pending, c.id).role, c.key, None)}]
      [] c.kind = "PromotePendingPniAci" ->
            [g EXCEPT !.pending = Without(@, c.pni),
                      !.members = @ \cup {Member(c.id, Entry(g.pending, c.pni).role, c.key, None)}]
      [] c.kind = "NewRequestingMember" -> [g EXCEPT !.requesting = @ \cup {c}]
      [] c.kind = "DeleteRequestingMember" -> [g EXCEPT !.requesting = Without(@, c.id)]
      [] c.kind = "PromoteRequestingMember" ->
            [g EXCEPT !.requesting = Without(@, c.id),
                      !.members = @ \cup {Member(c.id, c.role, Entry(g.requesting, c.id).key, None)}]
      [] c.kind = "AddBannedMember" -> [g EXCEPT !.banned = @ \cup {c}]
      [] c.kind = "DeleteBannedMember" -> [g EXCEPT !.banned = Without(@, c.id)]
      [] c.kind = "Attribute" -> [g EXCEPT !.attr[c.attr] = c.value]

\* A sequence of sets of changes, each of one kind.  The changes an edit makes
\* together concern different entries: their order does not matter.
InKinds(S) == SetToSeq({{c \in S : c.kind = k} : k \in {c.kind : c \in S}})
ApplyAll(g, chunks) ==
    LET f[i \in 0 .. Len(chunks)] ==
          IF i = 0 THEN g ELSE FoldSet(LAMBDA c, h : Applied(h, c), f[i - 1], chunks[i])
    IN  f[Len(chunks)]

\* The server stores who a presentation presents.
Extracted(a) == [f \in DOMAIN a \ {"presentation"} |->
                   IF f \in {"id", "key"} THEN Presented(a)[f] ELSE a[f]]

\* An application applies changes as they are read: a password is text.
FromText(c) == IF c.kind = "Attribute" /\ c.attr = "password"
               THEN [c EXCEPT !.value = @.base64] ELSE c
Advance(view, read) ==
    [version |-> read.version,
     group |-> ApplyAll(view.group, [i \in DOMAIN read.changes |->
                                       {FromText(c) : c \in read.changes[i]}])]

\* What an edit means: an empty description or label is none, and what nobody
\* can read is unset.
Meaning(c) ==
    IF c.kind = "MemberLabel"
    THEN [c EXCEPT !.label = IF @ \in {"", Garbled} THEN None ELSE @]
    ELSE IF c.kind # "Attribute" THEN c
    ELSE IF c.attr = "description" /\ c.value \in {"", Garbled} THEN [c EXCEPT !.value = None]
    ELSE IF c.attr = "timer" /\ c.value = Garbled THEN [c EXCEPT !.value = None]
    ELSE IF c.attr = "title" /\ c.value = Garbled THEN [c EXCEPT !.value = ""]
    ELSE c
Edited(g, intent) == ApplyAll(g, InKinds({Meaning(c) : c \in intent}))

\* What the group is created as: everyone once, the creator its administrator.
Created ==
    [attr |-> [t \in Attrs |-> IF t \in DOMAIN Given THEN Given[t]
                               ELSE IF t \in {"announcementsOnly", "terminated"} THEN "off"
                               ELSE Unset(t)],
     members |-> {Member(Creator, "Administrator", 1, None)} \cup
                 {Member(m.id, "Default", 1, None) :
                    m \in {n \in Candidates0 : n.credential /\ n.id # Creator}},
     pending |-> {[kind |-> "NewPendingMember", id |-> m.id, role |-> "Default", by |-> Creator] :
                    m \in {n \in Candidates0 : ~n.credential /\ n.id # Creator}},
     requesting |-> {}, banned |-> {}]

\* Whether the server lets the editor make a change, and whether it makes sense.
Allowed(g, by, actions) ==
    \/ Has(g.members, by)
    \/ \A a \in actions : a.kind \in {"PromotePendingMember", "PromotePendingPniAci"} /\ a.id = by
Legal(g, a) ==
    CASE a.kind = "NewMember" -> ~Has(g.members, a.id)
      [] a.kind \in {"DeleteMember", "ModifyMemberRole", "ModifyMemberProfileKey",
                     "MemberLabel"} -> Has(g.members, a.id)
      [] a.kind = "NewPendingMember" -> ~Has(g.members, a.id) /\ ~Has(g.pending, a.id)
      [] a.kind \in {"DeletePendingMember", "PromotePendingMember"} -> Has(g.pending, a.id)
      [] a.kind = "PromotePendingPniAci" -> Has(g.pending, a.pni) /\ ~Has(g.members, a.id)
      [] a.kind = "NewRequestingMember" ->
            ~Has(g.members, a.id) /\ ~Has(g.requesting, a.id) /\ ~Has(g.banned, a.id)
      [] a.kind \in {"DeleteRequestingMember", "PromoteRequestingMember"} ->
            Has(g.requesting, a.id)
      [] a.kind = "AddBannedMember" -> ~Has(g.banned, a.id)
      [] a.kind = "DeleteBannedMember" -> Has(g.banned, a.id)
      [] a.kind = "Attribute" -> TRUE

-----------------------------------------------------------------------------

\* intent: the edit it wants to make, once it knows the group; view: the group
\* as the application knows it; cache: the days it holds credentials for; op,
\* request: the call; today, began: the day the call read and the day it began.
\* The creator's cache is empty, the others have the credentials of the week
\* already.
Idle(c) ==
        [pc |-> "idle", view |-> None, intent |-> None, op |-> None,
         cache |-> IF c = Creator THEN {} ELSE 0 .. MaxDay,
         request |-> None, today |-> 0, began |-> 0, last |-> None]

Init ==
    /\ server = [group |-> None, log |-> << >>]
    /\ history = << >>
    /\ day = 0
    /\ cli = [c \in Clients |-> Idle(c)]
    /\ failures = 0

Set(c, f) == cli' = [cli EXCEPT ![c] = f]

\* A call ends: with what error (None if it succeeded, "Created" if it was
\* create_group) and what is next.  A
\* client that is done is followed no further.
Return(r, pc, error) ==
    [r EXCEPT !.pc = pc, !.last = error, !.request = None,
              !.cache = IF pc = "idle" THEN @ ELSE {},
              !.intent = IF pc = "idle" THEN @ ELSE None,
              !.op = IF error = None THEN None ELSE @,
              !.today = IF error = "Unauthorized" THEN @ ELSE 0,
              !.began = IF error = "Unauthorized" THEN @ ELSE 0]

-----------------------------------------------------------------------------
(* The credential of the day *)

\* Mutant: the redemption time is read after the credential was.
RedemptionTimeNow(c) == day
\* current_days_seconds is read once, when the call begins.
RedemptionTime(c) == cli[c].today

\* get_authorization_for_today: the credential of the day the call read must
\* be in the cache, and get_authorization_string verifies it for that day.
Authorized(c, r, cache) ==
    [r EXCEPT !.cache = cache,
              !.pc = IF r.today \in cache /\ r.today = RedemptionTime(c) THEN "send" ELSE "failed",
              !.last = IF r.today \notin cache THEN "InvalidFrame"
                       ELSE IF r.today # RedemptionTime(c) THEN "ZkGroupVerificationFailure"
                       ELSE @]

\* Every request begins here: the day is read; a cached credential is used
\* without a round trip.
Begin(c, r) ==
    /\ Set(c, [r EXCEPT !.today = day, !.began = day,
                        !.pc = IF day \in r.cache THEN "send" ELSE "credentials"])
    /\ UNCHANGED <<server, history, day, failures>>

\* redemptionStartSeconds .. redemptionEndSeconds
Window(today) == today .. today + CredentialDays

\* /v1/certificate/auth/group, for the days that were asked for; the cache is
\* overwritten.  (A request that fails leaves the cache alone: the call that is
\* made again is one that begins later.)
Credentials(c) ==
    /\ cli[c].pc = "credentials"
    /\ Set(c, Authorized(c, cli[c], Window(cli[c].today)))
    /\ UNCHANGED <<server, history, day, failures>>

Ended == \A c \in Clients : cli[c].pc \in {"settled", "undecodable", "failed"}

Midnight ==
    /\ day < MaxDay /\ ~Ended
    /\ day' = day + 1
    /\ UNCHANGED <<server, history, cli, failures>>

-----------------------------------------------------------------------------
(* The application: create or fetch, then edit *)

\* The edit is built against the revision the application knows.
Actions(c, intent, credential) ==
    [version |-> cli[c].view.version + 1, actions |-> {Build(x, credential) : x \in intent}]

\* The edits that make sense.
Open(c) ==
    LET g == cli[c].view.group
    IN  {i \in IF cli[c].intent = None THEN Intents[c] ELSE {cli[c].intent} :
           \A x \in i : Legal(g, x)}

Ready(c) == /\ cli[c].pc = "idle" /\ cli[c].view # None
            /\ cli[c].last = None \/ (cli[c].last = "Unauthorized" /\ cli[c].op = "patch")

Create(c) ==
    /\ cli[c].pc = "idle" /\ cli[c].view = None
    /\ c = Creator
    /\ (cli[c].op # "fetch" /\ cli[c].last \notin {"Created", "Http"})
       \/ cli[c].last = "NotFoundError"
    /\ Begin(c, [cli[c] EXCEPT !.op = "create",
                               !.request = EncryptGroupWithCredentials(c, Candidates0, Given)])

\* After a create, a conflict or a lost answer, and when a message tells of the
\* group.
Fetch(c) ==
    /\ cli[c].pc = "idle"
    /\ \/ cli[c].last \in {"GroupChangeConflict", "Created", "Http"}
       \/ cli[c].last = "Unauthorized" /\ cli[c].op = "fetch"
       \/ cli[c].view = None /\ c # Creator /\ server.group # None
    /\ Begin(c, [cli[c] EXCEPT !.op = "fetch", !.request = None])

Patch(c) ==
    /\ Ready(c) /\ cli[c].view.version < MaxVersion
    /\ \E i \in Open(c), credential \in BOOLEAN :
         /\ credential => \E x \in i : x.kind = "NewMember"
         /\ Begin(c, [cli[c] EXCEPT !.op = "patch", !.intent = i,
                                    !.request = Actions(c, i, credential)])

\* The edit was made, or makes no sense any more.
Settle(c) ==
    /\ Ready(c)
    /\ Open(c) = {} \/ cli[c].view.version = MaxVersion
    /\ Set(c, Return(cli[c], "settled", None))
    /\ UNCHANGED <<server, history, day, failures>>

\* decrypt_group_context: the next change arrives in a message.
Receive(c) ==
    /\ cli[c].pc = "idle" /\ cli[c].view # None
    /\ cli[c].view.version < Version
    /\ LET read == DecryptGroupChange(server.log[cli[c].view.version + 1])
       IN  Set(c, IF read = Fail THEN Return(cli[c], "undecodable", "GroupDecodingError")
                  ELSE [cli[c] EXCEPT !.view = Advance(@, read)])
    /\ UNCHANGED <<server, history, day, failures>>

-----------------------------------------------------------------------------
(* The requests *)

\* External: the day of a presentation may be off by one at the server.
Redeemable(c) == cli[c].today + 1 >= day

Ids(S) == {e.id : e \in S}
WellFormed(g) ==
    LET m == {Extracted(e) : e \in g.members} IN
    /\ Cardinality(Ids(m)) = Cardinality(m)
    /\ Ids(m) \cap Ids(g.pending) = {}

Belongs(c) == Has(server.group.members, EncryptServiceId(c))

Status(c) ==
    LET r == cli[c].request
    IN  CASE ~Redeemable(c) -> 401
          [] Redeemable(c) /\ cli[c].op = "create" -> IF WellFormed(r) THEN 200 ELSE 400
          [] Redeemable(c) /\ cli[c].op = "fetch" ->
               IF server.group = None THEN 404
               ELSE IF Belongs(c) THEN 200 ELSE 403
          [] Redeemable(c) /\ cli[c].op = "patch" ->
               LET acts == {Extracted(a) : a \in r.actions} IN
               IF r.version # Version + 1 THEN 409
               ELSE IF ~Allowed(server.group, EncryptServiceId(c), acts) THEN 403
               ELSE IF \E a \in acts : ~Legal(server.group, a) THEN 400
               ELSE 200

\* baseline_decode: the statuses every endpoint shares.
Baseline(status) ==
    CASE status \in {401, 403} -> "Unauthorized"
      [] status = 404 -> "NotFoundError"
      [] status \in {413, 429} -> "RateLimitExceeded"
      [] status = 423 -> "Locked"
      [] status = 499 -> "DeprecatedVersion"
      [] status = 508 -> "ServerRejected"
      [] OTHER -> "UnhandledResponseCode"

\* Mutant: a conflict falls through to the baseline.
PatchGroupErrorsPlain(status) ==
    CASE status = 400 -> "GroupChangeRejected"
      [] status = 403 -> "GroupChangeForbidden"
      [] OTHER -> Baseline(status)
PatchGroupErrors(status) ==
    CASE status = 400 -> "GroupChangeRejected"
      [] status = 403 -> "GroupChangeForbidden"
      [] status = 409 -> "GroupChangeConflict"
      [] OTHER -> Baseline(status)

ErrorOf(c) == IF cli[c].op = "patch" THEN PatchGroupErrors(Status(c)) ELSE Baseline(Status(c))

\* External: what the application does with an error; a call that lasted past
\* the day of its credential is made again.
After(c, error) ==
    CASE error \in {"GroupChangeConflict", "NotFoundError"} -> "idle"
      [] error = "Unauthorized" -> IF Redeemable(c) THEN "settled" ELSE "idle"
      [] error \in {"GroupChangeForbidden", "GroupChangeRejected"} -> "settled"
      [] OTHER -> "failed"

Refused(c) ==
    /\ cli[c].pc = "send" /\ Status(c) # 200
    /\ Set(c, Return(cli[c], After(c, ErrorOf(c)), ErrorOf(c)))
    /\ UNCHANGED <<server, history, day, failures>>

\* What the server does with a request it accepts; a change is signed with its
\* presentations or with what they present.
Serve(c, signed) ==
    LET r == cli[c].request
    IN  \/ /\ cli[c].op = "create"
           /\ server' = [group |-> [r EXCEPT !.members = {Extracted(e) : e \in @}], log |-> << >>]
           /\ history' = <<Created>>
        \/ /\ cli[c].op = "patch"
           /\ server' = [group |-> ApplyAll(server.group, InKinds({Extracted(a) : a \in r.actions})),
                         log |-> Append(server.log, signed)]
           /\ history' = Append(history, Edited(history[Len(history)], cli[c].intent))

Signed(c, strip) ==
    GroupChange(c, cli[c].request.version,
                IF strip THEN {Extracted(a) : a \in cli[c].request.actions}
                ELSE cli[c].request.actions)

CreateAnswered(c) ==
    /\ cli[c].pc = "send" /\ cli[c].op = "create" /\ Status(c) = 200
    /\ Serve(c, None)
    \* Ok(()): the answer's body is ignored, the application fetches the group
    /\ Set(c, Return(cli[c], "idle", "Created"))
    /\ UNCHANGED <<day, failures>>

FetchAnswered(c) ==
    /\ cli[c].pc = "send" /\ cli[c].op = "fetch" /\ Status(c) = 200
    /\ LET g == DecryptGroup(server.group)
       IN  Set(c, IF g = Fail THEN Return(cli[c], "undecodable", "GroupDecodingError")
                  ELSE [Return(cli[c], "idle", None) EXCEPT
                          !.view = [version |-> Version, group |-> g]])
    /\ UNCHANGED <<server, history, day, failures>>

PatchAnswered(c) ==
    /\ cli[c].pc = "send" /\ cli[c].op = "patch" /\ Status(c) = 200
    /\ \E strip \in {TRUE} \cup {~(\E a \in cli[c].request.actions : Presented(a) # a)} :
         /\ Serve(c, Signed(c, strip))
         /\ LET read == DecryptGroupChange(Signed(c, strip))
            IN  Set(c, IF read = Fail
                       THEN Return(cli[c], "undecodable", "GroupDecodingError")
                       ELSE [Return(cli[c], "settled", None) EXCEPT !.view = Advance(@, read)])
    /\ UNCHANGED <<day, failures>>

\* A request that changes the group, or the answer to it, is lost.  (Losing
\* any other changes nothing: it is made again.)
Lost(c) ==
    /\ cli[c].pc = "send" /\ cli[c].op # "fetch" /\ failures < MaxFailures
    /\ failures' = failures + 1
    /\ Set(c, Return(cli[c], "idle", "Http"))
    /\ \/ UNCHANGED <<server, history>>
       \/ Status(c) = 200 /\
          Serve(c, IF cli[c].op = "patch" THEN Signed(c, TRUE) ELSE None)
    /\ UNCHANGED day

\* External: another client changes the group, with actions that this library
\* does not build or with fields that nobody can read.
ForeignEdit(e) ==
    /\ server.group # None /\ Version < MaxVersion
    /\ LET actions == {Build(x, FALSE) : x \in e.changes}
           stored  == {Extracted(a) : a \in actions}
       IN  /\ \A a \in stored : Legal(server.group, a)
           /\ server' = [group |-> ApplyAll(server.group, InKinds(stored)),
                         log |-> Append(server.log, GroupChange(e.by, Version + 1, actions))]
           /\ history' = Append(history, Edited(history[Len(history)], e.changes))
    /\ UNCHANGED <<day, cli, failures>>

Step(c) ==
    \/ Create(c) \/ Fetch(c) \/ Patch(c) \/ Settle(c)
    \/ Credentials(c)
    \/ Refused(c) \/ CreateAnswered(c) \/ FetchAnswered(c) \/ PatchAnswered(c)

Next ==
    \/ \E c \in Clients : Step(c) \/ Receive(c) \/ Lost(c)
    \/ \E e \in ForeignEdits : ForeignEdit(e)
    \/ Midnight
    \/ Ended /\ UNCHANGED vars

Spec == Init /\ [][Next]_vars

-----------------------------------------------------------------------------

Pcs == {"idle", "credentials", "send", "settled", "undecodable", "failed"}

\* What the variables hold; a view is of a revision the group had, and the
\* server has signed one change for every revision after the first.
TypeOK ==
    /\ Len(server.log) = IF history = << >> THEN 0 ELSE Version
    /\ (server.group = None) = (history = << >>)
    /\ \A c \in Clients :
         /\ cli[c].pc \in Pcs
         /\ cli[c].cache \subseteq 0 .. MaxDay + CredentialDays
         /\ cli[c].view # None => cli[c].view.version \in 0 .. Version
    /\ day \in 0 .. MaxDay /\ failures \in 0 .. MaxFailures

\* What a client knows of the group, whether it fetched the group, applied the
\* answer to its own patch or applied changes from messages, is what some
\* revision of the group means: encryption, presentations, the order of the
\* chained changes and unset fields lose nothing and add nothing.
ViewIsARevision ==
    \A c \in Clients : cli[c].view # None =>
        cli[c].view.group = history[cli[c].view.version + 1]

\* A role or an access rule that this version has no name for, or an identifier
\* or profile key that does not decrypt, in any list of the group.
HasUnknown(g) ==
    \/ \E l \in DOMAIN Lists : \E e \in g[l] : \E f \in DOMAIN e : e[f] = Garbled /\ f # "label"
    \/ \E t \in AccessAttrs : g.attr[t] = Garbled

\* The revision a client reads in this step: the next one if the change to it
\* arrives in a message, the current one if the server answers.
RevisionRead(c) == IF cli[c].pc = "idle" THEN cli[c].view.version + 1 ELSE Len(history') - 1

\* A client fails to read a group, or the change that leads to it, exactly if
\* the group has such a value: one of them hides the whole group rather than
\* the entry it is in, and a label, title, description or timer that does not
\* decrypt never hides anything.
OnlyUnknownsFail ==
    [][\A c \in Clients :
         cli'[c].view # cli[c].view \/ (cli[c].pc # "undecodable" /\ cli'[c].pc = "undecodable") =>
           (cli'[c].pc = "undecodable") = HasUnknown(history'[RevisionRead(c) + 1])]_vars

\* A call is refused for its credential only if it took past the next day, or
\* the client is no member; the credential always verifies, cached days ago or
\* fetched across midnight.
AuthHolds ==
    [][\A c \in Clients :
         /\ cli'[c].last \notin {"ZkGroupVerificationFailure", "InvalidFrame"}
         /\ cli[c].pc = "send" /\ cli'[c].pc # "send" /\ cli'[c].last = "Unauthorized" =>
              day > cli[c].began + 1 \/ ~Belongs(c)]_vars

\* No edit ends with an error that does not say what to do: the group is
\* created with each candidate once, a stale revision is known as a conflict
\* and leads to a new attempt, and a client stops only when its edit was made,
\* was refused on its merits or makes no sense any more.
EndsExplained == \A c \in Clients : cli[c].pc # "failed"
=============================================================================
