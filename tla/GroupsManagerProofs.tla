------------------------ MODULE GroupsManagerProofs ------------------------
(***************************************************************************)
(* Proofs about GroupsManager, for any clients, candidates, edits and      *)
(* days: credentials verify, a refusal for a credential is deserved, and   *)
(* no call ends with an error that does not say what to do.                *)
(***************************************************************************)
EXTENDS GroupsManager, FiniteSetTheorems, FunctionTheorems, TLAPS

-----------------------------------------------------------------------------
(* The group that is created *)

\* The entry of a member that is added with a credential, and what the server
\* stores of it.
Admin == BuildAddMemberWithCredential([kind |-> "NewMember", id |-> Creator, key |-> 1,
                                       role |-> "Administrator"])
Stored(id, role) ==
    [kind |-> "NewMember", id |-> EncryptServiceId(id), key |-> EncryptProfileKey(1, id),
     role |-> Code(Roles, role), label |-> None]

\* The server stores what the presentation of an added member says.
LEMMA ExtractedMember ==
    ASSUME NEW id, NEW role, MemberPresentation(id, 1) # None
    PROVE  Extracted(BuildAddMemberWithCredential([kind |-> "NewMember", id |-> id, key |-> 1,
                                                   role |-> role]))
           = Stored(id, role)
<1> DEFINE p == MemberPresentation(id, 1)
           r == Code(Roles, role)
           a == [kind |-> "NewMember", id |-> None, key |-> None, role |-> r,
                 label |-> None, presentation |-> p]
<1>1. BuildAddMemberWithCredential([kind |-> "NewMember", id |-> id, key |-> 1, role |-> role]) = a
  BY DEF BuildAddMemberWithCredential
<1>2. p.id = EncryptServiceId(id) /\ p.key = EncryptProfileKey(1, id)
  BY DEF MemberPresentation
<1> HIDE DEF p, r
<1>3. a.presentation = p /\ DOMAIN a \ {"presentation"} = {"kind", "id", "key", "role", "label"}
  OBVIOUS
<1>4. Presented(a) = p
  BY <1>3 DEF Presented, p
<1>5. Extracted(a) = [f \in {"kind", "id", "key", "role", "label"} |->
                        IF f \in {"id", "key"} THEN p[f] ELSE a[f]]
  BY <1>3, <1>4 DEF Extracted
<1>6. [f \in {"kind", "id", "key", "role", "label"} |-> IF f \in {"id", "key"} THEN p[f] ELSE a[f]]
      = [kind |-> "NewMember", id |-> p.id, key |-> p.key, role |-> r, label |-> None]
  OBVIOUS
<1> QED BY <1>1, <1>2, <1>5, <1>6 DEF Stored, r

\* The candidates that become members, and those that are invited.
Adding == {m \in Candidates0 : m.id # Creator /\ m.credential}
Inviting == {m \in Candidates0 : m.id # Creator /\ ~m.credential}

\* create_group adds who has a credential and invites the others.
LEMMA NewGroup ==
    ASSUME GroupsAssumption
    PROVE  LET g == EncryptGroupWithCredentials(Creator, Candidates0, Given) IN
           /\ {Extracted(e) : e \in g.members}
                = {Stored(Creator, "Administrator")} \cup {Stored(m.id, "Default") : m \in Adding}
           /\ Ids(g.pending) = {EncryptServiceId(m.id) : m \in Inviting}
<1> DEFINE entries == {NewEntry(Creator, m) : m \in Candidates(Creator, Candidates0)}
           g == EncryptGroupWithCredentials(Creator, Candidates0, Given)
           New(m) == BuildAddMemberWithCredential([kind |-> "NewMember", id |-> m.id, key |-> 1,
                                                   role |-> "Default"])
           Inv(m) == BuildAddPending([kind |-> "NewPendingMember", id |-> m.id, role |-> "Default",
                                      by |-> Creator])
<1>1. /\ g.members = {Admin} \cup {e \in entries : e.kind = "NewMember"}
      /\ g.pending = {e \in entries : e.kind = "NewPendingMember"}
  BY DEF EncryptGroupWithCredentials, Admin
<1>2. \A m : New(m).kind = "NewMember"
  BY DEF BuildAddMemberWithCredential
<1>3. \A m : Inv(m).kind = "NewPendingMember" /\ Inv(m).id = EncryptServiceId(m.id)
  BY DEF BuildAddPending
<1>4. \A m \in Candidates(Creator, Candidates0) :
        m \in Candidates0 /\ m.id # Creator /\ NewEntry(Creator, m) = IF m.credential THEN New(m) ELSE Inv(m)
  BY DEF Candidates, NewEntry
<1>5. Adding \subseteq Candidates(Creator, Candidates0) /\ Inviting \subseteq Candidates(Creator, Candidates0)
  BY DEF Adding, Inviting, Candidates
<1>6. \A m \in Candidates(Creator, Candidates0) : m \in Adding \/ m \in Inviting
  BY <1>4 DEF Adding, Inviting
<1>7. \A m \in Adding : m.credential
  BY DEF Adding
<1>8. \A m \in Inviting : ~m.credential
  BY DEF Inviting
<1> HIDE DEF g, New, Inv
<1>9. {e \in entries : e.kind = "NewMember"} = {New(m) : m \in Adding}
  <2>1. ASSUME NEW e \in entries, e.kind = "NewMember" PROVE \E m \in Adding : e = New(m)
    BY <1>3, <1>4, <1>6, <1>8, <2>1
  <2>2. ASSUME NEW m \in Adding PROVE New(m) \in entries /\ New(m).kind = "NewMember"
    BY <1>2, <1>4, <1>5, <1>7
  <2> QED BY <2>1, <2>2
<1>10. {e \in entries : e.kind = "NewPendingMember"} = {Inv(m) : m \in Inviting}
  <2>1. ASSUME NEW e \in entries, e.kind = "NewPendingMember" PROVE \E m \in Inviting : e = Inv(m)
    BY <1>2, <1>4, <1>6, <1>7, <2>1
  <2>2. ASSUME NEW m \in Inviting PROVE Inv(m) \in entries /\ Inv(m).kind = "NewPendingMember"
    BY <1>3, <1>4, <1>5, <1>8
  <2> QED BY <2>1, <2>2
<1>11. \A m \in Adding : Extracted(New(m)) = Stored(m.id, "Default")
  BY ExtractedMember DEF Adding, GroupsAssumption, New
<1>12. Extracted(Admin) = Stored(Creator, "Administrator")
  BY ExtractedMember DEF Admin, GroupsAssumption
<1>13. {Extracted(e) : e \in g.members}
         = {Stored(Creator, "Administrator")} \cup {Stored(m.id, "Default") : m \in Adding}
  <2>1. ASSUME NEW e \in g.members
        PROVE  Extracted(e) = Stored(Creator, "Administrator")
               \/ \E m \in Adding : Extracted(e) = Stored(m.id, "Default")
    BY <1>1, <1>9, <1>11, <1>12
  <2>2. Admin \in g.members /\ \A m \in Adding : New(m) \in g.members
    BY <1>1, <1>9
  <2> QED BY <1>11, <1>12, <2>1, <2>2
<1>14. Ids(g.pending) = {EncryptServiceId(m.id) : m \in Inviting}
  BY <1>1, <1>3, <1>10 DEF Ids
<1> QED BY <1>13, <1>14 DEF g

\* encrypt_group_with_credentials names everyone once.
LEMMA NewGroupWellFormed ==
    ASSUME GroupsAssumption
    PROVE  WellFormed(EncryptGroupWithCredentials(Creator, Candidates0, Given))
<1> DEFINE g == EncryptGroupWithCredentials(Creator, Candidates0, Given)
           S == {Extracted(e) : e \in g.members}
           T == {Stored(m.id, "Default") : m \in Adding}
           f == [e \in S |-> e.id]
<1>1. S = {Stored(Creator, "Administrator")} \cup T
  BY NewGroup
<1>2. Ids(g.pending) = {EncryptServiceId(m.id) : m \in Inviting}
  BY NewGroup
<1> HIDE DEF g
<1>3. \A x, role : Stored(x, role).id = EncryptServiceId(x)
  BY DEF Stored
<1>4. \A x, y : EncryptServiceId(x) = EncryptServiceId(y) => x = y
  BY DEF EncryptServiceId
<1>5. IsFiniteSet(S)
  <2>1. IsFiniteSet(Adding)
    BY FS_Subset DEF Adding, GroupsAssumption
  <2>2. IsFiniteSet(T)
    <3> DEFINE h == [m \in Adding |-> Stored(m.id, "Default")]
    <3>1. h \in Surjection(Adding, T)
      BY DEF Surjection
    <3> HIDE DEF h, T
    <3> QED BY <2>1, <3>1, FS_Surjection
  <2>3. S = T \cup {Stored(Creator, "Administrator")}
    BY <1>1
  <2> HIDE DEF S, T
  <2> QED BY <2>2, <2>3, FS_AddElement
<1>6. ASSUME NEW a \in S, NEW b \in S, a.id = b.id PROVE a = b
  <2>1. \A m \in Adding : m.id # Creator /\ m \in Candidates0
    BY DEF Adding
  <2>2. CASE a = Stored(Creator, "Administrator")
    BY <1>1, <1>3, <1>4, <1>6, <2>1, <2>2
  <2>3. CASE b = Stored(Creator, "Administrator")
    BY <1>1, <1>3, <1>4, <1>6, <2>1, <2>3
  <2>4. CASE a \in T /\ b \in T
    <3>1. PICK m \in Adding : a = Stored(m.id, "Default")
      BY <2>4
    <3>2. PICK n \in Adding : b = Stored(n.id, "Default")
      BY <2>4
    <3>3. m.id = n.id
      BY <1>3, <1>4, <1>6, <3>1, <3>2
    <3> QED BY <3>1, <3>2, <3>3
  <2> QED BY <1>1, <2>2, <2>3, <2>4
<1>7. Cardinality(Ids(S)) = Cardinality(S)
  <2> HIDE DEF S
  <2>1. f \in [S -> Ids(S)]
    BY DEF Ids
  <2>2. f \in Injection(S, Ids(S))
    BY <1>6, <2>1 DEF Injection, IsInjective
  <2>3. f \in Surjection(S, Ids(S))
    BY <2>1 DEF Surjection, Ids
  <2>4. ExistsBijection(S, Ids(S))
    BY <2>2, <2>3 DEF Bijection, ExistsBijection
  <2> QED BY <1>5, <2>4, FS_Bijection
<1>8. Ids(S) \cap Ids(g.pending) = {}
  <2>1. ASSUME NEW x \in Ids(S), x \in Ids(g.pending) PROVE FALSE
    <3>1. PICK n \in Inviting : x = EncryptServiceId(n.id)
      BY <1>2, <2>1
    <3>2. PICK e \in S : x = e.id
      <4> HIDE DEF S
      <4> QED BY <2>1 DEF Ids
    <3> HIDE DEF S
    <3>3. CASE e = Stored(Creator, "Administrator")
      <4>1. x = EncryptServiceId(Creator)
        BY <1>3, <3>2, <3>3
      <4>2. n.id = Creator
        BY <1>4, <3>1, <4>1
      <4> QED BY <4>2 DEF Inviting
    <3>4. CASE e \in T
      <4>1. PICK m \in Adding : e = Stored(m.id, "Default")
        BY <3>4
      <4>2. m.id = n.id
        <5>1. x = EncryptServiceId(m.id)
          BY <1>3, <3>2, <4>1
        <5> QED BY <1>4, <3>1, <5>1
      <4> QED BY <4>2 DEF Adding, Inviting, GroupsAssumption
    <3> QED BY <1>1, <3>3, <3>4
  <2> QED BY <2>1
<1> QED BY <1>7, <1>8 DEF WellFormed, g

-----------------------------------------------------------------------------
(* The inductive invariant *)

Fields == {"pc", "view", "intent", "op", "cache", "request", "today", "began", "last"}
IsClient(r) == r = [f \in Fields |-> r[f]]

\* The errors that a call ends with.
Errors == {"Http", "Created", "GroupDecodingError", "Unauthorized", "NotFoundError", "GroupChangeConflict",
           "GroupChangeForbidden", "GroupChangeRejected"}

\* A call that is under way is one of the three, still has the day it began on
\* and, if it creates the group, the group as it was encrypted.
Calling(c, r) ==
    /\ r.today \in Nat /\ r.began = r.today
    /\ r.op \in {"create", "fetch", "patch"}
    /\ r.op = "create" =>
         c = Creator /\ r.request = EncryptGroupWithCredentials(Creator, Candidates0, Given)
Sound(c, r) ==
    /\ r.pc \in Pcs \ {"failed"}
    /\ r.last \in Errors \cup {None}
    /\ r.pc \in {"credentials", "send"} => Calling(c, r)

GroupInv ==
    /\ day \in Nat
    /\ cli = [c \in Clients |-> cli[c]]
    /\ \A c \in Clients : IsClient(cli[c]) /\ Sound(c, cli[c])

\* What AuthHolds says of one client.
AuthStep(c) ==
    /\ cli'[c].last \notin {"ZkGroupVerificationFailure", "InvalidFrame"}
    /\ cli[c].pc = "send" /\ cli'[c].pc # "send" /\ cli'[c].last = "Unauthorized" =>
         day > cli[c].began + 1 \/ ~Belongs(c)

\* What a step does to the invariant and what it must do for AuthHolds.
StepGoal == GroupInv' /\ \A c \in Clients : AuthStep(c)

\* The errors a call ends with are none of verification or framing.
LEMMA SoundErrors ==
    ASSUME GroupsAssumption, NEW c, NEW r, Sound(c, r)
    PROVE  r.last \notin {"ZkGroupVerificationFailure", "InvalidFrame"}
BY DEF GroupsAssumption, Sound, Errors

\* A step that sets one client.
LEMMA SetStep ==
    ASSUME GroupsAssumption, GroupInv, NEW c \in Clients, NEW q, Set(c, q), day' = day,
           IsClient(q), Sound(c, q),
           cli[c].pc = "send" /\ q.pc # "send" /\ q.last = "Unauthorized" =>
             day > cli[c].began + 1 \/ ~Belongs(c)
    PROVE  StepGoal
<1>1. cli' = [d \in Clients |-> IF d = c THEN q ELSE cli[d]]
  BY DEF Set, GroupInv
<1>2. cli'[c] = q /\ \A d \in Clients : d # c => cli'[d] = cli[d]
  BY <1>1
<1>3. cli' = [d \in Clients |-> cli'[d]]
  BY <1>1, <1>2
<1>4. \A d \in Clients : IsClient(cli'[d]) /\ Sound(d, cli'[d])
  BY <1>2 DEF GroupInv
<1>5. GroupInv'
  <2>1. \A d : IsClient(cli[d])' <=> IsClient(cli'[d])
    BY DEF IsClient
  <2>2. \A d : Sound(d, cli[d])' <=> Sound(d, cli'[d])
    BY DEF Sound, Calling
  <2> QED BY <1>3, <1>4, <2>1, <2>2 DEF GroupInv
<1>6. ASSUME NEW d \in Clients PROVE AuthStep(d)
  <2>1. cli'[d].last \notin {"ZkGroupVerificationFailure", "InvalidFrame"}
    BY <1>4, SoundErrors
  <2>2. CASE d = c
    BY <1>2, <2>1, <2>2 DEF AuthStep
  <2>3. CASE d # c
    BY <1>2, <2>1, <2>3 DEF AuthStep
  <2> QED BY <2>2, <2>3
<1> QED BY <1>5, <1>6 DEF StepGoal

\* A step that sets none.
LEMMA NoClientStep ==
    ASSUME GroupsAssumption, GroupInv, UNCHANGED cli, day' \in Nat
    PROVE  StepGoal
<1>1. GroupInv'
  BY DEF GroupInv, IsClient, Sound, Calling
<1>2. \A c \in Clients : cli'[c].last \notin {"ZkGroupVerificationFailure", "InvalidFrame"}
  BY SoundErrors DEF GroupInv
<1> QED BY <1>1, <1>2 DEF StepGoal, AuthStep

\* A call that returns.
LEMMA ReturnRecord ==
    ASSUME NEW r, IsClient(r), NEW pc, NEW error
    PROVE  LET q == Return(r, pc, error) IN IsClient(q) /\ q.pc = pc /\ q.last = error
BY DEF IsClient, Return, Fields

\* A call that ends, with an error that says what to do.
LEMMA ReturnSound ==
    ASSUME NEW c, NEW r, IsClient(r), NEW pc \in {"idle", "settled", "undecodable"},
           NEW error \in Errors \cup {None}
    PROVE  IsClient(Return(r, pc, error)) /\ Sound(c, Return(r, pc, error))
<1> DEFINE q == Return(r, pc, error)
<1>1. IsClient(q) /\ q.pc = pc /\ q.last = error
  BY ReturnRecord
<1> HIDE DEF q
<1>2. Sound(c, q)
  BY <1>1 DEF Sound, Pcs
<1> QED BY <1>1, <1>2 DEF q

\* A new view of the group.
LEMMA ViewSound ==
    ASSUME NEW c, NEW r, IsClient(r), Sound(c, r), NEW v
    PROVE  LET q == [r EXCEPT !.view = v] IN
           IsClient(q) /\ Sound(c, q) /\ q.pc = r.pc /\ q.last = r.last
<1> DEFINE q == [r EXCEPT !.view = v]
<1>1. IsClient(q) /\ \A f \in Fields \ {"view"} : q[f] = r[f]
  BY DEF IsClient, Fields
<1> HIDE DEF q
<1>2. /\ q.pc = r.pc /\ q.last = r.last /\ q.op = r.op /\ q.request = r.request
      /\ q.today = r.today /\ q.began = r.began
  BY <1>1 DEF Fields
<1>3. Sound(c, q)
  BY <1>2 DEF Sound, Calling
<1> QED BY <1>1, <1>2, <1>3 DEF q

-----------------------------------------------------------------------------
(* One lemma per kind of step *)

\* A call begins: the day it reads is the day it begins on.
LEMMA BeginStep ==
    ASSUME GroupsAssumption, GroupInv, NEW c \in Clients, cli[c].pc = "idle",
           NEW r, IsClient(r), r.last = cli[c].last,
           r.op \in {"create", "fetch", "patch"},
           r.op = "create" =>
             c = Creator /\ r.request = EncryptGroupWithCredentials(Creator, Candidates0, Given),
           Begin(c, r)
    PROVE  StepGoal
<1> DEFINE pc == IF day \in r.cache THEN "send" ELSE "credentials"
           q == [r EXCEPT !.today = day, !.began = day, !.pc = pc]
<1>1. Set(c, q) /\ day' = day
  BY DEF Begin
<1>2. pc \in {"send", "credentials"}
  OBVIOUS
<1> HIDE DEF pc
<1>3. /\ IsClient(q) /\ q.today = day /\ q.began = day /\ q.pc = pc
      /\ q.last = r.last /\ q.op = r.op /\ q.request = r.request
  BY DEF IsClient, Fields
<1> HIDE DEF q
<1>4. Sound(c, q)
  BY <1>2, <1>3 DEF Sound, Calling, Pcs, GroupInv
<1> QED BY <1>1, <1>3, <1>4, SetStep

\* create_group begins.
LEMMA CreateStep ==
    ASSUME GroupsAssumption, GroupInv, NEW c \in Clients, Create(c)
    PROVE  StepGoal
<1> DEFINE g == EncryptGroupWithCredentials(c, Candidates0, Given)
           r == [cli[c] EXCEPT !.op = "create", !.request = g]
<1>1. cli[c].pc = "idle" /\ c = Creator /\ Begin(c, r)
  BY DEF Create
<1> HIDE DEF g
<1>2. IsClient(r) /\ r.op = "create" /\ r.request = g /\ r.last = cli[c].last
  BY DEF GroupInv, IsClient, Fields
<1> HIDE DEF r
<1> QED BY <1>1, <1>2, BeginStep DEF g

\* fetch_encrypted_group begins.
LEMMA FetchStep ==
    ASSUME GroupsAssumption, GroupInv, NEW c \in Clients, Fetch(c)
    PROVE  StepGoal
<1> DEFINE r == [cli[c] EXCEPT !.op = "fetch", !.request = None]
<1>1. cli[c].pc = "idle" /\ Begin(c, r)
  BY DEF Fetch
<1>2. IsClient(r) /\ r.op = "fetch" /\ r.last = cli[c].last
  BY DEF GroupInv, IsClient, Fields
<1> HIDE DEF r
<1> QED BY <1>1, <1>2, BeginStep

\* patch_group begins.
LEMMA PatchStep ==
    ASSUME GroupsAssumption, GroupInv, NEW c \in Clients, Patch(c)
    PROVE  StepGoal
<1>1. PICK i, actions :
        /\ cli[c].pc = "idle"
        /\ Begin(c, [cli[c] EXCEPT !.op = "patch", !.intent = i, !.request = actions])
  BY DEF Patch, Ready
<1> DEFINE r == [cli[c] EXCEPT !.op = "patch", !.intent = i, !.request = actions]
<1>2. IsClient(r) /\ r.op = "patch" /\ r.last = cli[c].last
  BY DEF GroupInv, IsClient, Fields
<1> HIDE DEF r
<1>3. Begin(c, r)
  BY <1>1 DEF r
<1> QED BY <1>1, <1>2, <1>3, BeginStep

\* The credential of the day the call read is among the ones it asked for, and
\* that day is the redemption time.
LEMMA CredentialsStep ==
    ASSUME GroupsAssumption, GroupInv, NEW c \in Clients, Credentials(c)
    PROVE  StepGoal
<1> DEFINE t == cli[c].today
           W == Window(t)
           q == [cli[c] EXCEPT !.cache = W, !.pc = "send"]
<1>1. IsClient(cli[c]) /\ Sound(c, cli[c]) /\ cli[c].pc = "credentials" /\ Calling(c, cli[c])
  BY DEF GroupInv, Credentials, Sound
<1>2. t \in W
  BY <1>1 DEF Calling, Window, GroupsAssumption
<1>3. Set(c, Authorized(c, cli[c], W)) /\ day' = day
  BY DEF Credentials
<1> HIDE DEF W
<1>4. Authorized(c, cli[c], W) = q
  <2>1. Authorized(c, cli[c], W) = [cli[c] EXCEPT !.cache = W, !.pc = "send", !.last = cli[c].last]
    BY <1>2 DEF Authorized, RedemptionTime
  <2>2. [cli[c] EXCEPT !.cache = W, !.pc = "send", !.last = cli[c].last] = q
    BY <1>1 DEF IsClient, Fields
  <2> QED BY <2>1, <2>2
<1>5. /\ IsClient(q) /\ q.pc = "send" /\ q.last = cli[c].last /\ q.op = cli[c].op
      /\ q.request = cli[c].request /\ q.today = t /\ q.began = cli[c].began
  BY <1>1 DEF IsClient, Fields
<1>6. Set(c, q)
  BY <1>3, <1>4
<1> HIDE DEF q
<1>7. Sound(c, q)
  BY <1>1, <1>5 DEF Sound, Calling, Pcs
<1> QED BY <1>1, <1>3, <1>5, <1>6, <1>7, SetStep

\* A client has nothing more to do.
LEMMA SettleStep ==
    ASSUME GroupsAssumption, GroupInv, NEW c \in Clients, Settle(c)
    PROVE  StepGoal
<1> DEFINE q == Return(cli[c], "settled", None)
<1>1. Set(c, q) /\ day' = day /\ cli[c].pc # "send"
  BY DEF Settle, Ready
<1>2. IsClient(q) /\ Sound(c, q)
  BY ReturnSound DEF GroupInv
<1> HIDE DEF q
<1> QED BY <1>1, <1>2, SetStep

\* A client applies a change that came with a message.
LEMMA ReceiveStep ==
    ASSUME GroupsAssumption, GroupInv, NEW c \in Clients, Receive(c)
    PROVE  StepGoal
<1> DEFINE read == DecryptGroupChange(server.log[cli[c].view.version + 1])
           v == Advance(cli[c].view, read)
           q == IF read = Fail THEN Return(cli[c], "undecodable", "GroupDecodingError")
                ELSE [cli[c] EXCEPT !.view = v]
<1>1. Set(c, q) /\ day' = day /\ cli[c].pc = "idle"
  BY DEF Receive
<1> HIDE DEF read, v
<1>2. IsClient(cli[c]) /\ Sound(c, cli[c])
  BY DEF GroupInv
<1>3. IsClient(q) /\ Sound(c, q)
  <2>1. CASE read = Fail
    BY <1>2, <2>1, ReturnSound DEF Errors
  <2>2. CASE read # Fail
    BY <1>2, <2>2, ViewSound
  <2> QED BY <2>1, <2>2
<1> HIDE DEF q
<1> QED BY <1>1, <1>3, SetStep

\* The group is created well formed, and every other refusal has a name.  A
\* call is refused as unauthorized past the next day or when it fetches a group
\* of which the client is no member.
LEMMA RefusedStep ==
    ASSUME GroupsAssumption, GroupInv, NEW c \in Clients, Refused(c)
    PROVE  StepGoal
<1> DEFINE e == ErrorOf(c)
           pc == After(c, e)
           q == Return(cli[c], pc, e)
<1>1. IsClient(cli[c]) /\ Calling(c, cli[c])
  BY DEF GroupInv, Refused, Sound
<1>2. Set(c, q) /\ day' = day /\ Status(c) # 200
  BY DEF Refused
<1>3. CASE ~Redeemable(c)
  <2>1. Status(c) = 401
    BY <1>3 DEF Status
  <2>2. e = "Unauthorized"
    BY <2>1 DEF ErrorOf, Baseline, PatchGroupErrors
  <2>3. pc = "idle"
    BY <1>3, <2>2 DEF After
  <2>4. IsClient(q) /\ Sound(c, q)
    BY <1>1, <2>2, <2>3, ReturnSound DEF Errors
  <2>5. day > cli[c].began + 1
    BY <1>1, <1>3 DEF Redeemable, Calling, GroupInv
  <2> HIDE DEF q
  <2> QED BY <1>2, <2>4, <2>5, SetStep
<1>4. CASE Redeemable(c) /\ cli[c].op = "create"
  <2>1. WellFormed(cli[c].request)
    BY <1>1, <1>4, NewGroupWellFormed DEF Calling
  <2>2. Status(c) = 200
    BY <1>4, <2>1 DEF Status
  <2> QED BY <1>2, <2>2
<1>5. CASE Redeemable(c) /\ cli[c].op = "fetch"
  <2>1. Status(c) = 404 \/ (Status(c) = 403 /\ ~Belongs(c))
    BY <1>2, <1>5 DEF Status
  <2>2. e = Baseline(Status(c))
    BY <1>5 DEF ErrorOf
  <2>3. CASE Status(c) = 404
    <3>1. e = "NotFoundError" /\ pc = "idle"
      BY <2>2, <2>3 DEF Baseline, After
    <3>2. IsClient(q) /\ Sound(c, q) /\ q.last = "NotFoundError"
      BY <1>1, <3>1, ReturnSound, ReturnRecord DEF Errors
    <3> HIDE DEF q
    <3> QED BY <1>2, <3>2, SetStep
  <2>4. CASE Status(c) = 403 /\ ~Belongs(c)
    <3>1. e = "Unauthorized"
      BY <2>2, <2>4 DEF Baseline
    <3>2. pc = "settled"
      BY <1>5, <3>1 DEF After
    <3>3. IsClient(q) /\ Sound(c, q)
      BY <1>1, <3>1, <3>2, ReturnSound DEF Errors
    <3> HIDE DEF q
    <3> QED BY <1>2, <2>4, <3>3, SetStep
  <2> QED BY <2>1, <2>3, <2>4
<1>6. CASE Redeemable(c) /\ cli[c].op = "patch"
  <2>1. Status(c) \in {409, 403, 400}
    BY <1>2, <1>6 DEF Status
  <2>2. e = PatchGroupErrors(Status(c))
    BY <1>6 DEF ErrorOf
  <2>3. \/ e = "GroupChangeConflict" /\ pc = "idle"
        \/ e \in {"GroupChangeForbidden", "GroupChangeRejected"} /\ pc = "settled"
    BY <2>1, <2>2 DEF PatchGroupErrors, After
  <2>4. IsClient(q) /\ Sound(c, q) /\ q.last # "Unauthorized"
    BY <1>1, <2>3, ReturnSound, ReturnRecord DEF Errors
  <2> HIDE DEF q
  <2> QED BY <1>2, <2>4, SetStep
<1> QED BY <1>1, <1>3, <1>4, <1>5, <1>6 DEF Calling

\* A call that ends without a refusal.
LEMMA AnsweredStep ==
    ASSUME GroupsAssumption, GroupInv, NEW c \in Clients, day' = day,
           NEW pc \in {"idle", "settled", "undecodable"},
           NEW error \in {None, "Http", "Created", "GroupDecodingError"}, NEW q,
           q = Return(cli[c], pc, error)
             \/ \E v : q = [Return(cli[c], pc, error) EXCEPT !.view = v],
           Set(c, q)
    PROVE  StepGoal
<1> DEFINE r == Return(cli[c], pc, error)
<1>1. IsClient(r) /\ Sound(c, r)
  BY ReturnSound DEF GroupInv, Errors
<1>2. r.last = error
  BY ReturnRecord DEF GroupInv
<1> HIDE DEF r
<1>3. q = r \/ \E v : q = [r EXCEPT !.view = v]
  BY DEF r
<1>4. IsClient(q) /\ Sound(c, q) /\ q.last = error
  <2>1. CASE q = r
    BY <1>1, <1>2, <2>1
  <2>2. ASSUME NEW v, q = [r EXCEPT !.view = v] PROVE IsClient(q) /\ Sound(c, q) /\ q.last = error
    BY <1>1, <1>2, <2>2, ViewSound
  <2> QED BY <1>3, <2>1, <2>2
<1>5. error # "Unauthorized"
  BY DEF GroupsAssumption
<1> QED BY <1>4, <1>5, SetStep

\* The server answers create_group.
LEMMA CreateAnsweredStep ==
    ASSUME GroupsAssumption, GroupInv, NEW c \in Clients, CreateAnswered(c)
    PROVE  StepGoal
<1>1. Set(c, Return(cli[c], "idle", "Created")) /\ day' = day
  BY DEF CreateAnswered
<1> QED BY <1>1, AnsweredStep

\* The server answers fetch_encrypted_group.
LEMMA FetchAnsweredStep ==
    ASSUME GroupsAssumption, GroupInv, NEW c \in Clients, FetchAnswered(c)
    PROVE  StepGoal
<1> DEFINE g == DecryptGroup(server.group)
           v == [version |-> Version, group |-> g]
<1>1. /\ Set(c, IF g = Fail THEN Return(cli[c], "undecodable", "GroupDecodingError")
                ELSE [Return(cli[c], "idle", None) EXCEPT !.view = v])
      /\ day' = day
  BY DEF FetchAnswered
<1> HIDE DEF g, v
<1>2. CASE g = Fail
  <2>1. Set(c, Return(cli[c], "undecodable", "GroupDecodingError"))
    BY <1>1, <1>2
  <2> QED BY <1>1, <2>1, AnsweredStep
<1>3. CASE g # Fail
  <2> DEFINE q == [Return(cli[c], "idle", None) EXCEPT !.view = v]
  <2>1. Set(c, q)
    BY <1>1, <1>3
  <2>2. \E w : q = [Return(cli[c], "idle", None) EXCEPT !.view = w]
    OBVIOUS
  <2> HIDE DEF q
  <2> QED BY <1>1, <2>1, <2>2, AnsweredStep
<1> QED BY <1>2, <1>3

\* The server answers patch_group.
LEMMA PatchAnsweredStep ==
    ASSUME GroupsAssumption, GroupInv, NEW c \in Clients, PatchAnswered(c)
    PROVE  StepGoal
<1> DEFINE r == Return(cli[c], "settled", None)
<1>1. PICK read :
        /\ Set(c, IF read = Fail THEN Return(cli[c], "undecodable", "GroupDecodingError")
                  ELSE [r EXCEPT !.view = Advance(@, read)])
        /\ day' = day
  BY DEF PatchAnswered
<1>2. CASE read = Fail
  <2>1. Set(c, Return(cli[c], "undecodable", "GroupDecodingError"))
    BY <1>1, <1>2
  <2> QED BY <1>1, <2>1, AnsweredStep
<1>3. CASE read # Fail
  <2> DEFINE q == [r EXCEPT !.view = Advance(@, read)]
  <2> HIDE DEF r
  <2>1. Set(c, q)
    BY <1>1, <1>3
  <2>2. \E w : q = [r EXCEPT !.view = w]
    OBVIOUS
  <2> HIDE DEF q
  <2> QED BY <1>1, <2>1, <2>2, AnsweredStep DEF r
<1> QED BY <1>2, <1>3

\* A request or its answer is lost.
LEMMA LostStep ==
    ASSUME GroupsAssumption, GroupInv, NEW c \in Clients, Lost(c)
    PROVE  StepGoal
<1>1. Set(c, Return(cli[c], "idle", "Http")) /\ day' = day
  BY DEF Lost
<1> QED BY <1>1, AnsweredStep

\* Every step keeps the invariant, and refuses no sound credential.
LEMMA NextStep ==
    ASSUME GroupsAssumption, GroupInv, [Next]_vars
    PROVE  StepGoal
<1>1. ASSUME NEW c \in Clients, Step(c) PROVE StepGoal
  BY <1>1, CreateStep, FetchStep, PatchStep, SettleStep, CredentialsStep, RefusedStep,
     CreateAnsweredStep, FetchAnsweredStep, PatchAnsweredStep DEF Step
<1>2. ASSUME NEW c \in Clients, Receive(c) PROVE StepGoal
  BY <1>2, ReceiveStep
<1>3. ASSUME NEW c \in Clients, Lost(c) PROVE StepGoal
  BY <1>3, LostStep
<1>4. ASSUME NEW e \in ForeignEdits, ForeignEdit(e) PROVE StepGoal
  <2>1. UNCHANGED <<day, cli>>
    BY <1>4 DEF ForeignEdit
  <2> QED BY <2>1, NoClientStep DEF GroupInv
<1>5. CASE Midnight
  <2>1. UNCHANGED cli /\ day' = day + 1
    BY <1>5 DEF Midnight
  <2> QED BY <2>1, NoClientStep DEF GroupInv
<1>6. CASE UNCHANGED vars
  <2>1. UNCHANGED <<day, cli>>
    BY <1>6 DEF vars
  <2> QED BY <2>1, NoClientStep DEF GroupInv
<1> QED BY <1>1, <1>2, <1>3, <1>4, <1>5, <1>6 DEF Next

\* At first no call is under way.
LEMMA InitInv ==
    ASSUME Init
    PROVE  GroupInv
<1>1. \A c \in Clients : IsClient(Idle(c)) /\ Idle(c).pc = "idle" /\ Idle(c).last = None
  BY DEF IsClient, Idle, Fields
<1>2. \A c \in Clients : Sound(c, Idle(c))
  BY <1>1 DEF Sound, Pcs
<1>3. \A c \in Clients : cli[c] = Idle(c)
  BY DEF Init
<1> QED BY <1>1, <1>2, <1>3 DEF Init, GroupInv

-----------------------------------------------------------------------------
(* The theorems *)

\* The clients, their calls and the day are as the invariant says.
THEOREM CallsStaySound == Spec => []GroupInv
<1>1. Init => GroupInv
  BY InitInv
<1>2. GroupInv /\ [Next]_vars => GroupInv'
  BY NextStep, GroupsAssumption DEF StepGoal
<1> QED BY <1>1, <1>2, PTL DEF Spec

\* No call of create_group, fetch_encrypted_group or patch_group ends with an
\* error that says nothing: the group is created with everyone once, whoever is
\* among the candidates, and patch_group names every refusal.
THEOREM EndsAreExplained == Spec => []EndsExplained
<1>1. GroupInv => EndsExplained
  BY DEF GroupInv, Sound, EndsExplained
<1> QED BY <1>1, CallsStaySound, PTL

\* get_authorization_for_today: the credential a call presents always verifies
\* and always was in the cache, and the server refuses it only if the call took
\* past the next day or its client is no member.
THEOREM AuthorizationHolds == Spec => AuthHolds
<1> DEFINE A == \A c \in Clients :
         /\ cli'[c].last \notin {"ZkGroupVerificationFailure", "InvalidFrame"}
         /\ cli[c].pc = "send" /\ cli'[c].pc # "send" /\ cli'[c].last = "Unauthorized" =>
              day > cli[c].began + 1 \/ ~Belongs(c)
<1>1. GroupInv /\ [Next]_vars => A
  BY NextStep, GroupsAssumption DEF StepGoal, AuthStep
<1>2. GroupInv /\ [Next]_vars => [A]_vars
  BY <1>1
<1> QED BY <1>2, CallsStaySound, PTL DEF Spec, AuthHolds
=============================================================================
