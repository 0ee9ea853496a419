-------------------------- MODULE GroupOperations --------------------------
(***************************************************************************)
(* GroupOperations (src/src/groups_v2/operations.rs, model.rs): how a      *)
(* group and the changes to it are encrypted for the group server and read *)
(* back.  Identifiers, profile keys and enum values are read strictly: one *)
(* bad field fails the whole group or change.  Title, description, timer   *)
(* and member labels are read leniently: what does not decrypt is unset.   *)
(*                                                                         *)
(* A ciphertext is a record naming what it encrypts.  A change, encrypted  *)
(* or not, is a record with a kind and the fields of that kind; repeated   *)
(* fields are sets, keyed by "id".                                         *)
(***************************************************************************)
EXTENDS Naturals, Sequences, FiniteSets, SequencesExt

CONSTANTS Acis, Pnis,
          None,     \* Option::None, and an empty field on the wire
          Fail,     \* GroupDecodingError
          Garbled   \* what a client wrote that does not decrypt, or that
                    \* this version has no name for

-----------------------------------------------------------------------------
(* Identifiers and profile keys *)

\* encrypt_service_id, encrypt_aci: deterministic, the server matches on it.
EncryptServiceId(id) == [uid |-> id]

\* zkgroup fails on bytes that are no ciphertext of this group.
DecryptServiceId(ct) == IF ct = None \/ ct.uid = Garbled THEN Fail ELSE ct.uid

\* decrypt_aci and decrypt_pni: NotAci, NotPni.
DecryptAci(ct) == IF DecryptServiceId(ct) \in Acis THEN DecryptServiceId(ct) ELSE Fail
DecryptPni(ct) == IF DecryptServiceId(ct) \in Pnis THEN DecryptServiceId(ct) ELSE Fail

\* Profile keys are bound to the ACI they are encrypted for: zkgroup fails for
\* another one, and on bytes that are no ciphertext of this group.
EncryptProfileKey(key, aci) == [key |-> key, for |-> aci]
DecryptProfileKey(ct, aci) ==
    IF ct # None /\ ct.for = aci /\ ct.key # Garbled THEN ct.key ELSE Fail

\* create_member_presentation: identifier and key, from a credential.
MemberPresentation(id, key) ==
    [id |-> EncryptServiceId(id), key |-> EncryptProfileKey(key, id)]

\* decrypt_profile_key_presentation reads both from the presentation if there
\* is one.
Presented(a) ==
    IF "presentation" \in DOMAIN a /\ a.presentation # None THEN a.presentation ELSE a

-----------------------------------------------------------------------------
(* Enums, labels and attributes *)

Roles == <<"Unknown", "Default", "Administrator">>
AccessRequired == <<"Unknown", "Any", "Member", "Administrator", "Unsatisfiable">>

\* From<Role> for i32 and TryFrom<i32>: WrongEnumValue for a value this
\* version has no name for.
Code(names, v) == IF v = Garbled THEN Len(names) ELSE SelectInSeq(names, LAMBDA n : n = v) - 1
TryFrom(names, code) == IF code < Len(names) THEN names[code + 1] ELSE Fail

\* maybe_encrypt_string: None and "" both encode as empty.
MaybeEncryptString(s) == IF s \in {None, ""} THEN None ELSE [text |-> s]

\* decrypt_string, maybe_decrypt_string
DecryptString(bytes) == IF bytes.text = Garbled THEN Fail ELSE bytes.text
MaybeDecryptString(bytes) == IF bytes = None THEN None ELSE DecryptString(bytes)

\* Mutant: a label that does not decrypt fails the decode.
DecryptMemberLabelStrictly(bytes) == MaybeDecryptString(bytes)
\* decrypt_member_label_text, decrypt_member_label_emoji
DecryptMemberLabel(bytes) ==
    IF MaybeDecryptString(bytes) = Fail THEN None ELSE MaybeDecryptString(bytes)

\* encrypt_blob_content; decrypt_blob is the default blob, without content,
\* for what is empty, too short or does not decrypt.
EncryptBlob(attr, v) == [content |-> attr, value |-> v]
DecryptBlob(bytes) ==
    IF bytes = None \/ bytes.value = Garbled THEN [content |-> None, value |-> None] ELSE bytes

\* encrypt_title, encrypt_description, encrypt_disappearing_messages_timer
BlobAttrs == {"title", "description", "timer"}
AccessAttrs == {"attributes", "members", "addFromInviteLink", "memberLabel"}
PlainAttrs == {"avatar", "password", "announcementsOnly", "terminated"}
Attrs == BlobAttrs \cup AccessAttrs \cup PlainAttrs

EncryptAttr(attr, v) ==
    CASE attr \in BlobAttrs   -> EncryptBlob(attr, v)
      [] attr \in AccessAttrs -> Code(AccessRequired, v)
      [] attr \in PlainAttrs  -> v

\* decrypt_title: "" without a title; decrypt_description_text: None if empty;
\* decrypt_disappearing_messages_timer.  Content of another kind is none.
Unset(attr) == IF attr = "title" THEN "" ELSE None

\* Mutant: an empty description is a description.
DecryptBlobAttrKept(attr, bytes) ==
    IF DecryptBlob(bytes).content = attr THEN DecryptBlob(bytes).value ELSE Unset(attr)
DecryptBlobAttr(attr, bytes) ==
    LET v == DecryptBlob(bytes).value
    IN  IF DecryptBlob(bytes).content # attr THEN Unset(attr)
        ELSE IF attr = "description" /\ v = "" THEN None ELSE v

DecryptAttr(attr, bytes) ==
    CASE attr \in BlobAttrs   -> DecryptBlobAttr(attr, bytes)
      [] attr \in AccessAttrs -> IF bytes = None THEN None ELSE TryFrom(AccessRequired, bytes)
      [] attr \in PlainAttrs  -> bytes

\* In a change the invite link password is text, in a group bytes.
Base64(bytes) == [base64 |-> bytes]

-----------------------------------------------------------------------------
(* The build_*_action helpers: a change, encrypted *)

\* build_add_member_action: without a label.
BuildAddMember(c) ==
    [kind |-> c.kind, id |-> EncryptServiceId(c.id), presentation |-> None,
     key |-> EncryptProfileKey(c.key, c.id), role |-> Code(Roles, c.role), label |-> None]

\* build_add_member_action_with_credential: the server reads the presentation.
BuildAddMemberWithCredential(c) ==
    [kind |-> c.kind, id |-> None, key |-> None, role |-> Code(Roles, c.role),
     label |-> None, presentation |-> MemberPresentation(c.id, c.key)]

\* build_remove_member_action, build_remove_pending_member_action,
\* build_remove_requesting_member_action
BuildRemove(c) == [kind |-> c.kind, id |-> EncryptServiceId(c.id)]

\* build_modify_member_role_action, build_promote_requesting_member_action
BuildRole(c) == [kind |-> c.kind, id |-> EncryptServiceId(c.id), role |-> Code(Roles, c.role)]

\* build_add_pending_member_action
BuildAddPending(c) ==
    [kind |-> c.kind, id |-> EncryptServiceId(c.id), role |-> Code(Roles, c.role),
     by |-> EncryptServiceId(c.by)]

\* build_promote_pending_member_action, build_add_requesting_member_action
BuildWithKey(c) ==
    [kind |-> c.kind, id |-> EncryptServiceId(c.id), presentation |-> None,
     key |-> EncryptProfileKey(c.key, c.id)]

\* build_modify_member_label_action
BuildLabel(c) ==
    [kind |-> c.kind, id |-> EncryptServiceId(c.id), label |-> MaybeEncryptString(c.label)]

\* build_modify_title_action and the other attributes
BuildAttr(c) == [kind |-> c.kind, attr |-> c.attr, value |-> EncryptAttr(c.attr, c.value)]

\* External: PromoteMemberPendingPniAciProfileKeyAction, only read here.
ForeignPniPromotion(c) ==
    [kind |-> c.kind, id |-> EncryptServiceId(c.id), pni |-> EncryptServiceId(c.pni),
     key |-> EncryptProfileKey(c.key, c.id)]

Build(c, credential) ==
    CASE c.kind = "NewMember" -> IF credential THEN BuildAddMemberWithCredential(c)
                                               ELSE BuildAddMember(c)
      [] c.kind \in {"ModifyMemberRole", "PromoteRequestingMember"} -> BuildRole(c)
      [] c.kind = "NewPendingMember" -> BuildAddPending(c)
      [] c.kind \in {"PromotePendingMember", "NewRequestingMember",
                     "ModifyMemberProfileKey"} -> BuildWithKey(c)
      [] c.kind = "MemberLabel" -> BuildLabel(c)
      [] c.kind = "Attribute" -> BuildAttr(c)
      [] c.kind = "PromotePendingPniAci" -> ForeignPniPromotion(c)
      [] OTHER -> BuildRemove(c)

\* encrypt_group_change: what the server signs, with editor and revision.
GroupChange(editor, version, actions) ==
    [editor |-> EncryptServiceId(editor), version |-> version, actions |-> actions]

-----------------------------------------------------------------------------
(* Reading changes and groups *)

\* Which identifiers a kind takes.
AnyServiceId == {"NewPendingMember", "DeletePendingMember", "AddBannedMember",
                 "DeleteBannedMember", "MemberLabel"}

DecryptId(a) ==
    IF a.kind \in AnyServiceId THEN DecryptServiceId(a.id) ELSE DecryptAci(Presented(a).id)

DecryptField(a, f) ==
    CASE f = "id"    -> DecryptId(a)
      [] f = "key"   -> DecryptProfileKey(Presented(a).key, DecryptId(a))
      [] f = "by"    -> DecryptAci(a.by)
      [] f = "pni"   -> DecryptPni(a.pni)
      [] f = "role"  -> TryFrom(Roles, a.role)
      [] f = "label" -> DecryptMemberLabel(a.label)
      [] f = "value" -> IF a.attr = "password" THEN Base64(a.value)
                        ELSE DecryptAttr(a.attr, a.value)
      [] f \in {"kind", "attr"} -> a[f]

\* One action, or one entry of a group (decrypt_member, decrypt_pending_member,
\* decrypt_requesting_member, decrypt_banned_member); Fail if a field fails.
DecryptAction(a) ==
    LET c == [f \in DOMAIN a \ {"presentation"} |-> DecryptField(a, f)]
    IN  IF \E f \in DOMAIN c : c[f] = Fail THEN Fail ELSE c

\* Mutant: what cannot be read is skipped.
DecryptAllReadable(S) == {DecryptAction(a) : a \in S} \ {Fail}
\* collect::<Result<_, _>>()
DecryptAll(S) ==
    IF \E a \in S : DecryptAction(a) = Fail THEN Fail ELSE {DecryptAction(a) : a \in S}

\* Mutant: the chain forgets an iterator.
OrderWithoutLabels ==
    <<"NewMember", "DeleteMember", "ModifyMemberRole", "ModifyMemberProfileKey",
      "NewPendingMember", "DeletePendingMember", "PromotePendingMember", "Attribute",
      "AddBannedMember", "DeleteBannedMember", "PromotePendingPniAci",
      "NewRequestingMember", "DeleteRequestingMember", "PromoteRequestingMember">>
\* The order of the chain: attributes do not interfere with the rest.
Order ==
    <<"NewMember", "DeleteMember", "ModifyMemberRole", "ModifyMemberProfileKey",
      "NewPendingMember", "DeletePendingMember", "PromotePendingMember", "Attribute",
      "AddBannedMember", "DeleteBannedMember", "PromotePendingPniAci",
      "NewRequestingMember", "DeleteRequestingMember", "PromoteRequestingMember",
      "MemberLabel">>

\* decrypt_group_change: the changes, kind by kind.  The server has parsed what
\* it signs: the actions decode, name this group and contain what they add
\* (otherwise an addition is skipped, and the rest is a WrongBlob).
DecryptGroupChange(change) ==
    LET of(k) == {a \in change.actions : a.kind = k}
        kinds == SelectSeq(Order, LAMBDA k : of(k) # {})
        editor == DecryptAci(change.editor)
        changes == [i \in DOMAIN kinds |-> DecryptAll(of(kinds[i]))]
    IN  IF editor = Fail \/ \E i \in DOMAIN changes : changes[i] = Fail THEN Fail
        ELSE [editor |-> editor, version |-> change.version, changes |-> changes]

\* The lists of a group, each with the kind its entries are read as.
Lists == [members |-> "NewMember", pending |-> "NewPendingMember",
          requesting |-> "NewRequestingMember", banned |-> "AddBannedMember"]

\* decrypt_group
DecryptGroup(g) ==
    LET p == [l \in DOMAIN g |->
                IF l = "attr" THEN [t \in Attrs |-> DecryptAttr(t, g.attr[t])]
                ELSE DecryptAll(g[l])]
    IN  IF (\E l \in DOMAIN p : p[l] = Fail) \/ (\E t \in Attrs : p.attr[t] = Fail)
        THEN Fail ELSE p

-----------------------------------------------------------------------------
(* Creating a group *)

\* Mutant: the creator is added once more when it is among the candidates.
CandidatesWithSelf(self, candidates) == candidates
\* encrypt_group_with_credentials skips the creator among the candidates.
Candidates(self, candidates) == {m \in candidates : m.id # self}

\* With a credential a candidate is a member, without one it is invited.
NewEntry(self, m) ==
    IF m.credential
    THEN BuildAddMemberWithCredential([kind |-> "NewMember", id |-> m.id, key |-> 1,
                                       role |-> "Default"])
    ELSE BuildAddPending([kind |-> "NewPendingMember", id |-> m.id, role |-> "Default",
                          by |-> self])

\* A list: two entries for one candidate are two entries.
EncryptGroupWithCredentials(self, candidates, given) ==
    LET entries == {NewEntry(self, m) : m \in Candidates(self, candidates)}
        admin   == BuildAddMemberWithCredential([kind |-> "NewMember", id |-> self, key |-> 1,
                                                 role |-> "Administrator"])
    IN  [attr |-> [t \in Attrs |->
                     IF t \in DOMAIN given THEN EncryptAttr(t, given[t])
                     ELSE IF t \in {"announcementsOnly", "terminated"} THEN "off" ELSE None],
         members |-> {admin} \cup {e \in entries : e.kind = "NewMember"},
         pending |-> {e \in entries : e.kind = "NewPendingMember"},
         requesting |-> {}, banned |-> {}]

=============================================================================
