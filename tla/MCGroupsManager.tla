-------------------------- MODULE MCGroupsManager --------------------------
(* A group that alice creates with bob and an invitation; both edit it, and *)
(* so do others.                                                            *)
EXTENDS GroupsManager

CONSTANTS alice, bob, carol, dave, carolPni

Attribute(a, v) == [kind |-> "Attribute", attr |-> a, value |-> v]
Change(k, id) == [kind |-> k, id |-> id]
WithRole(k, id, role) == [kind |-> k, id |-> id, role |-> role]
Keyed(k, id, key) == [kind |-> k, id |-> id, key |-> key]
Label(id, l) == [kind |-> "MemberLabel", id |-> id, label |-> l]

MCCandidates == {[id |-> alice, credential |-> TRUE], [id |-> bob, credential |-> TRUE],
                 [id |-> carolPni, credential |-> FALSE]}
MCGiven == [title |-> "t", avatar |-> "a", attributes |-> "Member", members |-> "Member",
            addFromInviteLink |-> "Unsatisfiable", memberLabel |-> "Member"]

MCIntents ==
  alice :> {{Change("DeleteMember", bob), Change("AddBannedMember", bob)},
            {[kind |-> "NewMember", id |-> carol, role |-> "Default", key |-> 1, label |-> None],
             Change("DeletePendingMember", carolPni), Attribute("addFromInviteLink", "Any")},
            {WithRole("PromoteRequestingMember", dave, "Default"), Attribute("timer", "0"),
             WithRole("ModifyMemberRole", bob, "Administrator"), Attribute("terminated", "on")},
            {Change("DeleteRequestingMember", dave)}}
  @@ bob :> {{Label(bob, "l"), Attribute("description", "")},
             {[kind |-> "NewPendingMember", id |-> carol, role |-> "Default", by |-> bob],
              Attribute("password", "p")}}

MCForeignEdits ==
  {[by |-> carol, changes |->
      {[kind |-> "PromotePendingPniAci", id |-> carol, pni |-> carolPni, key |-> 1]}],
   [by |-> carol, changes |-> {Keyed("PromotePendingMember", carol, 1)}],
   [by |-> dave, changes |-> {Keyed("NewRequestingMember", dave, 1)}],
   [by |-> bob, changes |-> {Keyed("ModifyMemberProfileKey", bob, 2), Label(bob, Garbled),
                             Attribute("title", Garbled)}],
   [by |-> alice, changes |-> {Attribute("attributes", Garbled)}],
   [by |-> dave, changes |-> {Keyed("NewRequestingMember", dave, Garbled)}],
   [by |-> bob, changes |-> {[kind |-> "NewPendingMember", id |-> Garbled, role |-> "Default",
                              by |-> bob]}],
   [by |-> bob, changes |-> {Change("DeletePendingMember", Garbled)}]}
=============================================================================
