---------------------------- MODULE SharedRecords ----------------------------
(***************************************************************************)
(* What the Storage Service promises the devices of an account: records    *)
(* they share, to which edits are added one at a time and from which none  *)
(* is ever lost, whoever else writes (src/src/storage_service.rs).         *)
(***************************************************************************)
CONSTANTS Records, Edits

VARIABLE content   \* content[r]: the edits record r carries

SharedInit == content = [r \in Records |-> {}]

Edit(r, e) == content' = [content EXCEPT ![r] = @ \cup {e}]

SharedNext == \E r \in Records, e \in Edits : Edit(r, e)

SharedSpec == SharedInit /\ [][SharedNext]_content
=============================================================================
