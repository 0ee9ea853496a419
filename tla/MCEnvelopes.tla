---------------------------- MODULE MCEnvelopes ----------------------------
(* Messages of a peer, of another contact and of our own other device.      *)
EXTENDS Envelopes

Message(id, from, device, kind, way, sealed, to) ==
    [id |-> id, from |-> from, device |-> device, kind |-> kind, way |-> way,
     sealed |-> sealed, identified |-> FALSE, as |-> "aci", to |-> to,
     stamped |-> TRUE, skdm |-> "none", sig |-> None]

Signature(pni, by, over) == [pni |-> pni, by |-> by, over |-> over]

\* A sender key that comes without content, a group message and one from a
\* linked device that prove their PNI.
PeerMessages ==
    { [Message(1, "peer", 1, "none", "session", FALSE, "aci") EXCEPT !.skdm = "good"],
      [Message(2, "peer", 1, "data", "senderkey", TRUE, "aci")
          EXCEPT !.sig = Signature("peer", "peer", "peer")],
      [Message(3, "peer", 2, "data", "session", FALSE, "aci")
          EXCEPT !.sig = Signature("peer", "peer", "peer")] }

\* A signature copied from the peer, a sync message that is not ours to take, a
\* sealed message to our PNI, a plaintext one that is no error and has a sender
\* key, a group message with that key, one from a PNI that is not sealed, one for
\* somebody else, one whose timestamp is out of range; of a PNI, a sealed one with
\* a sender key and one with a key that does not parse; a sync message of our own
\* other device.
OtherMessages ==
    { [Message(5, "other", 2, "data", "session", TRUE, "aci")
          EXCEPT !.sig = Signature("peer", "peer", "peer"), !.identified = TRUE],
      Message(6, "other", 1, "sync", "session", FALSE, "aci"),
      Message(7, "other", 1, "data", "session", TRUE, "pni"),
      [Message(8, "other", 1, "data", "plain", FALSE, "aci") EXCEPT !.skdm = "good"],
      [Message(9, "other", 1, "data", "senderkey", TRUE, "aci")
          EXCEPT !.sig = Signature("other", "other", "other")],
      [Message(11, "other", 1, "data", "session", FALSE, "aci") EXCEPT !.as = "pni"],
      [Message(12, "other", 1, "data", "session", FALSE, "elsewhere") EXCEPT !.skdm = "good"],
      [Message(13, "other", 1, "error", "plain", FALSE, "aci") EXCEPT !.stamped = FALSE],
      [Message(10, "otherpni", 1, "data", "session", TRUE, "aci")
          EXCEPT !.as = "pni", !.skdm = "good"],
      [Message(14, "otherpni", 1, "error", "plain", TRUE, "aci") EXCEPT !.skdm = "bad"],
      [Message(15, "self", 2, "sync", "session", TRUE, "aci")
          EXCEPT !.sig = Signature("self", "self", "self")] }

\* The peer's PNI identity is known at its linked device only, the others' at
\* the primary.
MCKnown == {{<<"peer", 2>>, <<"other", 1>>, <<"self", 1>>}}
MCMessages == PeerMessages \cup OtherMessages
=============================================================================
