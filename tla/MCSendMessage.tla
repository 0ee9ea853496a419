---------------------------- MODULE MCSendMessage ----------------------------
(***************************************************************************)
(* Two calls at once: any call next to one that sends to this account's    *)
(* other devices, with one device that may be linked and unlinked.         *)
(***************************************************************************)
EXTENDS SendMessage, TLC

CONSTANTS alice, bob, self, t1, t2, d2

CallTo(op, to, content, sealed) ==
    [NoCall EXCEPT !.op = op, !.to = to, !.content = content, !.sealed = sealed]
List(op, contacts) == [NoCall EXCEPT !.op = op, !.contacts = contacts]

AnyCall ==
    {CallTo("message", <<p>>, c, s) : p \in {alice, self}, c \in {"data", "other", "sync"},
                                     s \in BOOLEAN}
    \cup {CallTo("group", <<alice, bob>>, c, TRUE) : c \in {"data", "other"}}
    \cup {RequestResponse(alice)}
    \cup {CallTo("receipt", <<alice>>, "none", FALSE)}
    \cup {CallTo(op, <<>>, "sync", FALSE) : op \in {"sync", "request"}}
    \cup {List("contacts", <<Contact("a", 0), Contact("b", x), Contact("c", 0)>>) : x \in {0, 1}}
    \cup {List("foreign", <<Contact("a", 1), Other("byte"), Contact("b", 0)>>),
          List("foreign", <<Contact("a", 0), Contact("b", 1), Other("byte"), Other("zero")>>)}

\* A list whose first contact announces an avatar.
AvatarList == {List("contacts", <<Contact("a", 1), Contact("b", 0)>>)}

NextToIt == (t2 :> {CallTo("message", <<bob>>, "data", FALSE)})
MCCalls == (t1 :> AnyCall) @@ NextToIt
MCContacts == (t1 :> AvatarList) @@ NextToIt
=============================================================================
