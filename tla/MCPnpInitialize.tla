-------------------------- MODULE MCPnpInitialize ---------------------------
(***************************************************************************)
(* Small instances of PnpInitialize: this device is the primary one, with  *)
(* sessions to its linked devices.                                         *)
(***************************************************************************)
EXTENDS PnpInitialize, TLC

CONSTANTS alice, self, pni, s1, i1

MCPeers == {alice, self}

Record(usable) == [chain |-> 1, snd |-> 0, reg |-> 2, usable |-> usable]
NoSessions == [d \in Devices |-> NoSession]

\* Every device of this account but the primary one has a session, in order or
\* corrupt; alice has one device.
PnpStarts ==
    {[sessions |-> (self :> [recs EXCEPT ![1] = NoSession])
                      @@ (alice :> [NoSessions EXCEPT ![1] = Record(TRUE)]),
      srv |-> (self :> [d \in Devices |-> 2])
                 @@ (alice :> [d \in Devices |-> IF d = 1 THEN 2 ELSE 0])] :
        recs \in [Devices -> {Record(TRUE), Record(FALSE)}]}

CallsToSelf == {[peer |-> self, content |-> "encrypted", sealed |-> FALSE]}
=============================================================================
