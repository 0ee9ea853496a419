--------------------------- MODULE MCMessageSender ---------------------------
(***************************************************************************)
(* Small instances of MessageSender: the accounts and the session records  *)
(* its runs start from.  Registration id 2 is a device's current one, 1 one *)
(* it had before.                                                          *)
(***************************************************************************)
EXTENDS MessageSender, TLC

CONSTANTS alice, bob, self, pni, s1, s2, r1

MCPeers == {alice, self}
AllPeers == {alice, bob, self, pni}

\* A record on its first sending chain.
Record(reg, usable) == [chain |-> 1, snd |-> 0, reg |-> reg, usable |-> usable]
Fresh == Record(2, TRUE)
Outdated == Record(1, TRUE)
Corrupt == Record(2, FALSE)

NoSessions == [d \in Devices |-> NoSession]
LinkedTo(D) == [d \in Devices |-> IF d \in D THEN 2 ELSE 0]

\* This device is the primary one of an account without linked devices.
Alone(recs, regs) == [sessions |-> (self :> NoSessions) @@ (alice :> recs),
                      srv |-> (self :> LinkedTo({1})) @@ (alice :> regs)]

\* alice: two devices, one of them in touch with us.
ContentionStarts == {Alone([NoSessions EXCEPT ![1] = Fresh], LinkedTo({1, 2}))}

\* alice: any number of devices, and any record for each of them and for others.
\* Which devices she has makes no difference, her primary one apart.
RepairStarts ==
    {Alone(recs, LinkedTo(1 .. n)) :
        recs \in [Devices -> {NoSession, Fresh, Outdated, Corrupt}], n \in Devices}

\* This device is linked to an account with two others, and has met alice.
LinkedStarts ==
    {[sessions |-> (self :> [recs EXCEPT ![OwnDevice] = NoSession])
                      @@ (alice :> [NoSessions EXCEPT ![1] = Fresh]),
      srv |-> (self :> LinkedTo(Devices)) @@ (alice :> LinkedTo({1}))] :
        recs \in [Devices -> {NoSession, Fresh, Corrupt}]}

\* This device is linked to the account that both ids name.  There may be a
\* record of the primary device under the ACI, and one of this device under the
\* PNI, from an earlier send.
OwnStarts ==
    {[sessions |-> (self :> [NoSessions EXCEPT ![1] = primary])
                      @@ (pni :> [NoSessions EXCEPT ![OwnDevice] = own]),
      srv |-> (self :> LinkedTo(Devices)) @@ (pni :> LinkedTo(Devices))] :
        primary \in {NoSession, Fresh}, own \in {NoSession, Fresh}}

\* bob: two devices, one of them in touch with us.
BobStarts == {[sessions |-> bob :> [NoSessions EXCEPT ![1] = Fresh],
               srv |-> (bob :> LinkedTo({1, 2})) @@ (self :> LinkedTo({1, OwnDevice}))]}

\* This device is linked; alice has any devices, and we any record for them; or
\* we send to our own account or to bob.  Others are not registered, as the PNI of
\* an account from before there were PNIs.
AnyStarts ==
    {[sessions |-> s.sessions @@ [p \in AllPeers |-> NoSessions],
      srv |-> s.srv @@ [p \in AllPeers |-> LinkedTo({})]] :
        s \in LinkedStarts \cup OwnStarts \cup BobStarts \cup
              {[s EXCEPT !.srv[self] = LinkedTo({1, OwnDevice})] : s \in RepairStarts}}

CallsTo(p, contents, sealed) == [peer : {p}, content : contents, sealed : sealed]

ContentionCalls == CallsTo(alice, {"encrypted"}, {FALSE})
AnyCalls == UNION {CallsTo(p, {"encrypted"}, {FALSE}) : p \in {alice, self, pni}}
            \cup CallsTo(bob, {"encrypted", "plaintext"}, {TRUE})
=============================================================================
