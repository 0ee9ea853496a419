-------------------------- MODULE MessagePipeProofs --------------------------
(***************************************************************************)
(* Proofs about SignalWebSocket, for any callers and any ids: a caller is  *)
(* given the response to its own request, no responder is lost while the   *)
(* worker lives, and no timeout follows answers that were all read.  Then  *)
(* about MessagePipe over it, for any number of requests of the server:    *)
(* items come in order and once, Disconnected comes last and when nothing  *)
(* is left, and what was acknowledged is not lost.                         *)
(***************************************************************************)
EXTENDS MessagePipe, FiniteSetTheorems, TLAPS

-----------------------------------------------------------------------------
(* The websocket: the inductive invariant *)

Alive == worker # "stopped"

Typed ==
    /\ worker \in {"running", "blocked", "closing", "stopped"}
    /\ requests \in Seq(Requests)
    /\ call \in [Requests -> {"idle", "waiting", "answered", "closing", "dropped"}]
    /\ chosen \in [Requests -> ChosenIds \cup {None}]
    /\ got \in [Requests -> Requests \cup {KeepAlive, None}]
    /\ outgoing_requests \in [Ids -> Requests \cup {None}]
    /\ keep_alive_set \subseteq RandomIds
    /\ asked \subseteq Asked /\ inbox \subseteq asked

\* What the server may answer or has answered is known here under its id, as what it is.
AnswersKnown ==
    Alive => \A a \in asked :
        IF a.of = KeepAlive THEN a.id \in keep_alive_set
                            ELSE outgoing_requests[a.id] = a.of

\* No id is a request's and a keepalive's, and a keepalive the worker waits for
\* has been sent.
KeepAlivesKnown ==
    \A i \in keep_alive_set :
        /\ outgoing_requests[i] = None
        /\ net = "up" => [id |-> i, of |-> KeepAlive] \in asked

Queued(r) == \E k \in DOMAIN requests : requests[k] = r
Sent(r) == \E i \in Ids : /\ outgoing_requests[i] = r
                          /\ net = "up" => [id |-> i, of |-> r] \in asked
WaitersKnown ==
    Alive => \A r \in Requests : call[r] = "waiting" => Queued(r) \/ Sent(r)

ReasonKnown == worker \in {"running", "blocked"} => reason = "none"

WsInv ==
    /\ Typed
    /\ AnswersKnown
    /\ KeepAlivesKnown
    /\ WaitersKnown
    /\ ReasonKnown
    /\ ResponsesMatch
    /\ TimeoutIsReal

-----------------------------------------------------------------------------
(* The id table *)

\* An id next_request_id returns is in use nowhere.
LEMMA NextIdIsFresh ==
    ASSUME FreshIds # {}
    PROVE  /\ NextRequestId \in RandomIds
           /\ outgoing_requests[NextRequestId] = None
           /\ NextRequestId \notin keep_alive_set
           /\ \A a \in asked : a.id # NextRequestId
<1>1. NextRequestId \in FreshIds
  BY DEF NextRequestId
<1> QED BY <1>1 DEF FreshIds

\* An id that is no responder's and no keepalive's is one the server knows
\* nothing of.
LEMMA FreeIdIsUnasked ==
    ASSUME Typed, AnswersKnown, Alive,
           NEW i \in Ids, outgoing_requests[i] = None, i \notin keep_alive_set
    PROVE  \A a \in asked : a.id # i
<1> SUFFICES ASSUME NEW a \in asked, a.id = i PROVE FALSE
  OBVIOUS
<1>1. a.of \in Requests \cup {KeepAlive}
  BY DEF Typed, Asked
<1> QED BY <1>1, IdsAssumption DEF AnswersKnown

\* run ends: whatever the worker waits for, everything it owned is gone, and
\* the timeout is only recorded with an answer to a keepalive unread.
LEMMA StopStep ==
    ASSUME WsInv, NEW r, Stop(r), asked' \subseteq asked, UNCHANGED <<chosen, got, net>>,
           r = "KeepaliveTimeout" /\ net = "up" => \E a \in asked' : a.of = KeepAlive
    PROVE  WsInv'
<1> USE DEF WsInv
<1>1. Typed'
  BY DEF Typed, Stop
<1>2. ~Alive'
  BY DEF Stop, Alive
<1>3. KeepAlivesKnown'
  BY DEF Stop, KeepAlivesKnown
<1>4. ResponsesMatch'
  BY DEF ResponsesMatch
<1>5. TimeoutIsReal'
  BY DEF TimeoutIsReal, Stop
<1> QED BY <1>1, <1>2, <1>3, <1>4, <1>5 DEF AnswersKnown, WaitersKnown, ReasonKnown, Stop

\* The initial state: nothing is on its way.
LEMMA InitInv == Init => WsInv
<1> SUFFICES ASSUME Init PROVE WsInv
  OBVIOUS
<1>1. Typed
  BY DEF Init, Typed
<1>2. AnswersKnown /\ KeepAlivesKnown /\ WaitersKnown /\ ReasonKnown
  BY DEF Init, AnswersKnown, KeepAlivesKnown, WaitersKnown, ReasonKnown
<1>3. ResponsesMatch /\ TimeoutIsReal
  BY DEF Init, ResponsesMatch, TimeoutIsReal
<1> QED BY <1>1, <1>2, <1>3 DEF WsInv

-----------------------------------------------------------------------------
(* The application's steps *)

\* request: the responder is in the channel.
LEMMA RequestStep ==
    ASSUME WsInv, NEW r \in Requests, NEW id \in ChosenIds \cup {None}, Request(r, id)
    PROVE  WsInv'
<1> USE DEF WsInv
<1>1. Typed'
  BY DEF Typed, Request, tableVars
<1>2. Alive' <=> Alive
  BY DEF Alive, Request
<1>3. AnswersKnown' /\ KeepAlivesKnown' /\ ReasonKnown' /\ ResponsesMatch' /\ TimeoutIsReal'
  BY <1>2 DEF Request, tableVars, AnswersKnown, KeepAlivesKnown, ReasonKnown, ResponsesMatch,
              TimeoutIsReal
<1>4. WaitersKnown'
  <2> SUFFICES ASSUME Alive, NEW q \in Requests, call'[q] = "waiting"
               PROVE  (Queued(q) \/ Sent(q))'
    BY <1>2 DEF WaitersKnown
  <2>1. /\ requests' = Append(requests, r) /\ requests \in Seq(Requests)
        /\ DOMAIN requests' = 1 .. Len(requests) + 1
        /\ requests'[Len(requests) + 1] = r
        /\ \A k \in DOMAIN requests : requests'[k] = requests[k] /\ k \in DOMAIN requests'
    BY DEF Request, Typed
  <2>2. CASE q = r
    <3>1. Len(requests) + 1 \in DOMAIN requests'
      BY <2>1
    <3> QED BY <2>1, <2>2, <3>1 DEF Queued
  <2>3. CASE q # r
    <3>1. Queued(q) \/ Sent(q)
      BY <2>3 DEF Request, Typed, WaitersKnown
    <3>2. Queued(q) => Queued(q)'
      BY <2>1 DEF Queued
    <3>3. Sent(q) => Sent(q)'
      BY DEF Sent, Request, tableVars
    <3> QED BY <3>1, <3>2, <3>3
  <2> QED BY <2>2, <2>3
<1> QED BY <1>1, <1>3, <1>4

\* A call that ends, and a connection that dies, leave fewer to be known of.
LEMMA FewerWaiters ==
    ASSUME WsInv, UNCHANGED <<worker, requests, chosen, got, tableVars, reason>>,
           call' \in [Requests -> {"idle", "waiting", "answered", "closing", "dropped"}],
           \A r \in Requests : call'[r] = "waiting" => call[r] = "waiting",
           net' = "up" => net = "up"
    PROVE  WsInv'
<1> USE DEF WsInv
<1>1. Typed'
  BY DEF Typed, tableVars
<1>2. Alive' <=> Alive
  BY DEF Alive
<1>3. AnswersKnown' /\ KeepAlivesKnown' /\ ReasonKnown' /\ ResponsesMatch' /\ TimeoutIsReal'
  BY <1>2 DEF tableVars, AnswersKnown, KeepAlivesKnown, ReasonKnown, ResponsesMatch, TimeoutIsReal
<1>4. ASSUME NEW r \in Requests PROVE (Queued(r) => Queued(r)') /\ (Sent(r) => Sent(r)')
  BY DEF Queued, Sent, tableVars
<1>5. WaitersKnown'
  BY <1>2, <1>4 DEF WaitersKnown
<1> QED BY <1>1, <1>3, <1>5

-----------------------------------------------------------------------------
(* The worker's steps *)

\* A request is taken from the channel: its responder is in the table under an
\* id that nothing else has, its own or a fresh one.
LEMMA TakeRequestStep ==
    ASSUME WsInv, NEW w, TakeRequest(w)
    PROVE  WsInv'
<1> USE DEF WsInv
<1>1. PICK r : r = Head(requests)
  OBVIOUS
<1>2. PICK id : id = IF chosen[r] # None /\ outgoing_requests[chosen[r]] = None
                       THEN chosen[r] ELSE NextRequestId
  OBVIOUS
<1>3. /\ worker = "running" /\ requests # <<>> /\ FreshIds # {}
      /\ requests' = Tail(requests)
      /\ outgoing_requests' = [outgoing_requests EXCEPT ![id] = r]
      /\ Ask(id, r)
      /\ Transmit(w)
      /\ UNCHANGED <<call, chosen, got, keep_alive_set, inbox, net, reason>>
  BY <1>1, <1>2 DEF TakeRequest
<1>4. /\ requests \in Seq(Requests) /\ r \in Requests /\ r \notin {None, KeepAlive}
  BY <1>1, <1>3, IdsAssumption DEF Typed
<1>5. id \in Ids /\ outgoing_requests[id] = None /\ id \notin keep_alive_set
  <2>1. CASE chosen[r] # None /\ outgoing_requests[chosen[r]] = None
    BY <1>2, <1>4, <2>1, IdsAssumption DEF Typed, Ids
  <2>2. CASE ~(chosen[r] # None /\ outgoing_requests[chosen[r]] = None)
    BY <1>2, <1>3, <2>2, NextIdIsFresh DEF Ids
  <2> QED BY <2>1, <2>2
<1>6. Alive /\ Alive' /\ worker' \in {"running", "blocked"}
  BY <1>3 DEF Alive, Transmit
<1>7. \A a \in asked : a.id # id
  BY <1>5, <1>6, FreeIdIsUnasked
<1>8. /\ outgoing_requests \in [Ids -> Requests \cup {None}]
      /\ outgoing_requests'[id] = r
      /\ \A i \in Ids : i # id => outgoing_requests'[i] = outgoing_requests[i]
  BY <1>3, <1>5 DEF Typed
<1>9. /\ asked \subseteq asked'
      /\ \A a \in asked' : a \in asked \/ a = [id |-> id, of |-> r]
      /\ net = "up" => [id |-> id, of |-> r] \in asked'
  BY <1>3 DEF Ask
<1>10. Typed'
  <2>1. Tail(requests) \in Seq(Requests)
    BY <1>3, <1>4
  <2>2. [id |-> id, of |-> r] \in Asked
    BY <1>4, <1>5 DEF Asked
  <2>3. asked' \subseteq Asked
    BY <1>9, <2>2 DEF Typed
  <2>4. outgoing_requests' \in [Ids -> Requests \cup {None}]
    BY <1>3, <1>4, <1>8
  <2>5. inbox' \subseteq asked'
    BY <1>3, <1>9 DEF Typed
  <2> QED BY <1>3, <1>6, <2>1, <2>3, <2>4, <2>5 DEF Typed
<1>11. AnswersKnown'
  <2> SUFFICES ASSUME NEW a \in asked'
               PROVE  IF a.of = KeepAlive THEN a.id \in keep_alive_set
                                          ELSE outgoing_requests'[a.id] = a.of
    BY <1>3 DEF AnswersKnown
  <2>1. CASE a \in asked
    <3>1. a.id \in Ids /\ a.id # id
      BY <1>7, <2>1 DEF Typed, Asked
    <3> QED BY <1>6, <1>8, <2>1, <3>1 DEF AnswersKnown
  <2>2. CASE a = [id |-> id, of |-> r]
    BY <1>4, <1>8, <2>2
  <2> QED BY <1>9, <2>1, <2>2
<1>12. KeepAlivesKnown'
  <2>1. \A i \in keep_alive_set : i \in Ids /\ i # id
    BY <1>5 DEF Typed, Ids
  <2> QED BY <1>3, <1>8, <1>9, <2>1 DEF KeepAlivesKnown
<1>13. WaitersKnown'
  <2> SUFFICES ASSUME NEW q \in Requests, call[q] = "waiting"
               PROVE  (Queued(q) \/ Sent(q))'
    BY <1>3 DEF WaitersKnown
  <2>1. Queued(q) \/ Sent(q)
    BY <1>6 DEF WaitersKnown
  <2>2. CASE q = r
    BY <1>3, <1>5, <1>8, <1>9, <2>2 DEF Sent
  <2>3. CASE q # r /\ Queued(q)
    <3>1. PICK k \in DOMAIN requests : requests[k] = q
      BY <2>3 DEF Queued
    <3>2. k \in 1 .. Len(requests) /\ k # 1
      BY <1>1, <1>4, <2>3, <3>1
    <3>3. Len(requests') = Len(requests) - 1 /\ requests' \in Seq(Requests)
      BY <1>3, <1>4
    <3>4. k - 1 \in DOMAIN requests' /\ requests'[k - 1] = q
      BY <1>3, <1>4, <3>1, <3>2, <3>3
    <3> QED BY <3>4 DEF Queued
  <2>4. CASE Sent(q)
    <3>1. PICK i \in Ids : /\ outgoing_requests[i] = q
                           /\ net = "up" => [id |-> i, of |-> q] \in asked
      BY <2>4 DEF Sent
    <3>2. i # id
      BY <1>5, <3>1, IdsAssumption
    <3> QED BY <1>3, <1>8, <1>9, <3>1, <3>2 DEF Sent
  <2> QED BY <2>1, <2>2, <2>3, <2>4
<1>14. ReasonKnown' /\ ResponsesMatch'
  BY <1>3, <1>6 DEF ReasonKnown, ResponsesMatch
<1>15. TimeoutIsReal'
  BY <1>3, <1>6 DEF ReasonKnown, TimeoutIsReal
<1> QED BY <1>10, <1>11, <1>12, <1>13, <1>14, <1>15

\* A keepalive goes out under a fresh id.
LEMMA KeepAliveTickStep ==
    ASSUME WsInv, NEW w, KeepAliveTick(w)
    PROVE  WsInv'
<1> USE DEF WsInv
<1>1. PICK id : id = NextRequestId
  OBVIOUS
<1>2. /\ worker = "running" /\ keep_alive_set' = {id} /\ Ask(id, KeepAlive) /\ Transmit(w)
      /\ UNCHANGED <<requests, call, chosen, got, outgoing_requests, inbox, net, reason>>
  BY <1>1 DEF KeepAliveTick, callVars
<1>3. id \in RandomIds /\ id \in Ids /\ outgoing_requests[id] = None
  BY <1>1, NextIdIsFresh DEF KeepAliveTick, Ids
<1>4. Alive /\ Alive' /\ worker' \in {"running", "blocked"}
  BY <1>2 DEF Alive, Transmit
<1>5. /\ asked \subseteq asked'
      /\ \A a \in asked' : a \in asked \/ a = [id |-> id, of |-> KeepAlive]
      /\ net = "up" => [id |-> id, of |-> KeepAlive] \in asked'
  BY <1>2 DEF Ask
<1>6. Typed'
  <2>1. [id |-> id, of |-> KeepAlive] \in Asked
    BY <1>3 DEF Asked
  <2> QED BY <1>2, <1>3, <1>4, <1>5, <2>1 DEF Typed
<1>7. AnswersKnown'
  <2> SUFFICES ASSUME NEW a \in asked'
               PROVE  IF a.of = KeepAlive THEN a.id \in keep_alive_set'
                                          ELSE outgoing_requests[a.id] = a.of
    BY <1>2 DEF AnswersKnown
  <2>1. CASE a \in asked
    <3>1. a.of # KeepAlive
      BY <1>4, <2>1 DEF AnswersKnown, KeepAliveTick
    <3> QED BY <1>4, <2>1, <3>1 DEF AnswersKnown
  <2>2. CASE a = [id |-> id, of |-> KeepAlive]
    BY <1>2, <2>2
  <2> QED BY <1>5, <2>1, <2>2
<1>8. KeepAlivesKnown'
  BY <1>2, <1>3, <1>5 DEF KeepAlivesKnown
<1>9. ASSUME NEW r \in Requests PROVE (Queued(r) => Queued(r)') /\ (Sent(r) => Sent(r)')
  BY <1>2, <1>5 DEF Queued, Sent
<1>10. WaitersKnown'
  BY <1>2, <1>4, <1>9 DEF WaitersKnown
<1>11. ReasonKnown' /\ ResponsesMatch'
  BY <1>2, <1>4 DEF ReasonKnown, ResponsesMatch
<1>12. TimeoutIsReal'
  BY <1>2, <1>4 DEF ReasonKnown, TimeoutIsReal
<1> QED BY <1>6, <1>7, <1>8, <1>10, <1>11, <1>12

\* process_frame gives a response to the responder under its id, which is that
\* of the request the server answers.
LEMMA ReceiveResponseStep ==
    ASSUME WsInv, NEW a \in inbox, ReceiveResponse(a)
    PROVE  WsInv'
<1> USE DEF WsInv
<1>1. PICK r : r = outgoing_requests[a.id]
  OBVIOUS
<1>2. /\ worker = "running" /\ r # None /\ a \in asked
      /\ asked' = asked \ {a} /\ inbox' = inbox \ {a}
      /\ outgoing_requests' = [outgoing_requests EXCEPT ![a.id] = None]
      /\ call' = [call EXCEPT ![r] = IF @ = "waiting" THEN "answered" ELSE @]
      /\ got' = [got EXCEPT ![r] = IF call[r] = "waiting" THEN a.of ELSE @]
      /\ UNCHANGED <<worker, requests, chosen, keep_alive_set, net, reason>>
  BY <1>1 DEF ReceiveResponse, Reads, Typed
<1>3. /\ a.id \in Ids /\ a.of \in Requests \cup {KeepAlive} /\ r \in Requests
  BY <1>1, <1>2 DEF Typed, Asked
<1>4. Alive /\ Alive'
  BY <1>2 DEF Alive
<1>5. a.of = r /\ a.of # KeepAlive
  BY <1>1, <1>2, <1>4 DEF AnswersKnown, KeepAlivesKnown
<1>6. /\ outgoing_requests'[a.id] = None
      /\ \A i \in Ids : i # a.id => outgoing_requests'[i] = outgoing_requests[i]
      /\ outgoing_requests' \in [Ids -> Requests \cup {None}]
  BY <1>2, <1>3 DEF Typed
<1>7. /\ \A q \in Requests : q # r => call'[q] = call[q] /\ got'[q] = got[q]
      /\ call'[r] # "waiting" /\ got'[r] \in {got[r], r}
      /\ call' \in [Requests -> {"idle", "waiting", "answered", "closing", "dropped"}]
      /\ got' \in [Requests -> Requests \cup {KeepAlive, None}]
  BY <1>2, <1>3, <1>5 DEF Typed
<1>8. Typed'
  BY <1>2, <1>6, <1>7 DEF Typed
<1>9. ASSUME NEW b \in asked' PROVE b \in asked /\ b.id \in Ids /\ b.id # a.id
  <2>1. b \in asked /\ b \in Asked /\ b # a /\ a \in Asked
    BY <1>2, <1>9 DEF Typed
  <2>2. ASSUME b.id = a.id PROVE FALSE
    <3>1. b.of = a.of
      BY <1>1, <1>2, <1>4, <1>5, <2>1, <2>2 DEF AnswersKnown, KeepAlivesKnown
    <3> QED BY <2>1, <2>2, <3>1 DEF Asked
  <2> QED BY <2>1, <2>2 DEF Asked
<1>10. AnswersKnown'
  <2> SUFFICES ASSUME NEW b \in asked'
               PROVE  IF b.of = KeepAlive THEN b.id \in keep_alive_set
                                          ELSE outgoing_requests'[b.id] = b.of
    BY <1>2 DEF AnswersKnown
  <2> QED BY <1>4, <1>6, <1>9 DEF AnswersKnown
<1>11. KeepAlivesKnown'
  <2> SUFFICES ASSUME NEW i \in keep_alive_set
               PROVE  /\ outgoing_requests'[i] = None
                      /\ net = "up" => [id |-> i, of |-> KeepAlive] \in asked'
    BY <1>2 DEF KeepAlivesKnown
  <2>1. [id |-> i, of |-> KeepAlive] # a
    BY <1>5
  <2>2. i \in Ids
    BY DEF Typed, Ids
  <2> QED BY <1>2, <1>6, <2>1, <2>2 DEF KeepAlivesKnown
<1>12. WaitersKnown'
  <2> SUFFICES ASSUME NEW q \in Requests, call'[q] = "waiting"
               PROVE  (Queued(q) \/ Sent(q))'
    BY DEF WaitersKnown
  <2>1. q # r /\ call[q] = "waiting"
    BY <1>7
  <2>2. Queued(q) => Queued(q)'
    BY <1>2 DEF Queued
  <2>3. ASSUME Sent(q) PROVE Sent(q)'
    <3>1. PICK i \in Ids : /\ outgoing_requests[i] = q
                           /\ net = "up" => [id |-> i, of |-> q] \in asked
      BY <2>3 DEF Sent
    <3>2. i # a.id /\ [id |-> i, of |-> q] # a
      BY <1>1, <2>1, <3>1
    <3> QED BY <1>2, <1>6, <3>1, <3>2 DEF Sent
  <2> QED BY <1>4, <2>1, <2>2, <2>3 DEF WaitersKnown
<1>13. ResponsesMatch'
  BY <1>7 DEF ResponsesMatch
<1>14. ReasonKnown' /\ TimeoutIsReal'
  BY <1>2, <1>4 DEF ReasonKnown, TimeoutIsReal
<1> QED BY <1>8, <1>10, <1>11, <1>12, <1>13, <1>14

\* A keepalive is answered: the worker no longer waits for it.
LEMMA ReceiveKeepAliveStep ==
    ASSUME WsInv, NEW a \in inbox, ReceiveKeepAlive(a)
    PROVE  WsInv'
<1> USE DEF WsInv
<1>1. /\ worker = "running" /\ a \in asked
      /\ asked' = asked \ {a} /\ inbox' = inbox \ {a}
      /\ outgoing_requests[a.id] = None /\ a.id \in keep_alive_set
      /\ keep_alive_set' = keep_alive_set \ {a.id}
      /\ UNCHANGED <<worker, requests, call, chosen, got, outgoing_requests, net, reason>>
  BY DEF ReceiveKeepAlive, Reads, callVars, Typed
<1>2. Alive /\ Alive'
  BY <1>1 DEF Alive
<1>3. \A b \in asked : b \in Asked /\ b.of \in Requests \cup {KeepAlive} /\ b.id \in Ids
  BY DEF Typed, Asked
<1>4. a.of = KeepAlive
  BY <1>1, <1>2, <1>3, IdsAssumption DEF AnswersKnown
<1>5. Typed'
  BY <1>1 DEF Typed
<1>6. AnswersKnown'
  <2> SUFFICES ASSUME NEW b \in asked, b # a
               PROVE  IF b.of = KeepAlive THEN b.id \in keep_alive_set \ {a.id}
                                          ELSE outgoing_requests[b.id] = b.of
    BY <1>1 DEF AnswersKnown
  <2>1. b.of = KeepAlive => b.id # a.id
    BY <1>1, <1>3, <1>4 DEF Asked
  <2> QED BY <1>2, <2>1 DEF AnswersKnown
<1>7. KeepAlivesKnown'
  <2> SUFFICES ASSUME NEW i \in keep_alive_set, i # a.id
               PROVE  /\ outgoing_requests[i] = None
                      /\ net = "up" => [id |-> i, of |-> KeepAlive] \in asked \ {a}
    BY <1>1 DEF KeepAlivesKnown
  <2> QED BY DEF KeepAlivesKnown
<1>8. ASSUME NEW r \in Requests PROVE (Queued(r) => Queued(r)') /\ (Sent(r) => Sent(r)')
  <2>1. \A i \in Ids : [id |-> i, of |-> r] # a
    BY <1>4, IdsAssumption
  <2> QED BY <1>1, <2>1 DEF Queued, Sent
<1>9. WaitersKnown'
  BY <1>1, <1>2, <1>8 DEF WaitersKnown
<1>10. ReasonKnown' /\ ResponsesMatch' /\ TimeoutIsReal'
  BY <1>1, <1>2 DEF ReasonKnown, ResponsesMatch, TimeoutIsReal
<1> QED BY <1>5, <1>6, <1>7, <1>9, <1>10

\* The worker goes on in another state, or an answer comes in: the table, the
\* channel and what is unread stay as they are.
LEMMA OwnStep ==
    ASSUME WsInv, UNCHANGED <<callVars, outgoing_requests, keep_alive_set, asked, net>>,
           inbox' \subseteq asked, Alive, worker' \in {"running", "blocked", "closing"},
           ReasonKnown', TimeoutIsReal'
    PROVE  WsInv'
<1> USE DEF WsInv
<1>1. UNCHANGED <<requests, call, chosen, got>>
  BY DEF callVars
<1>2. Typed'
  BY <1>1 DEF Typed
<1>3. Alive'
  BY DEF Alive
<1>4. AnswersKnown' /\ KeepAlivesKnown' /\ ResponsesMatch'
  BY <1>1, <1>3 DEF AnswersKnown, KeepAlivesKnown, ResponsesMatch
<1>5. ASSUME NEW r \in Requests PROVE (Queued(r) => Queued(r)') /\ (Sent(r) => Sent(r)')
  BY <1>1 DEF Queued, Sent
<1>6. WaitersKnown'
  BY <1>1, <1>3, <1>5 DEF WaitersKnown
<1> QED BY <1>2, <1>4, <1>6

\* A response to the server is sent, or is stuck in ws.send; or a stuck one
\* leaves.
LEMMA BlockedStep ==
    ASSUME WsInv, UNCHANGED <<callVars, tableVars, net, reason>>,
           worker \in {"running", "blocked"}, worker' \in {"running", "blocked"}
    PROVE  WsInv'
<1>1. UNCHANGED <<outgoing_requests, keep_alive_set, asked, inbox>>
  BY DEF tableVars
<1>2. inbox' \subseteq asked /\ Alive
  BY <1>1 DEF WsInv, Typed, Alive
<1>3. ReasonKnown' /\ TimeoutIsReal'
  BY <1>1 DEF WsInv, ReasonKnown, TimeoutIsReal
<1> QED BY <1>1, <1>2, <1>3, OwnStep

\* The answer to a request or a keepalive comes in.
LEMMA AnswerStep ==
    ASSUME WsInv, NEW a \in asked, Answer(a)
    PROVE  WsInv'
<1>1. /\ UNCHANGED <<worker, callVars, outgoing_requests, keep_alive_set, asked, net, reason>>
      /\ inbox' = inbox \cup {a} /\ worker # "stopped"
  BY DEF Answer
<1>2. /\ inbox' \subseteq asked /\ Alive
      /\ worker' \in {"running", "blocked", "closing"}
  BY <1>1 DEF WsInv, Typed, Alive
<1>3. ReasonKnown' /\ TimeoutIsReal'
  BY <1>1 DEF WsInv, ReasonKnown, TimeoutIsReal
<1> QED BY <1>1, <1>2, <1>3, OwnStep

\* The worker gives up: it has not read the answer to a keepalive.
LEMMA ExpiredStep ==
    ASSUME WsInv, KeepAliveExpired
    PROVE  WsInv'
<1>1. /\ worker = "running" /\ worker' = "closing" /\ reason' = "KeepaliveTimeout"
      /\ UNCHANGED <<callVars, outgoing_requests, keep_alive_set, asked, inbox, net>>
  BY DEF KeepAliveExpired, tableVars
<1>2. PICK i \in keep_alive_set : net = "up" => [id |-> i, of |-> KeepAlive] \in asked
  BY DEF KeepAliveExpired, WsInv, KeepAlivesKnown
<1>3. [id |-> i, of |-> KeepAlive].of = KeepAlive
  OBVIOUS
<1>4. ReasonKnown' /\ TimeoutIsReal'
  BY <1>1, <1>2, <1>3 DEF ReasonKnown, TimeoutIsReal
<1>5. inbox' \subseteq asked /\ Alive
  BY <1>1 DEF WsInv, Typed, Alive
<1> QED BY <1>1, <1>4, <1>5, OwnStep

\* Every way in which run returns.
LEMMA StoppingSteps ==
    ASSUME WsInv,
           \/ EndOfRequests \/ CloseEnds \/ SendFails \/ ReceiveInvalid \/ ReceiveEnd
           \/ ReceiveUnhandled
           \/ \E code \in {1000, 4401, 4409} : ReceiveClose(code)
           \/ \E a \in inbox : ReceiveKeepAliveError(a)
    PROVE  WsInv'
<1>1. ASSUME worker \in {"running", "blocked"}, Stop(reason), asked' \subseteq asked,
             UNCHANGED <<chosen, got, net>>
      PROVE  WsInv'
  <2>1. reason = "none"
    BY <1>1 DEF WsInv, ReasonKnown
  <2> QED BY <1>1, <2>1, StopStep
<1>2. CASE EndOfRequests
  BY <1>1, <1>2 DEF EndOfRequests
<1>3. CASE SendFails
  BY <1>1, <1>3 DEF SendFails
<1>4. CASE ReceiveInvalid
  BY <1>1, <1>4 DEF ReceiveInvalid, Receiving
<1>5. CASE ReceiveUnhandled
  BY <1>1, <1>5 DEF ReceiveUnhandled, Receiving
<1>6. CASE \E a \in inbox : ReceiveKeepAliveError(a)
  BY <1>1, <1>6 DEF ReceiveKeepAliveError, Reads
<1>7. CASE ReceiveEnd
  BY <1>7, StopStep DEF ReceiveEnd
<1>8. CASE \E code \in {1000, 4401, 4409} : ReceiveClose(code)
  <2>1. PICK code \in {1000, 4401, 4409} : ReceiveClose(code)
    BY <1>8
  <2>2. FromClose(code) # "KeepaliveTimeout"
    BY DEF FromClose
  <2> QED BY <2>1, <2>2, StopStep DEF ReceiveClose
<1>9. CASE CloseEnds
  <2>1. Stop(reason) /\ UNCHANGED <<chosen, got, net, asked>>
    BY <1>9 DEF CloseEnds
  <2>2. reason = "KeepaliveTimeout" /\ net = "up" => \E a \in asked' : a.of = KeepAlive
    BY <2>1 DEF WsInv, TimeoutIsReal
  <2> QED BY <2>1, <2>2, StopStep
<1> QED BY <1>2, <1>3, <1>4, <1>5, <1>6, <1>7, <1>8, <1>9

\* The steps of the websocket, whether a MessagePipe is run on it or not.
LEMMA WsStepsInv ==
    ASSUME WsInv, \/ \E r \in Requests : CallStep(r)
                  \/ DropFacades \/ WorkerStep \/ NetStep
                  \/ UNCHANGED <<worker, callVars, tableVars, net, reason>>
    PROVE  WsInv'
<1>1. ASSUME NEW r \in Requests, CallStep(r) PROVE WsInv'
  <2>1. CASE RequestClosed(r) \/ DropRequest(r)
    <3>1. UNCHANGED <<worker, requests, chosen, got, tableVars, reason, net>>
      BY <2>1 DEF RequestClosed, DropRequest
    <3>2. /\ call' \in [Requests -> {"idle", "waiting", "answered", "closing", "dropped"}]
          /\ \A q \in Requests : call'[q] = "waiting" => call[q] = "waiting"
      BY <2>1 DEF RequestClosed, DropRequest, WsInv, Typed
    <3> QED BY <3>1, <3>2, FewerWaiters
  <2> QED BY <1>1, <2>1, RequestStep DEF CallStep
<1>2. CASE DropFacades \/ NetBreaks \/ UNCHANGED <<worker, callVars, tableVars, net, reason>>
  <2>1. UNCHANGED <<worker, requests, call, chosen, got, tableVars, reason>>
    BY <1>2 DEF DropFacades, NetBreaks, callVars
  <2>2. net' = "up" => net = "up"
    BY <1>2 DEF DropFacades, NetBreaks
  <2>3. call' \in [Requests -> {"idle", "waiting", "answered", "closing", "dropped"}]
    BY <2>1 DEF WsInv, Typed
  <2> QED BY <2>1, <2>2, <2>3, FewerWaiters
<1>3. CASE SendResumes
  BY <1>3, BlockedStep DEF SendResumes
<1>4. CASE WorkerStep
  BY <1>3, <1>4, TakeRequestStep, KeepAliveTickStep, ReceiveResponseStep, ReceiveKeepAliveStep,
     ExpiredStep, StoppingSteps DEF WorkerStep, SendStep, Receive
<1> QED BY <1>1, <1>2, <1>4, AnswerStep DEF NetStep

\* In every reachable state of the websocket.
LEMMA WsInvHolds == WsSpec => []WsInv
<1>1. WsInv /\ [WsNext]_wsVars => WsInv'
  BY WsStepsInv DEF WsNext, Stopped, wsVars
<1> QED BY <1>1, InitInv, PTL DEF WsSpec

-----------------------------------------------------------------------------
(* The theorems *)

\* A caller of SignalWebSocket::request is given the response to its own request:
\* ids callers choose, ids that are drawn and ids of keepalives never meet.
THEOREM OwnResponse == WsSpec => []ResponsesMatch
BY WsInvHolds, PTL DEF WsInv

\* While the worker runs, the request of a waiting caller is in its channel or
\* in its table, and then with the server unless the connection is dead.
THEOREM NoResponderLost == WsSpec => []WaitingIsTracked
<1>1. WsInv => WaitingIsTracked
  BY DEF WsInv, WaitersKnown, WaitingIsTracked, Alive, Queued, Sent
<1> QED BY <1>1, WsInvHolds, PTL

\* The worker gives up with KeepaliveTimeout on a live connection only if there is
\* an answer to a keepalive that it has not read, on its way or in the receive
\* buffer, whichever branch select! takes and however long a send blocked: no
\* keepalive whose answer was read stays in the set.
THEOREM TimeoutOnlyUnread == WsSpec => []TimeoutIsReal
BY WsInvHolds, PTL DEF WsInv

-----------------------------------------------------------------------------
(* The message pipe: the inductive invariant *)

\* What has been passed on: what the consumer was given, then what waits for it.
Given == [k \in 1 .. Len(yielded) + Len(sink) |->
            IF k <= Len(yielded) THEN yielded[k] ELSE sink[k - Len(yielded)]]

\* How many of the server's requests have left the request stream.
Passed == Len(sent) - Len(stream)

PipeTyped ==
    /\ worker \in {"running", "blocked", "closing", "stopped"}
    /\ sent \in Seq(Kinds) /\ Len(sent) <= MaxIncoming
    /\ stream \in Seq(Incoming)
    /\ responder \in [Incoming -> {"none", "open", "filled", "canceled", "acked", "lost"}]
    /\ reason \in DisconnectReasons \cup {"none"}
    /\ pipe \in {"new", "next", "parked", "ended", "dropped"}
    /\ sink \in Seq(Items \cup Disconnected)
    /\ yielded \in Seq(Items \cup Disconnected)

\* The stream holds the latest requests.
StreamOK ==
    /\ Len(stream) <= Len(sent)
    /\ \A k \in DOMAIN stream : stream[k] = Passed + k

\* Every request up to the n-th that asks for an item has one.
Complete(n) ==
    \A i \in 1 .. n : sent[i] # "other" =>
        \E j \in DOMAIN Given : Given[j].tag # "disconnected" /\ Given[j].of = i

GivenInOrder ==
    \A j, k \in DOMAIN Given : j < k =>
        /\ Given[j].tag # "disconnected"
        /\ Given[k].tag # "disconnected" => Given[j].of < Given[k].of

\* The items are of requests that were taken; all of those have theirs, and all
\* requests have once the end was passed on.
GivenOK ==
    /\ \A k \in DOMAIN Given : Given[k].tag # "disconnected" =>
          Given[k] \in Items /\ Given[k].of <= Passed
    /\ \A k \in DOMAIN Given : Given[k].tag = "disconnected" =>
          pipe \in {"ended", "dropped"} /\ worker = "stopped" /\ Complete(Len(sent))
    /\ pipe # "dropped" => Complete(Passed)

\* The channel's bound.
SinkOK ==
    /\ Len(sink) <= 2
    /\ pipe \in {"new", "next"} => Len(sink) <= 1
    /\ pipe = "dropped" => sink = <<>>

Missing == {i \in Acknowledged : ~Yielded(i)}
AcksOK ==
    /\ pipe # "dropped" => \A i \in Missing : Buffered(i)
    /\ \E x, y \in 0 .. MaxIncoming : Missing \subseteq {x, y}

PipeInv == PipeTyped /\ StreamOK /\ GivenInOrder /\ GivenOK /\ SinkOK /\ AcksOK
-----------------------------------------------------------------------------
(* The channel *)

\* The items as a sequence.
LEMMA GivenType ==
    ASSUME PipeTyped
    PROVE  /\ Len(yielded) \in Nat /\ Len(sink) \in Nat
           /\ DOMAIN Given = 1 .. Len(yielded) + Len(sink)
           /\ \A k \in DOMAIN Given : Given[k] \in Items \cup Disconnected
           /\ \A k \in DOMAIN yielded : k \in DOMAIN Given /\ Given[k] = yielded[k]
           /\ \A k \in DOMAIN sink : /\ Len(yielded) + k \in DOMAIN Given
                                     /\ Given[Len(yielded) + k] = sink[k]
<1>1. Len(yielded) \in Nat /\ Len(sink) \in Nat
  BY DEF PipeTyped
<1>2. DOMAIN yielded = 1 .. Len(yielded) /\ DOMAIN sink = 1 .. Len(sink)
  BY DEF PipeTyped
<1>3. DOMAIN Given = 1 .. Len(yielded) + Len(sink)
  BY DEF Given
<1>4. ASSUME NEW k \in DOMAIN Given PROVE Given[k] \in Items \cup Disconnected
  <2>1. CASE k <= Len(yielded)
    BY <1>1, <1>3, <1>4, <2>1 DEF Given, PipeTyped
  <2>2. CASE ~(k <= Len(yielded))
    <3>1. k - Len(yielded) \in 1 .. Len(sink)
      BY <1>1, <1>3, <1>4, <2>2
    <3> QED BY <1>1, <1>3, <1>4, <2>2, <3>1 DEF Given, PipeTyped
  <2> QED BY <2>1, <2>2
<1>5. \A k \in DOMAIN yielded : k \in DOMAIN Given /\ Given[k] = yielded[k]
  BY <1>1, <1>2, <1>3 DEF Given
<1>6. ASSUME NEW k \in DOMAIN sink
      PROVE  Len(yielded) + k \in DOMAIN Given /\ Given[Len(yielded) + k] = sink[k]
  <2>1. k \in 1 .. Len(sink) /\ Len(yielded) + k \in 1 .. Len(yielded) + Len(sink)
    BY <1>1, <1>2
  <2>2. ~(Len(yielded) + k <= Len(yielded)) /\ (Len(yielded) + k) - Len(yielded) = k
    BY <1>1, <2>1
  <2> QED BY <1>3, <2>1, <2>2 DEF Given
<1> QED BY <1>1, <1>3, <1>4, <1>5, <1>6

\* An item that is sent into the channel comes after all others.
LEMMA GivenGrows ==
    ASSUME PipeTyped, NEW item, sink' = Append(sink, item), yielded' = yielded
    PROVE  \E n \in Nat : /\ DOMAIN Given = 1 .. n
                          /\ DOMAIN Given' = 1 .. n + 1
                          /\ Given'[n + 1] = item
                          /\ \A k \in 1 .. n : Given'[k] = Given[k]
<1> DEFINE y == Len(yielded)
           n == Len(yielded) + Len(sink)
<1>1. y \in Nat /\ Len(sink) \in Nat /\ n \in Nat
  BY DEF PipeTyped
<1>2. Len(sink') = Len(sink) + 1 /\ sink'[Len(sink) + 1] = item
  BY DEF PipeTyped
<1>3. \A k \in 1 .. Len(sink) : sink'[k] = sink[k]
  BY DEF PipeTyped
<1>4. DOMAIN Given = 1 .. n /\ DOMAIN Given' = 1 .. n + 1
  BY <1>1, <1>2 DEF Given
<1>5. Given'[n + 1] = item
  <2>1. n + 1 \in 1 .. n + 1 /\ ~(n + 1 <= y) /\ (n + 1) - y = Len(sink) + 1
    BY <1>1
  <2> QED BY <1>2, <1>4, <2>1 DEF Given
<1>6. ASSUME NEW k \in 1 .. n PROVE Given'[k] = Given[k]
  <2>1. k \in 1 .. n + 1
    BY <1>1
  <2>2. CASE k <= y
    BY <1>4, <2>1, <2>2, <1>2 DEF Given
  <2>3. CASE ~(k <= y)
    <3>1. k - y \in 1 .. Len(sink)
      BY <1>1, <2>3
    <3> QED BY <1>2, <1>3, <1>4, <2>1, <2>3, <3>1 DEF Given
  <2> QED BY <2>2, <2>3
<1> QED BY <1>1, <1>4, <1>5, <1>6

\* An item the consumer is given stays where it is in the order.
LEMMA GivenYield ==
    ASSUME PipeTyped, Yield
    PROVE  Given' = Given
<1> DEFINE y == Len(yielded)
           n == Len(yielded) + Len(sink)
<1>1. y \in Nat /\ Len(sink) \in Nat \ {0} /\ n \in Nat
  BY DEF PipeTyped, Yield
<1>2. /\ Len(yielded') = y + 1 /\ yielded'[y + 1] = sink[1]
      /\ \A k \in 1 .. y : yielded'[k] = yielded[k]
  BY DEF PipeTyped, Yield
<1>3. Len(sink') = Len(sink) - 1 /\ \A k \in 1 .. Len(sink) - 1 : sink'[k] = sink[k + 1]
  BY DEF PipeTyped, Yield
<1>4. DOMAIN Given = 1 .. n /\ DOMAIN Given' = 1 .. n
  BY <1>1, <1>2, <1>3 DEF Given
<1>5. ASSUME NEW k \in 1 .. n PROVE Given'[k] = Given[k]
  <2>1. CASE k <= y
    BY <1>1, <1>2, <1>4, <2>1 DEF Given
  <2>2. CASE k = y + 1
    <3>1. k - y = 1 /\ ~(k <= y) /\ k <= y + 1
      BY <1>1, <2>2
    <3> QED BY <1>2, <1>4, <2>2, <3>1 DEF Given
  <2>3. CASE k > y + 1
    <3>1. /\ k - y \in 1 .. Len(sink) /\ k - (y + 1) \in 1 .. Len(sink) - 1
          /\ (k - (y + 1)) + 1 = k - y /\ ~(k <= y) /\ ~(k <= y + 1)
      BY <1>1, <2>3
    <3> QED BY <1>2, <1>3, <1>4, <3>1 DEF Given
  <2> QED BY <1>1, <2>1, <2>2, <2>3
<1>6. Given' = [k \in 1 .. n |-> Given'[k]] /\ Given = [k \in 1 .. n |-> Given[k]]
  BY <1>4 DEF Given
<1> QED BY <1>5, <1>6

\* No more than the channel holds: at most two envelopes are in two places.
LEMMA TwoAtMost ==
    ASSUME NEW s \in Seq(Items \cup Disconnected), Len(s) <= 2, NEW m,
           \A i \in m : \E k \in DOMAIN s : s[k] = [tag |-> "envelope", of |-> i]
    PROVE  \E x, y \in 0 .. MaxIncoming : m \subseteq {x, y}
<1> DEFINE f(k) == IF k \in DOMAIN s /\ s[k].tag = "envelope" THEN s[k].of ELSE 0
<1>1. ASSUME NEW k PROVE f(k) \in 0 .. MaxIncoming
  <2>1. CASE k \in DOMAIN s /\ s[k].tag = "envelope"
    <3>1. s[k] \in Items \cup Disconnected
      BY <2>1
    <3>2. s[k] \in Items
      BY <2>1, <3>1 DEF Disconnected
    <3> QED BY <2>1, <3>2, IdsAssumption DEF Items, Incoming
  <2>2. CASE ~(k \in DOMAIN s /\ s[k].tag = "envelope")
    BY <2>2, IdsAssumption
  <2> QED BY <2>1, <2>2
<1>2. ASSUME NEW i \in m PROVE i = f(1) \/ i = f(2)
  <2>1. PICK k \in DOMAIN s : s[k] = [tag |-> "envelope", of |-> i]
    OBVIOUS
  <2>2. k = 1 \/ k = 2
    BY <2>1
  <2>3. i = f(k)
    BY <2>1
  <2> QED BY <2>2, <2>3
<1> HIDE DEF f
<1> QED BY <1>1, <1>2

-----------------------------------------------------------------------------
(* The websocket's steps *)

\* A step that moves no request and no item, acknowledges nothing new, and does
\* not start the worker again.
LEMMA QuietStep ==
    ASSUME PipeInv, UNCHANGED <<sent, stream, sink, yielded>>,
           pipe' = pipe \/ (pipe = "new" /\ pipe' = "next"),
           worker' \in {"running", "blocked", "closing", "stopped"},
           worker = "stopped" => worker' = "stopped",
           reason' \in DisconnectReasons \cup {"none"},
           responder' \in [Incoming -> {"none", "open", "filled", "canceled", "acked", "lost"}],
           \A i \in Incoming : responder'[i] \in {"filled", "acked", "lost"} =>
                                  responder[i] \in {"filled", "acked", "lost"}
    PROVE  PipeInv'
<1> USE DEF PipeInv
<1>1. Given' = Given /\ Passed' = Passed
  BY DEF Given, Passed
<1>2. PipeTyped'
  BY DEF PipeTyped
<1>3. StreamOK'
  BY <1>1 DEF StreamOK
<1>4. GivenInOrder'
  BY <1>1 DEF GivenInOrder
<1>5. GivenOK'
  <2>1. Complete(Len(sent))' <=> Complete(Len(sent))
    BY <1>1 DEF Complete
  <2>2. Complete(Passed)' <=> Complete(Passed)
    BY <1>1 DEF Complete
  <2> QED BY <1>1, <2>1, <2>2 DEF GivenOK
<1>6. SinkOK'
  BY DEF SinkOK
<1>7. Missing' \subseteq Missing
  <2>1. \A i : Yielded(i)' <=> Yielded(i)
    BY DEF Yielded
  <2>2. Len(sent) \in Nat /\ Len(sent) <= MaxIncoming
    BY DEF PipeTyped
  <2>3. 1 .. Len(sent) \subseteq Incoming
    BY <2>2, IdsAssumption DEF Incoming
  <2>4. Acknowledged' \subseteq Acknowledged
    BY <2>3 DEF Acknowledged
  <2> QED BY <2>1, <2>4 DEF Missing
<1>8. AcksOK'
  <2>1. \A i : Buffered(i)' <=> Buffered(i)
    BY DEF Buffered
  <2> QED BY <1>7, <2>1 DEF AcksOK
<1> QED BY <1>2, <1>3, <1>4, <1>5, <1>6, <1>8

\* The websocket's own steps are such steps.
LEMMA WsStepsQuiet ==
    ASSUME PipeInv, UNCHANGED pipeVars,
           \/ \E r \in Requests : CallStep(r)
           \/ FacadeStep \/ WorkerStep \/ ReceiveUnhandled \/ NetStep \/ Stopped
    PROVE  PipeInv'
<1>1. ASSUME UNCHANGED streamVars, UNCHANGED <<worker, reason>> PROVE PipeInv'
  BY <1>1, QuietStep DEF pipeVars, streamVars, PipeInv, PipeTyped
<1>2. ASSUME UNCHANGED streamVars, UNCHANGED reason, NEW w, worker = "running", Transmit(w)
      PROVE  PipeInv'
  BY <1>2, QuietStep DEF pipeVars, streamVars, PipeInv, PipeTyped, Transmit
<1>3. ASSUME UNCHANGED streamVars, NEW r \in DisconnectReasons \cup {"none"}, Stop(r)
      PROVE  PipeInv'
  BY <1>3, QuietStep DEF pipeVars, streamVars, PipeInv, PipeTyped, Stop
<1>4. reason \in DisconnectReasons \cup {"none"}
  BY DEF PipeInv, PipeTyped
<1>5. CASE \E r \in Requests : CallStep(r)
  BY <1>1, <1>5 DEF CallStep, Request, RequestClosed, DropRequest
<1>6. CASE FacadeStep \/ NetStep \/ Stopped
  BY <1>1, <1>6 DEF FacadeStep, DropFacades, NetStep, Answer, NetBreaks, Stopped, wsVars
<1>7. CASE ReceiveUnhandled
  BY <1>3, <1>4, <1>7 DEF ReceiveUnhandled
<1>8. CASE \E w \in {"running", "blocked"} : SendStep(w)
  BY <1>2, <1>8 DEF SendStep, TakeRequest, KeepAliveTick
<1>9. CASE EndOfRequests \/ SendFails \/ CloseEnds
  BY <1>3, <1>4, <1>9 DEF EndOfRequests, SendFails, CloseEnds
<1>10. CASE KeepAliveExpired \/ SendResumes
  <2>1. /\ UNCHANGED streamVars /\ worker # "stopped" /\ worker' \in {"running", "closing"}
        /\ reason' \in DisconnectReasons \cup {"none"}
    BY <1>4, <1>10 DEF KeepAliveExpired, SendResumes, DisconnectReasons
  <2> QED BY <2>1, QuietStep DEF pipeVars, streamVars, PipeInv, PipeTyped
<1>11. CASE Receive
  <2>1. CASE \E a \in inbox : ReceiveResponse(a) \/ ReceiveKeepAlive(a)
    BY <1>1, <2>1 DEF ReceiveResponse, ReceiveKeepAlive
  <2>2. CASE \E a \in inbox : ReceiveKeepAliveError(a)
    BY <1>3, <1>4, <2>2 DEF ReceiveKeepAliveError
  <2>3. CASE ReceiveInvalid
    BY <1>3, <1>4, <2>3 DEF ReceiveInvalid
  <2>4. CASE \E code \in {1000, 4401, 4409} : ReceiveClose(code)
    BY <1>3, <2>4 DEF ReceiveClose, FromClose, DisconnectReasons
  <2>5. CASE ReceiveEnd
    BY <1>3, <2>5 DEF ReceiveEnd, DisconnectReasons
  <2> QED BY <1>11, <2>1, <2>2, <2>3, <2>4, <2>5 DEF Receive
<1> QED BY <1>5, <1>6, <1>7, <1>8, <1>9, <1>10, <1>11 DEF WorkerStep

\* A response leaves, or a responder was dropped.
LEMMA ResponseSteps ==
    ASSUME PipeInv, UNCHANGED pipeVars, NEW i \in Incoming,
           ResponseCanceled(i) \/ \E w \in {"running", "blocked"} : SendResponse(i, w)
    PROVE  PipeInv'
<1>1. /\ responder' \in [Incoming -> {"none", "open", "filled", "canceled", "acked", "lost"}]
      /\ \A j \in Incoming : responder'[j] \in {"filled", "acked", "lost"} =>
                                responder[j] \in {"filled", "acked", "lost"}
  BY DEF PipeInv, PipeTyped, ResponseCanceled, SendResponse
<1>2. /\ worker' \in {"running", "blocked"} /\ worker = "running"
      /\ UNCHANGED <<sent, stream, pipe, sink, yielded, reason>>
  BY DEF ResponseCanceled, SendResponse, Transmit, pipeVars
<1> QED BY <1>1, <1>2, QuietStep DEF PipeInv, PipeTyped

\* The worker puts a request of the server into the stream, with a responder.
LEMMA ReceiveRequestStep ==
    ASSUME PipeInv, UNCHANGED pipeVars, NEW kind \in Kinds, ReceiveRequest(kind)
    PROVE  PipeInv'
<1> USE DEF PipeInv
<1> DEFINE n == Len(sent)
<1>1. /\ n \in Nat /\ n < MaxIncoming /\ n + 1 \in Incoming /\ Len(stream) \in Nat
      /\ sent \in Seq(Kinds) /\ stream \in Seq(Incoming)
  BY IdsAssumption DEF ReceiveRequest, PipeTyped, Incoming
<1>2. /\ worker = "running" /\ sent' = Append(sent, kind) /\ stream' = Append(stream, n + 1)
      /\ responder' = [responder EXCEPT ![n + 1] = "open"]
      /\ UNCHANGED <<worker, reason, pipe, sink, yielded>>
  BY DEF ReceiveRequest, Receiving, pipeVars
<1>3. /\ Len(sent') = n + 1 /\ Len(stream') = Len(stream) + 1
      /\ \A i \in 1 .. n : sent'[i] = sent[i]
  BY <1>1, <1>2
<1>4. Given' = Given /\ Passed' = Passed /\ Passed \in 0 .. n
  BY <1>1, <1>2, <1>3 DEF Given, Passed, StreamOK
<1>5. PipeTyped'
  <2>1. sent' \in Seq(Kinds) /\ stream' \in Seq(Incoming)
    BY <1>1, <1>2
  <2>2. responder' \in [Incoming -> {"none", "open", "filled", "canceled", "acked", "lost"}]
    BY <1>1, <1>2 DEF PipeTyped
  <2>3. Len(sent') <= MaxIncoming
    BY <1>1, <1>3, IdsAssumption
  <2> QED BY <1>2, <2>1, <2>2, <2>3 DEF PipeTyped
<1>6. StreamOK'
  <2>1. \A k \in 1 .. Len(stream) : stream'[k] = stream[k]
    BY <1>1, <1>2
  <2>2. stream'[Len(stream) + 1] = Passed + (Len(stream) + 1)
    BY <1>1, <1>2 DEF Passed
  <2>3. DOMAIN stream' = 1 .. Len(stream) + 1 /\ DOMAIN stream = 1 .. Len(stream)
    BY <1>1, <1>2
  <2>4. \A k \in DOMAIN stream' : stream'[k] = Passed + k
    BY <1>1, <2>1, <2>2, <2>3 DEF StreamOK
  <2> QED BY <1>1, <1>3, <1>4, <2>4 DEF StreamOK
<1>7. GivenInOrder'
  BY <1>4 DEF GivenInOrder
<1>8. GivenOK'
  <2>1. Complete(Passed) => Complete(Passed)'
    BY <1>1, <1>3, <1>4 DEF Complete
  <2> QED BY <1>2, <1>4, <2>1 DEF GivenOK
<1>9. SinkOK'
  BY <1>2 DEF SinkOK
<1>10. Missing' \subseteq Missing
  <2>1. \A i : Yielded(i)' <=> Yielded(i)
    BY <1>2 DEF Yielded
  <2>2. ASSUME NEW i \in Acknowledged' PROVE i \in Acknowledged
    <3>1. i \in 1 .. n + 1 /\ i \in Incoming
      <4>1. i \in 1 .. Len(sent')
        BY DEF Acknowledged
      <4> QED BY <1>1, <1>3, <4>1, IdsAssumption DEF Incoming
    <3>2. i # n + 1
      <4>1. responder'[n + 1] = "open"
        BY <1>1, <1>2 DEF PipeTyped
      <4>2. responder'[i] \in {"filled", "acked", "lost"}
        BY DEF Acknowledged
      <4> QED BY <4>1, <4>2
    <3>3. responder'[i] = responder[i]
      BY <1>1, <1>2, <3>1, <3>2 DEF PipeTyped
    <3> QED BY <1>1, <1>3, <3>1, <3>2, <3>3 DEF Acknowledged
  <2> QED BY <2>1, <2>2 DEF Missing
<1>11. AcksOK'
  <2>1. \A i : Buffered(i)' <=> Buffered(i)
    BY <1>2 DEF Buffered
  <2> QED BY <1>2, <1>10, <2>1 DEF AcksOK
<1> QED BY <1>5, <1>6, <1>7, <1>8, <1>9, <1>11

-----------------------------------------------------------------------------
(* The runner's steps *)

\* The request the runner takes is the next one.
LEMMA TakeStep ==
    ASSUME PipeInv, NEW i, Take(i)
    PROVE  /\ i \in 1 .. Len(sent) /\ i \in Incoming
           /\ Len(sent) \in Nat /\ Passed \in Nat /\ i = Passed + 1 /\ Passed' = Passed + 1
           /\ stream' \in Seq(Incoming) /\ StreamOK'
           /\ pipe = "next" /\ Len(sink) <= 1
           /\ UNCHANGED <<worker, sent, reason, yielded>>
<1> USE DEF PipeInv
<1>1. /\ Len(sent) \in Nat /\ Len(sent) <= MaxIncoming /\ MaxIncoming \in Nat
      /\ stream \in Seq(Incoming) /\ stream # <<>> /\ Len(stream) \in Nat
  BY IdsAssumption DEF PipeTyped, Take
<1>2. Len(stream) <= Len(sent) /\ \A k \in DOMAIN stream : stream[k] = Passed + k
  BY DEF StreamOK
<1>3. DOMAIN stream = 1 .. Len(stream) /\ 1 \in DOMAIN stream /\ Len(stream) > 0
  BY <1>1
<1>4. Passed \in Nat /\ Passed < Len(sent)
  BY <1>1, <1>2, <1>3 DEF Passed
<1>5. i = Passed + 1
  BY <1>1, <1>2, <1>3 DEF Take
<1>6. UNCHANGED sent /\ stream' = Tail(stream)
  BY DEF Take
<1>7. /\ stream' \in Seq(Incoming) /\ Len(stream') = Len(stream) - 1
      /\ DOMAIN stream' = 1 .. Len(stream) - 1
      /\ \A k \in 1 .. Len(stream) - 1 : stream'[k] = stream[k + 1]
  BY <1>1, <1>6
<1>8. Passed' = Passed + 1
  BY <1>1, <1>4, <1>6, <1>7 DEF Passed
<1>9. StreamOK'
  <2>1. ASSUME NEW k \in 1 .. Len(stream) - 1 PROVE stream'[k] = (Passed + 1) + k
    <3>1. k + 1 \in DOMAIN stream
      BY <1>1, <1>3
    <3>2. stream'[k] = Passed + (k + 1)
      BY <1>2, <1>7, <3>1
    <3> QED BY <1>1, <1>4, <3>2
  <2> QED BY <1>1, <1>2, <1>6, <1>7, <1>8, <2>1 DEF StreamOK
<1>10. i \in 1 .. Len(sent) /\ i \in Incoming
  BY <1>1, <1>4, <1>5 DEF Incoming
<1> QED BY <1>1, <1>4, <1>5, <1>7, <1>8, <1>9, <1>10 DEF Take, SinkOK

\* A request becomes an item: the next in order.  If it is an envelope that was
\* responded to, it is in the channel.
LEMMA PassOnStep ==
    ASSUME PipeInv, NEW i, Take(i), NEW item \in Items, item.of = i, SinkSend(item),
           NEW v \in {"none", "canceled", "filled"},
           responder' = [responder EXCEPT ![i] = v],
           v = "filled" => item = ItemOf(i) /\ sent[i] # "bad"
    PROVE  PipeInv'
<1> USE DEF PipeInv
<1>1. /\ i \in 1 .. Len(sent) /\ i \in Incoming
      /\ Len(sent) \in Nat /\ Passed \in Nat /\ i = Passed + 1 /\ Passed' = Passed + 1
      /\ stream' \in Seq(Incoming) /\ StreamOK'
      /\ pipe = "next" /\ Len(sink) <= 1
      /\ UNCHANGED <<worker, sent, reason, yielded>>
  BY TakeStep
<1>2. /\ sink' = Append(sink, item) /\ sink \in Seq(Items \cup Disconnected)
      /\ pipe' \in {"next", "parked"} /\ (pipe' = "next" => Len(sink) + 1 <= 1)
  BY DEF SinkSend, PipeTyped, Capacity
<1>3. /\ sink' \in Seq(Items \cup Disconnected) /\ Len(sink') = Len(sink) + 1 /\ Len(sink) \in Nat
      /\ sink'[Len(sink) + 1] = item
      /\ DOMAIN sink' = 1 .. Len(sink) + 1 /\ DOMAIN sink = 1 .. Len(sink)
      /\ \A k \in DOMAIN sink : k \in DOMAIN sink' /\ sink'[k] = sink[k]
  BY <1>2
<1>4. PICK n \in Nat : /\ DOMAIN Given = 1 .. n
                       /\ DOMAIN Given' = 1 .. n + 1
                       /\ Given'[n + 1] = item
                       /\ \A k \in 1 .. n : Given'[k] = Given[k]
  BY <1>1, <1>2, GivenGrows
<1>5. \A k \in 1 .. n : /\ Given[k].tag # "disconnected" /\ Given[k] \in Items
                        /\ Given[k].of \in Nat /\ Given[k].of <= Passed
  <2>1. \A k \in 1 .. n : /\ Given[k].tag # "disconnected" /\ Given[k] \in Items
                          /\ Given[k].of <= Passed
    BY <1>1, <1>4 DEF GivenOK
  <2> QED BY <2>1, IdsAssumption DEF Items, Incoming
<1>6. item.tag # "disconnected" /\ item.of = Passed + 1
  BY <1>1 DEF Items
<1>7. PipeTyped'
  <2>1. responder' \in [Incoming -> {"none", "open", "filled", "canceled", "acked", "lost"}]
    BY <1>1 DEF PipeTyped
  <2> QED BY <1>1, <1>2, <1>3, <2>1 DEF PipeTyped
<1>8. GivenInOrder'
  <2> SUFFICES ASSUME NEW j \in 1 .. n + 1, NEW k \in 1 .. n + 1, j < k
               PROVE  Given'[j].tag # "disconnected" /\ Given'[j].of < Given'[k].of
    BY <1>4 DEF GivenInOrder
  <2>1. j \in 1 .. n
    OBVIOUS
  <2>2. CASE k = n + 1
    BY <1>1, <1>4, <1>5, <1>6, <2>1, <2>2
  <2>3. CASE k # n + 1
    BY <1>4, <1>5, <2>1, <2>3 DEF GivenInOrder
  <2> QED BY <2>2, <2>3
<1>9. GivenOK'
  <2>1. \A k \in 1 .. n + 1 : /\ Given'[k].tag # "disconnected" /\ Given'[k] \in Items
                              /\ Given'[k].of <= Passed'
    <3> TAKE k \in 1 .. n + 1
    <3>1. CASE k = n + 1
      BY <1>1, <1>4, <1>6, <3>1
    <3>2. CASE k # n + 1
      <4>1. k \in 1 .. n
        BY <3>2
      <4> QED BY <1>1, <1>4, <1>5, <4>1
    <3> QED BY <3>1, <3>2
  <2>2. Complete(Passed)'
    <3> SUFFICES ASSUME NEW m \in 1 .. Passed + 1, sent[m] # "other"
                 PROVE  \E j \in 1 .. n + 1 : Given'[j].tag # "disconnected" /\ Given'[j].of = m
      BY <1>1, <1>4 DEF Complete
    <3>1. CASE m = Passed + 1
      BY <1>4, <1>6, <3>1
    <3>2. CASE m # Passed + 1
      <4>1. m \in 1 .. Passed
        BY <1>1, <3>2
      <4>2. PICK j \in 1 .. n : Given[j].tag # "disconnected" /\ Given[j].of = m
        BY <1>1, <1>4, <4>1 DEF GivenOK, Complete
      <4> QED BY <1>4, <4>2
    <3> QED BY <3>1, <3>2
  <2> QED BY <1>4, <2>1, <2>2 DEF GivenOK
<1>10. SinkOK'
  BY <1>1, <1>2, <1>3 DEF SinkOK
<1>11. \A m \in Missing' : Buffered(m)'
  <2> SUFFICES ASSUME NEW m \in Missing' PROVE Buffered(m)'
    OBVIOUS
  <2>1. /\ m \in 1 .. Len(sent) /\ sent[m] \in {"envelope", "bad"} /\ ~Yielded(m)
        /\ responder'[m] \in {"filled", "acked", "lost"}
    BY <1>1 DEF Missing, Acknowledged, Yielded
  <2>2. CASE m = i
    <3>1. v = "filled"
      BY <1>1, <2>1, <2>2 DEF PipeTyped
    <3>2. item = [tag |-> "envelope", of |-> i]
      BY <2>1, <2>2, <3>1 DEF ItemOf
    <3> QED BY <1>3, <2>2, <3>2 DEF Buffered
  <2>3. CASE m # i
    <3>1. m \in Incoming
      BY <2>1, IdsAssumption DEF PipeTyped, Incoming
    <3>2. responder'[m] = responder[m]
      BY <2>3, <3>1 DEF PipeTyped
    <3>3. m \in Missing
      BY <2>1, <3>2 DEF Missing, Acknowledged
    <3>4. Buffered(m)
      BY <1>1, <3>3 DEF AcksOK
    <3> QED BY <1>3, <3>4 DEF Buffered
  <2> QED BY <2>2, <2>3
<1>12. AcksOK'
  <2>1. \E x, y \in 0 .. MaxIncoming : Missing' \subseteq {x, y}
    <3>1. Len(sink') <= 2
      BY <1>1, <1>3
    <3>2. \A m \in Missing' : \E k \in DOMAIN sink' : sink'[k] = [tag |-> "envelope", of |-> m]
      BY <1>11 DEF Buffered
    <3> QED BY <1>3, <3>1, <3>2, TwoAtMost
  <2> QED BY <1>11, <2>1 DEF AcksOK
<1> QED BY <1>1, <1>7, <1>8, <1>9, <1>10, <1>12

\* A request that asks for no item is acknowledged.
LEMMA OtherStep ==
    ASSUME PipeInv, NEW i, Take(i), sent[i] = "other", UNCHANGED <<pipe, sink>>,
           responder' = [responder EXCEPT ![i] = "filled"]
    PROVE  PipeInv'
<1> USE DEF PipeInv
<1>1. /\ i \in 1 .. Len(sent) /\ i \in Incoming
      /\ Len(sent) \in Nat /\ Passed \in Nat /\ i = Passed + 1 /\ Passed' = Passed + 1
      /\ stream' \in Seq(Incoming) /\ StreamOK'
      /\ UNCHANGED <<worker, sent, reason, yielded>>
  BY TakeStep
<1>2. Given' = Given
  BY <1>1 DEF Given
<1>3. PipeTyped'
  <2>1. responder' \in [Incoming -> {"none", "open", "filled", "canceled", "acked", "lost"}]
    BY <1>1 DEF PipeTyped
  <2> QED BY <1>1, <2>1 DEF PipeTyped
<1>4. GivenInOrder' /\ SinkOK'
  BY <1>2 DEF GivenInOrder, SinkOK
<1>5. GivenOK'
  <2>1. Complete(Passed) => Complete(Passed)'
    BY <1>1, <1>2 DEF Complete
  <2>2. Complete(Len(sent)) <=> Complete(Len(sent))'
    BY <1>1, <1>2 DEF Complete
  <2>3. \A k \in DOMAIN Given : Given[k] \in Items => Given[k].of \in Nat
    BY IdsAssumption DEF Items, Incoming
  <2> QED BY <1>1, <1>2, <2>1, <2>2, <2>3 DEF GivenOK
<1>6. Missing' \subseteq Missing
  <2> SUFFICES ASSUME NEW m \in Missing' PROVE m \in Missing
    OBVIOUS
  <2>1. /\ m \in 1 .. Len(sent) /\ sent[m] \in {"envelope", "bad"} /\ ~Yielded(m)
        /\ responder'[m] \in {"filled", "acked", "lost"}
    BY <1>1 DEF Missing, Acknowledged, Yielded
  <2>2. m \in Incoming /\ m # i
    BY <2>1, IdsAssumption DEF PipeTyped, Incoming
  <2>3. responder'[m] = responder[m]
    BY <2>2 DEF PipeTyped
  <2> QED BY <2>1, <2>3 DEF Missing, Acknowledged
<1>7. AcksOK'
  BY <1>6 DEF AcksOK, Buffered
<1> QED BY <1>1, <1>3, <1>4, <1>5, <1>7

\* The end is passed on when every request has been.
LEMMA EndOfStreamStep ==
    ASSUME PipeInv, EndOfStream
    PROVE  PipeInv'
<1> USE DEF PipeInv
<1>1. PICK item : item = [tag |-> "disconnected",
                          of |-> IF reason = "none" THEN "Transport" ELSE reason]
  OBVIOUS
<1>2. /\ pipe = "next" /\ stream = <<>> /\ worker = "stopped" /\ pipe' = "ended"
      /\ sink' = Append(sink, item)
      /\ UNCHANGED <<worker, sent, stream, responder, reason, yielded>>
  BY <1>1 DEF EndOfStream
<1>3. item \in Disconnected
  BY <1>1 DEF Disconnected, PipeTyped, DisconnectReasons
<1>4. /\ sink' \in Seq(Items \cup Disconnected) /\ Len(sink') = Len(sink) + 1 /\ Len(sink) \in Nat
      /\ \A k \in DOMAIN sink : k \in DOMAIN sink' /\ sink'[k] = sink[k]
  BY <1>2, <1>3 DEF PipeTyped
<1>5. PICK n \in Nat : /\ DOMAIN Given = 1 .. n
                       /\ DOMAIN Given' = 1 .. n + 1
                       /\ Given'[n + 1] = item
                       /\ \A k \in 1 .. n : Given'[k] = Given[k]
  BY <1>2, GivenGrows
<1>6. Len(sent) \in Nat /\ Passed = Len(sent) /\ Passed' = Passed
  BY <1>2 DEF Passed, PipeTyped
<1>7. PipeTyped' /\ StreamOK'
  BY <1>2, <1>4, <1>6 DEF PipeTyped, StreamOK
<1>8. \A k \in 1 .. n : Given[k].tag # "disconnected" /\ Given[k] \in Items /\ Given[k].of <= Passed
  BY <1>2, <1>5 DEF GivenOK
<1>9. GivenInOrder'
  <2> SUFFICES ASSUME NEW j \in 1 .. n + 1, NEW k \in 1 .. n + 1, j < k
               PROVE  /\ Given'[j].tag # "disconnected"
                      /\ Given'[k].tag # "disconnected" => Given'[j].of < Given'[k].of
    BY <1>5 DEF GivenInOrder
  <2>1. j \in 1 .. n
    OBVIOUS
  <2>2. CASE k = n + 1
    BY <1>1, <1>5, <1>8, <2>1, <2>2
  <2>3. CASE k # n + 1
    BY <1>5, <1>8, <2>1, <2>3 DEF GivenInOrder
  <2> QED BY <2>2, <2>3
<1>10. GivenOK'
  <2>1. Complete(Len(sent))'
    <3> SUFFICES ASSUME NEW m \in 1 .. Len(sent), sent[m] # "other"
                 PROVE  \E j \in 1 .. n + 1 : Given'[j].tag # "disconnected" /\ Given'[j].of = m
      BY <1>2, <1>5 DEF Complete
    <3>1. PICK j \in 1 .. n : Given[j].tag # "disconnected" /\ Given[j].of = m
      BY <1>2, <1>5, <1>6 DEF GivenOK, Complete
    <3> QED BY <1>5, <3>1
  <2>2. Complete(Passed)'
    BY <1>2, <1>6, <2>1 DEF Complete
  <2>3. \A k \in 1 .. n + 1 : Given'[k].tag # "disconnected" =>
           Given'[k] \in Items /\ Given'[k].of <= Passed
    BY <1>1, <1>5, <1>8
  <2> QED BY <1>2, <1>5, <1>6, <2>1, <2>2, <2>3 DEF GivenOK
<1>11. SinkOK'
  BY <1>2, <1>4 DEF SinkOK
<1>12. Missing' = Missing /\ \A m : Buffered(m) => Buffered(m)'
  BY <1>2, <1>4 DEF Missing, Acknowledged, Yielded, Buffered
<1>13. AcksOK'
  BY <1>2, <1>12 DEF AcksOK
<1> QED BY <1>7, <1>9, <1>10, <1>11, <1>13

-----------------------------------------------------------------------------
(* The consumer's steps *)

\* The first item of the channel goes to the consumer.
LEMMA YieldStep ==
    ASSUME PipeInv, Yield
    PROVE  PipeInv'
<1> USE DEF PipeInv
<1>1. /\ sink # <<>> /\ yielded' = Append(yielded, Head(sink)) /\ sink' = Tail(sink)
      /\ pipe' = (IF pipe = "parked" THEN "next" ELSE pipe)
      /\ UNCHANGED <<worker, sent, stream, responder, reason>>
  BY DEF Yield, wsVars, streamVars
<1>2. /\ sink \in Seq(Items \cup Disconnected) /\ yielded \in Seq(Items \cup Disconnected)
      /\ pipe \in {"new", "next", "parked", "ended", "dropped"}
  BY DEF PipeTyped
<1>3. /\ sink' \in Seq(Items \cup Disconnected) /\ Len(sink') = Len(sink) - 1
      /\ DOMAIN sink = 1 .. Len(sink) /\ DOMAIN sink' = 1 .. Len(sink) - 1
      /\ Len(sink) \in Nat \ {0}
      /\ \A k \in 1 .. Len(sink) - 1 : sink'[k] = sink[k + 1]
  BY <1>1, <1>2
<1>4. Head(sink) \in Items \cup Disconnected
  BY <1>1, <1>2
<1>5. /\ yielded' \in Seq(Items \cup Disconnected) /\ Len(yielded') = Len(yielded) + 1
      /\ Len(yielded) \in Nat /\ yielded'[Len(yielded) + 1] = sink[1]
      /\ DOMAIN yielded' = 1 .. Len(yielded) + 1 /\ DOMAIN yielded = 1 .. Len(yielded)
      /\ \A k \in 1 .. Len(yielded) : yielded'[k] = yielded[k]
  BY <1>1, <1>2, <1>4
<1>6. Given' = Given /\ Passed' = Passed
  BY <1>1, GivenYield DEF Passed
<1>7. PipeTyped'
  BY <1>1, <1>2, <1>3, <1>5 DEF PipeTyped
<1>8. StreamOK' /\ GivenInOrder'
  BY <1>1, <1>6 DEF StreamOK, GivenInOrder
<1>9. GivenOK'
  <2>1. Complete(Len(sent))' <=> Complete(Len(sent))
    BY <1>1, <1>6 DEF Complete
  <2>2. Complete(Passed)' <=> Complete(Passed)
    BY <1>1, <1>6 DEF Complete
  <2> QED BY <1>1, <1>6, <2>1, <2>2 DEF GivenOK
<1>10. SinkOK'
  BY <1>1, <1>2, <1>3 DEF SinkOK
<1>11. ASSUME NEW m \in Missing' PROVE m \in Missing /\ (Buffered(m) => Buffered(m)')
  <2>1. m \in Acknowledged /\ ~Yielded(m)'
    BY <1>1 DEF Missing, Acknowledged
  <2>2. ~Yielded(m)
    BY <1>5, <2>1 DEF Yielded
  <2>3. ASSUME Buffered(m) PROVE Buffered(m)'
    <3>1. PICK k \in DOMAIN sink : sink[k] = [tag |-> "envelope", of |-> m]
      BY <2>3 DEF Buffered
    <3>2. k # 1
      <4>1. Len(yielded) + 1 \in DOMAIN yielded'
        BY <1>5
      <4> QED BY <1>5, <2>1, <3>1, <4>1 DEF Yielded
    <3>3. k - 1 \in 1 .. Len(sink) - 1 /\ (k - 1) + 1 = k
      BY <1>3, <3>2
    <3> QED BY <1>3, <3>1, <3>3 DEF Buffered
  <2> QED BY <2>1, <2>2, <2>3 DEF Missing
<1>12. AcksOK'
  <2>1. pipe' # "dropped" => pipe # "dropped"
    BY <1>1
  <2> QED BY <1>11, <2>1 DEF AcksOK
<1> QED BY <1>7, <1>8, <1>9, <1>10, <1>12

\* The stream is dropped: what the channel held is lost, and only that.
LEMMA DropStreamStep ==
    ASSUME PipeInv, DropStream
    PROVE  PipeInv'
<1> USE DEF PipeInv
<1>1. pipe' = "dropped" /\ sink' = <<>> /\ UNCHANGED <<worker, sent, reason, yielded>>
  BY DEF DropStream
<1>2. /\ stream' = stream \/ stream' = <<>>
      /\ responder' \in [Incoming -> {"none", "open", "filled", "canceled", "acked", "lost"}]
      /\ \A i \in Incoming : responder'[i] \in {"filled", "acked", "lost"} =>
                                responder[i] \in {"filled", "acked", "lost"}
  BY DEF DropStream, PipeTyped
<1>3. PipeTyped'
  <2>1. stream' \in Seq(Incoming)
    <3>1. <<>> \in Seq(Incoming)
      OBVIOUS
    <3>2. stream \in Seq(Incoming)
      BY DEF PipeTyped
    <3> QED BY <1>2, <3>1, <3>2
  <2>2. sink' \in Seq(Items \cup Disconnected)
    BY <1>1
  <2> QED BY <1>1, <1>2, <2>1, <2>2 DEF PipeTyped
<1>4. /\ Len(sent) \in Nat /\ Len(stream) \in Nat /\ Len(stream) <= Len(sent)
      /\ Passed \in Int /\ Passed' \in Int /\ Passed <= Passed'
  BY <1>1, <1>2 DEF PipeTyped, StreamOK, Passed
<1>5. StreamOK'
  <2>1. CASE stream' = stream
    BY <1>1, <2>1 DEF StreamOK, Passed
  <2>2. CASE stream' = <<>>
    BY <1>1, <1>4, <2>2 DEF StreamOK
  <2> QED BY <1>2, <2>1, <2>2
<1>6. /\ DOMAIN Given = 1 .. Len(yielded) + Len(sink) /\ Len(yielded) \in Nat /\ Len(sink) \in Nat
      /\ \A k \in DOMAIN yielded : k \in DOMAIN Given /\ Given[k] = yielded[k]
      /\ DOMAIN yielded = 1 .. Len(yielded)
  BY GivenType DEF PipeTyped
<1>7. DOMAIN Given' = 1 .. Len(yielded) /\ \A k \in 1 .. Len(yielded) : Given'[k] = yielded[k]
  BY <1>1, <1>6 DEF Given
<1>8. \A k \in 1 .. Len(yielded) : k \in DOMAIN Given /\ Given'[k] = Given[k]
  BY <1>6, <1>7
<1>9. GivenInOrder'
  BY <1>7, <1>8 DEF GivenInOrder
<1>10. GivenOK'
  <2>1. ASSUME NEW k \in 1 .. Len(yielded), Given'[k].tag # "disconnected"
        PROVE  Given'[k] \in Items /\ Given'[k].of <= Passed'
    <3>1. Given[k] \in Items /\ Given[k].of <= Passed
      BY <1>8, <2>1 DEF GivenOK
    <3>2. Given[k].of \in Nat
      BY <3>1, IdsAssumption DEF Items, Incoming
    <3> QED BY <1>4, <1>8, <2>1, <3>1, <3>2
  <2>2. ASSUME NEW k \in 1 .. Len(yielded), Given'[k].tag = "disconnected"
        PROVE  worker = "stopped" /\ Complete(Len(sent))'
    <3>1. worker = "stopped" /\ Complete(Len(sent))
      BY <1>8, <2>2 DEF GivenOK
    <3>2. k = Len(yielded) + Len(sink)
      <4>1. Len(yielded) + Len(sink) \in DOMAIN Given /\ k <= Len(yielded) + Len(sink)
        BY <1>6, <2>2
      <4> QED BY <1>6, <1>8, <2>2, <4>1 DEF GivenInOrder
    <3>3. DOMAIN Given = 1 .. Len(yielded)
      <4>1. Len(sink) = 0
        BY <1>6, <2>2, <3>2
      <4> QED BY <1>6, <4>1
    <3>4. Complete(Len(sent))'
      <4> SUFFICES ASSUME NEW m \in 1 .. Len(sent), sent[m] # "other"
                   PROVE  \E j \in DOMAIN Given' : /\ Given'[j].tag # "disconnected"
                                                   /\ Given'[j].of = m
        BY <1>1 DEF Complete
      <4>1. PICK j \in DOMAIN Given : Given[j].tag # "disconnected" /\ Given[j].of = m
        BY <3>1 DEF Complete
      <4> QED BY <1>7, <1>8, <3>3, <4>1
    <3> QED BY <3>1, <3>4
  <2> QED BY <1>1, <1>7, <2>1, <2>2 DEF GivenOK
<1>11. SinkOK'
  BY <1>1 DEF SinkOK
<1>12. Missing' \subseteq Missing
  <2>1. 1 .. Len(sent) \subseteq Incoming
    BY <1>4, IdsAssumption DEF PipeTyped, Incoming
  <2>2. \A m : Yielded(m)' <=> Yielded(m)
    BY <1>1 DEF Yielded
  <2>3. Acknowledged' \subseteq Acknowledged
    BY <1>1, <1>2, <2>1 DEF Acknowledged
  <2> QED BY <2>2, <2>3 DEF Missing
<1>13. AcksOK'
  BY <1>1, <1>12 DEF AcksOK
<1> QED BY <1>3, <1>5, <1>9, <1>10, <1>11, <1>13

-----------------------------------------------------------------------------
(* The invariant is inductive *)

\* Nothing was passed on yet.
LEMMA PipeInitInv == PipeInit => PipeInv
<1> SUFFICES ASSUME PipeInit PROVE PipeInv
  OBVIOUS
<1>1. /\ worker = "running" /\ sent = <<>> /\ stream = <<>> /\ sink = <<>> /\ yielded = <<>>
      /\ pipe = "new" /\ reason = "none" /\ responder = [i \in Incoming |-> "none"]
  BY DEF PipeInit, Init
<1>2. PipeTyped
  BY <1>1, IdsAssumption DEF PipeTyped
<1>3. DOMAIN Given = {} /\ Passed = 0
  BY <1>1 DEF Given, Passed
<1>4. StreamOK /\ GivenInOrder /\ SinkOK
  BY <1>1, <1>3 DEF StreamOK, GivenInOrder, SinkOK
<1>5. GivenOK
  BY <1>1, <1>3 DEF GivenOK, Complete
<1>6. Missing = {}
  BY <1>1 DEF Missing, Acknowledged
<1>7. AcksOK
  <2>1. 0 \in 0 .. MaxIncoming
    BY IdsAssumption
  <2> QED BY <1>6, <2>1 DEF AcksOK
<1> QED BY <1>2, <1>4, <1>5, <1>7 DEF PipeInv

\* One step per action of MessagePipe.
LEMMA PipeNextInv == PipeInv /\ [PipeNext]_pvars => PipeInv'
<1> SUFFICES ASSUME PipeInv, [PipeNext]_pvars PROVE PipeInv'
  OBVIOUS
<1>1. ASSUME NEW i \in Incoming, ProcessRequest(i) \/ RespondFails(i) \/ ProcessBad(i)
      PROVE  PipeInv'
  <2>1. [tag |-> "error", of |-> i] \in Items
    BY DEF Items
  <2>2. CASE ProcessRequest(i) /\ sent[i] = "other"
    BY <2>2, OtherStep DEF ProcessRequest
  <2>3. CASE ProcessRequest(i) /\ sent[i] # "other"
    <3>1. Take(i) /\ sent[i] # "bad" /\ SinkSend(ItemOf(i))
          /\ responder' = [responder EXCEPT ![i] = "filled"]
      BY <2>3 DEF ProcessRequest
    <3>2. sent[i] \in Kinds
      <4>1. i \in 1 .. Len(sent) /\ sent \in Seq(Kinds)
        BY <3>1, TakeStep DEF PipeInv, PipeTyped
      <4> QED BY <4>1
    <3>3. ItemOf(i) \in Items /\ ItemOf(i).of = i
      BY <2>3, <3>1, <3>2 DEF ItemOf, Items, Kinds
    <3> QED BY <3>1, <3>3, PassOnStep
  <2>4. CASE RespondFails(i)
    BY <2>1, <2>4, PassOnStep DEF RespondFails
  <2>5. CASE ProcessBad(i)
    BY <2>1, <2>5, PassOnStep DEF ProcessBad
  <2> QED BY <1>1, <2>2, <2>3, <2>4, <2>5
<1>2. CASE StartPipe
  <2>1. /\ pipe = "new" /\ pipe' = "next"
        /\ UNCHANGED <<worker, sent, stream, responder, reason, sink, yielded>>
    BY <1>2 DEF StartPipe
  <2> QED BY <2>1, QuietStep DEF PipeInv, PipeTyped
<1>3. CASE StreamStep /\ UNCHANGED pipeVars
  BY <1>3, ReceiveRequestStep, ResponseSteps, WsStepsQuiet DEF StreamStep
<1>4. CASE UNCHANGED pvars
  <2>1. UNCHANGED <<worker, sent, stream, responder, reason, pipe, sink, yielded>>
    BY <1>4 DEF pvars, wsVars, pipeVars, streamVars
  <2> QED BY <2>1, QuietStep DEF PipeInv, PipeTyped
<1> QED
  BY <1>1, <1>2, <1>3, <1>4, WsStepsQuiet, EndOfStreamStep, YieldStep, DropStreamStep
     DEF PipeNext, RunnerStep

\* In every reachable state of the pipe.
LEMMA PipeInvHolds == PipeSpec => []PipeInv
BY PipeInitInv, PipeNextInv, PTL DEF PipeSpec

-----------------------------------------------------------------------------
(* The theorems *)

\* The consumer of MessagePipe::stream is given items in the order of the
\* server's requests, none twice, and nothing after Incoming::Disconnected.
THEOREM InOrder == PipeSpec => []YieldedInOrder
<1>1. PipeInv => YieldedInOrder
  <2> SUFFICES ASSUME PipeInv, NEW j \in DOMAIN yielded, NEW k \in DOMAIN yielded, j < k
               PROVE  /\ yielded[j].tag # "disconnected"
                      /\ yielded[k].tag # "disconnected" => yielded[j].of < yielded[k].of
    BY DEF YieldedInOrder
  <2>1. \A m \in DOMAIN yielded : m \in DOMAIN Given /\ Given[m] = yielded[m]
    BY GivenType DEF PipeInv
  <2> QED BY <2>1 DEF PipeInv, GivenInOrder
<1> QED BY <1>1, PipeInvHolds, PTL

\* When the consumer is told Disconnected, it has been given the item of every
\* request the worker has received: the runner drains the request stream first.
THEOREM NothingLeftBehind == PipeSpec => []DisconnectedIsComplete
<1>1. PipeInv => DisconnectedIsComplete
  <2> SUFFICES ASSUME PipeInv, NEW k \in DOMAIN yielded, yielded[k].tag = "disconnected",
                      NEW i \in 1 .. Len(sent), sent[i] # "other"
               PROVE  \E j \in 1 .. k - 1 : yielded[j].of = i
    BY DEF DisconnectedIsComplete
  <2>1. /\ \A m \in DOMAIN yielded : m \in DOMAIN Given /\ Given[m] = yielded[m]
        /\ DOMAIN Given = 1 .. Len(yielded) + Len(sink)
        /\ Len(yielded) \in Nat /\ Len(sink) \in Nat
        /\ DOMAIN yielded = 1 .. Len(yielded)
    BY GivenType DEF PipeInv, PipeTyped
  <2>2. PICK j \in DOMAIN Given : Given[j].tag # "disconnected" /\ Given[j].of = i
    BY <2>1 DEF PipeInv, GivenOK, Complete
  <2>3. j < k
    BY <2>1, <2>2 DEF PipeInv, GivenInOrder
  <2>4. j \in 1 .. k - 1 /\ j \in DOMAIN yielded
    BY <2>1, <2>2, <2>3
  <2> QED BY <2>1, <2>2, <2>4
<1> QED BY <1>1, PipeInvHolds, PTL

\* An envelope process_request has acknowledged is with the consumer or in the
\* channel to it; a consumer that drops the stream loses no more than two.
THEOREM AcknowledgedNotLost == PipeSpec => []NoSilentLoss
<1>1. PipeInv => NoSilentLoss
  <2> SUFFICES ASSUME PipeInv
               PROVE  /\ Cardinality(Missing) <= Capacity + 1
                      /\ pipe # "dropped" => \A i \in Missing : Buffered(i)
    BY DEF NoSilentLoss, Missing
  <2>1. PICK x, y \in 0 .. MaxIncoming : Missing \subseteq {x, y}
    BY DEF PipeInv, AcksOK
  <2>2. IsFiniteSet({x, y}) /\ Cardinality({x, y}) <= 2 /\ Cardinality({x, y}) \in Nat
    <3>1. IsFiniteSet({y}) /\ Cardinality({y}) = 1
      BY FS_Singleton
    <3>2. /\ IsFiniteSet({y} \cup {x})
          /\ Cardinality({y} \cup {x}) = IF x \in {y} THEN Cardinality({y}) ELSE Cardinality({y}) + 1
      BY <3>1, FS_AddElement
    <3>3. {y} \cup {x} = {x, y}
      OBVIOUS
    <3> QED BY <3>1, <3>2, <3>3
  <2>3. Cardinality(Missing) <= Cardinality({x, y}) /\ IsFiniteSet(Missing)
    BY <2>1, <2>2, FS_Subset
  <2>4. Cardinality(Missing) \in Nat
    BY <2>3, FS_CardinalityType
  <2> QED BY <2>2, <2>3, <2>4 DEF PipeInv, AcksOK, Capacity
<1> QED BY <1>1, PipeInvHolds, PTL

\* The pipe disturbs nothing the websocket guarantees its callers.
THEOREM PipeKeepsSocket == PipeSpec => [](ResponsesMatch /\ WaitingIsTracked /\ TimeoutIsReal)
<1>1. PipeInit => WsInv
  BY InitInv DEF PipeInit
<1>2. WsInv /\ [PipeNext]_pvars => WsInv'
  <2> SUFFICES ASSUME WsInv, [PipeNext]_pvars PROVE WsInv'
    OBVIOUS
  <2>1. ASSUME UNCHANGED <<worker, callVars, tableVars, net, reason>> PROVE WsInv'
    BY <2>1, WsStepsInv
  <2>2. CASE RunnerStep
    BY <2>1, <2>2 DEF RunnerStep, StartPipe, ProcessRequest, RespondFails, ProcessBad, Take,
                      EndOfStream
  <2>3. CASE Yield \/ DropStream \/ Stopped \/ UNCHANGED pvars
    BY <2>1, <2>3 DEF Yield, DropStream, Stopped, pvars, wsVars
  <2>4. CASE StreamStep
    <3>1. ASSUME NEW kind \in Kinds, ReceiveRequest(kind) PROVE WsInv'
      BY <2>1, <3>1 DEF ReceiveRequest
    <3>2. ASSUME NEW i \in Incoming, ResponseCanceled(i) PROVE WsInv'
      BY <2>1, <3>2 DEF ResponseCanceled
    <3>3. ASSUME NEW i \in Incoming, NEW w \in {"running", "blocked"}, SendResponse(i, w)
          PROVE  WsInv'
      <4>1. /\ UNCHANGED <<callVars, tableVars, net, reason>>
            /\ worker = "running" /\ worker' \in {"running", "blocked"}
        BY <3>3 DEF SendResponse, Transmit
      <4> QED BY <4>1, BlockedStep
    <3> QED BY <2>4, <3>1, <3>2, <3>3, StoppingSteps DEF StreamStep
  <2> QED BY <2>2, <2>3, <2>4, WsStepsInv DEF PipeNext, FacadeStep
<1>3. WsInv => ResponsesMatch /\ WaitingIsTracked /\ TimeoutIsReal
  BY DEF WsInv, WaitersKnown, WaitingIsTracked, Alive, Queued, Sent
<1> QED BY <1>1, <1>2, <1>3, PTL DEF PipeSpec

=============================================================================
