--------------------------- MODULE SignalWebSocket ---------------------------
(***************************************************************************)
(* The websocket: the facade the application calls (SignalWebSocket), the  *)
(* worker that owns the connection (SignalWebSocketProcess::run), and, as  *)
(* external parts, the network and the server (src/src/websocket/mod.rs).  *)
(*                                                                         *)
(* One turn of the worker's select loop is one step; any branch that is    *)
(* ready may be taken.  The server's answers wait in the receive buffer    *)
(* until ws.next() yields them; another frame comes to be when it is       *)
(* yielded, since nothing tells how long it waited.  Pings, pongs, text    *)
(* frames and responses without a known id change nothing and are left out.*)
(***************************************************************************)
EXTENDS Naturals, Sequences

CONSTANTS Requests,     \* calls of SignalWebSocket::request
          ChosenIds,    \* ids a caller may have put into its request
          RandomIds,    \* ids next_request_id may draw
          None,
          KeepAlive,    \* the request of a keepalive
          MaxIncoming   \* bound on the requests of the server

Ids == ChosenIds \cup RandomIds

\* What the server's requests are about: an Envelope that decodes, one that
\* does not (or has no body), /api/v1/queue/empty, anything else.
Kinds == {"envelope", "bad", "queue_empty", "other"}
Incoming == 1 .. MaxIncoming

DisconnectReasons == {"ConnectedElsewhere", "ConnectionInvalidated",
                      "KeepaliveTimeout", "ServerClosed", "Transport"}

ASSUME IdsAssumption ==
    /\ ChosenIds \cap RandomIds = {}
    /\ None \notin Requests \cup Ids
    /\ KeepAlive \notin Requests \cup {None}
    /\ MaxIncoming \in Nat

VARIABLES worker,             \* in its loop, blocked in ws.send or ws.close, or
                              \* stopped
          requests,           \* the mpsc channel of the application's requests
          call,               \* call[r]: the future of request r
          chosen,             \* chosen[r]: the id its caller gave it, or None
          got,                \* history: the request whose response r was given
          outgoing_requests,  \* the responders waiting for a response, by id
          keep_alive_set,     \* outgoing_keep_alive_set
          asked,              \* external: requests whose answer was not read yet
          inbox,              \* external: those of them the server has answered
          net,                \* external: "up", or "broken" and half open
          sent,               \* history: kinds of the server's requests so far
          stream,             \* the unbounded channel of the server's requests
          responder,          \* responder[i]: the answer to server request i
          held,               \* who has the stream's receiver
          reason,             \* the disconnect reason that was recorded
          facades             \* is some clone of the SignalWebSocket left?

callVars == <<requests, call, chosen, got>>
tableVars == <<outgoing_requests, keep_alive_set, asked, inbox>>
streamVars == <<sent, stream, responder, held>>
wsVars == <<worker, callVars, tableVars, net, streamVars, reason, facades>>

Asked == [id : Ids, of : Requests \cup {KeepAlive}]

TypeOK ==
    /\ worker \in {"running", "blocked", "closing", "stopped"}
    /\ requests \in Seq(Requests)
    /\ call \in [Requests -> {"idle", "waiting", "answered", "closing", "dropped"}]
    /\ chosen \in [Requests -> ChosenIds \cup {None}]
    /\ got \in [Requests -> Requests \cup {KeepAlive, None}]
    /\ outgoing_requests \in [Ids -> Requests \cup {None}]
    /\ keep_alive_set \subseteq Ids
    /\ asked \subseteq Asked /\ inbox \subseteq asked
    /\ net \in {"up", "broken"}
    /\ sent \in Seq(Kinds) /\ Len(sent) <= MaxIncoming
    /\ stream \in Seq(Incoming)
    /\ responder \in [Incoming -> {"none", "open", "filled", "canceled", "acked", "lost"}]
    /\ held \in {"facade", "pipe", "dropped"}
    /\ reason \in DisconnectReasons \cup {"none"}
    /\ facades \in BOOLEAN

Init ==
    /\ worker = "running"
    /\ requests = <<>>
    /\ call = [r \in Requests |-> "idle"]
    /\ chosen = [r \in Requests |-> None]
    /\ got = [r \in Requests |-> None]
    /\ outgoing_requests = [i \in Ids |-> None]
    /\ keep_alive_set = {}
    /\ asked = {} /\ inbox = {}
    /\ net = "up"
    /\ sent = <<>>
    /\ stream = <<>>
    /\ responder = [i \in Incoming |-> "none"]
    /\ held = "facade"
    /\ reason = "none"
    /\ facades = TRUE

-----------------------------------------------------------------------------
(* The application's side *)

\* request: the responder and the request go into the worker's channel; each
\* call has a Sender of its own, so there is always room for one message.
Request(r, id) ==
    /\ call[r] = "idle"
    /\ facades
    /\ worker # "stopped"
    /\ call' = [call EXCEPT ![r] = "waiting"]
    /\ chosen' = [chosen EXCEPT ![r] = id]
    /\ requests' = Append(requests, r)
    /\ UNCHANGED <<worker, got, tableVars, net, streamVars, reason, facades>>

\* The worker is gone and the channel closed: WsClosing at once.
RequestClosed(r) ==
    /\ call[r] = "idle"
    /\ facades
    /\ worker = "stopped"
    /\ call' = [call EXCEPT ![r] = "closing"]
    /\ UNCHANGED <<worker, requests, chosen, got, tableVars, net, streamVars, reason,
                   facades>>

\* The caller drops the future; what is in the channel stays there.
DropRequest(r) ==
    /\ call[r] = "waiting"
    /\ call' = [call EXCEPT ![r] = "dropped"]
    /\ UNCHANGED <<worker, requests, chosen, got, tableVars, net, streamVars, reason,
                   facades>>

\* The last clone goes; a pending request would hold one.
DropFacades ==
    /\ facades
    /\ \A r \in Requests : call[r] # "waiting"
    /\ facades' = FALSE
    /\ UNCHANGED <<worker, callVars, tableVars, net, streamVars, reason>>

-----------------------------------------------------------------------------
(* The worker *)

\* run returns: the reason is recorded unless there is none to record, and
\* everything the worker owns is dropped, pending responders and what was not
\* read included.
Stop(r) ==
    /\ worker' = "stopped"
    /\ reason' = r
    /\ call' = [q \in Requests |-> IF call[q] = "waiting" THEN "closing" ELSE call[q]]
    /\ requests' = <<>>
    /\ outgoing_requests' = [i \in Ids |-> None]
    /\ keep_alive_set' = {}
    /\ inbox' = {}

\* Mutant: too few bits, so that only the table keeps ids apart.
FreeIds == {i \in RandomIds : outgoing_requests[i] = None}

\* next_request_id: 64 random bits, drawn again while they are in the table, do
\* not meet an id that is still in use anywhere.
FreshIds == {i \in RandomIds : /\ outgoing_requests[i] = None
                               /\ i \notin keep_alive_set
                               /\ \A a \in asked : a.id # i}
NextRequestId == CHOOSE i \in FreshIds : TRUE

\* ws.send: the frame leaves, or, on a dead connection, vanishes in a buffer; or
\* the worker waits for room for it, whatever the connection.
Transmit(w) ==
    /\ w \in {"running", "blocked"}
    /\ worker' = w

Ask(id, what) ==
    asked' = IF net = "up" THEN asked \cup {[id |-> id, of |-> what]} ELSE asked

\* Mutant: the id is not regenerated when the table has it.
TakeRequestAsIs(w) ==
    LET r == Head(requests)
        id == IF chosen[r] # None THEN chosen[r] ELSE NextRequestId
    IN  /\ worker = "running"
        /\ requests # <<>>
        /\ FreshIds # {}
        /\ requests' = Tail(requests)
        /\ outgoing_requests' = [outgoing_requests EXCEPT ![id] = r]
        /\ Ask(id, r)
        /\ Transmit(w)
        /\ UNCHANGED <<call, chosen, got, keep_alive_set, inbox, net, streamVars,
                       reason, facades>>

\* A request of the application: it gets an id, its responder goes into the
\* table and the request is sent.
TakeRequest(w) ==
    LET r == Head(requests)
        id == IF chosen[r] # None /\ outgoing_requests[chosen[r]] = None
                THEN chosen[r] ELSE NextRequestId
    IN  /\ worker = "running"
        /\ requests # <<>>
        /\ FreshIds # {}
        /\ requests' = Tail(requests)
        /\ outgoing_requests' = [outgoing_requests EXCEPT ![id] = r]
        /\ Ask(id, r)
        /\ Transmit(w)
        /\ UNCHANGED <<call, chosen, got, keep_alive_set, inbox, net, streamVars,
                       reason, facades>>

\* The application's side is gone: run returns Ok, no reason recorded.
EndOfRequests ==
    /\ worker = "running"
    /\ ~facades
    /\ requests = <<>>
    /\ Stop(reason)
    /\ UNCHANGED <<chosen, got, asked, net, streamVars, facades>>

\* Mutant: the keepalive is sent and forgotten.
KeepAliveUntracked(w) ==
    /\ worker = "running"
    /\ keep_alive_set = {}
    /\ FreshIds # {}
    /\ Ask(NextRequestId, KeepAlive)
    /\ Transmit(w)
    /\ UNCHANGED <<callVars, outgoing_requests, keep_alive_set, inbox, net, streamVars,
                   reason, facades>>

\* ka_interval.tick with every keepalive answered: one more is sent.
KeepAliveTick(w) ==
    /\ worker = "running"
    /\ keep_alive_set = {}
    /\ FreshIds # {}
    /\ keep_alive_set' = {NextRequestId}
    /\ Ask(NextRequestId, KeepAlive)
    /\ Transmit(w)
    /\ UNCHANGED <<callVars, outgoing_requests, inbox, net, streamVars, reason, facades>>

\* ka_interval.tick with a keepalive in the set: the worker gives up, whatever
\* waits to be read, and closes the connection ...
KeepAliveExpired ==
    /\ worker = "running"
    /\ keep_alive_set # {}
    /\ worker' = "closing"
    /\ reason' = "KeepaliveTimeout"
    /\ UNCHANGED <<callVars, tableVars, net, streamVars, facades>>

\* ... and only when ws.close has returned, with or without an error, ends.
CloseEnds ==
    /\ worker = "closing"
    /\ Stop(reason)
    /\ UNCHANGED <<chosen, got, asked, net, streamVars, facades>>

\* There is room again; ticks that were missed meanwhile come in a burst.
SendResumes ==
    /\ worker = "blocked"
    /\ net = "up"
    /\ worker' = "running"
    /\ UNCHANGED <<callVars, tableVars, net, streamVars, reason, facades>>

\* A blocked or failing ws.send ends in an error: the loop breaks, or `?` does.
SendFails ==
    /\ worker = "blocked"
    /\ Stop(reason)
    /\ UNCHANGED <<chosen, got, asked, net, streamVars, facades>>

\* ws.next() yields a frame; an answer that is in the buffer, it yields on a
\* connection that has died as well.
Receiving == worker = "running" /\ net = "up"
Reads(a) ==
    /\ worker = "running"
    /\ a \in inbox
    /\ asked' = asked \ {a}

\* process_frame: a response with an id of outgoing_requests.  The responder is
\* taken out of the table; its receiver may be gone.
ReceiveResponse(a) ==
    LET r == outgoing_requests[a.id]
    IN  /\ Reads(a)
        /\ r # None
        /\ inbox' = inbox \ {a}
        /\ outgoing_requests' = [outgoing_requests EXCEPT ![a.id] = None]
        /\ call' = [call EXCEPT ![r] = IF @ = "waiting" THEN "answered" ELSE @]
        /\ got' = [got EXCEPT ![r] = IF call[r] = "waiting" THEN a.of ELSE @]
        /\ UNCHANGED <<worker, requests, chosen, keep_alive_set, net, streamVars, reason,
                       facades>>

\* Mutant: the answered keepalive stays in the set.
ReceiveKeepAliveKept(a) ==
    /\ Reads(a)
    /\ outgoing_requests[a.id] = None
    /\ a.id \in keep_alive_set
    /\ inbox' = inbox \ {a}
    /\ UNCHANGED <<worker, callVars, outgoing_requests, keep_alive_set, net, streamVars,
                   reason, facades>>

\* process_frame: a keepalive is answered with a success.
ReceiveKeepAlive(a) ==
    /\ Reads(a)
    /\ outgoing_requests[a.id] = None
    /\ a.id \in keep_alive_set
    /\ inbox' = inbox \ {a}
    /\ keep_alive_set' = keep_alive_set \ {a.id}
    /\ UNCHANGED <<worker, callVars, outgoing_requests, net, streamVars, reason, facades>>

\* ... or with another status: run ends with UnhandledResponseCode.
ReceiveKeepAliveError(a) ==
    /\ Reads(a)
    /\ outgoing_requests[a.id] = None
    /\ a.id \in keep_alive_set
    /\ Stop(reason)
    /\ UNCHANGED <<chosen, got, net, streamVars, facades>>

\* process_frame: a request goes into the unbounded channel with a responder,
\* and the worker keeps the other end in outgoing_responses.
ReceiveRequest(kind) ==
    /\ Receiving
    /\ Len(sent) < MaxIncoming
    /\ held # "dropped"
    /\ sent' = Append(sent, kind)
    /\ stream' = Append(stream, Len(sent) + 1)
    /\ responder' = [responder EXCEPT ![Len(sent) + 1] = "open"]
    /\ UNCHANGED <<worker, callVars, tableVars, net, held, reason, facades>>

\* The request handler has been dropped: the worker ends with WsClosing.
ReceiveUnhandled ==
    /\ Receiving
    /\ held = "dropped"
    /\ Stop(reason)
    /\ UNCHANGED <<chosen, got, asked, net, streamVars, facades>>

\* A frame that does not decode, or contradicts its type.
ReceiveInvalid ==
    /\ Receiving
    /\ Stop(reason)
    /\ UNCHANGED <<chosen, got, asked, net, streamVars, facades>>

\* DisconnectReason::from_close
FromClose(code) ==
    CASE code = 4409 -> "ConnectedElsewhere"
      [] code = 4401 -> "ConnectionInvalidated"
      [] OTHER -> "ServerClosed"

ReceiveClose(code) ==
    /\ Receiving
    /\ Stop(FromClose(code))
    /\ UNCHANGED <<chosen, got, asked, net, streamVars, facades>>

\* ws.next() yields an error, or None.
ReceiveEnd ==
    /\ worker = "running"
    /\ Stop("Transport")
    /\ UNCHANGED <<chosen, got, asked, net, streamVars, facades>>

\* outgoing_responses yields a response: it is sent.
SendResponse(i, w) ==
    /\ worker = "running"
    /\ responder[i] = "filled"
    /\ responder' = [responder EXCEPT ![i] = IF net = "up" THEN "acked" ELSE "lost"]
    /\ Transmit(w)
    /\ UNCHANGED <<callVars, tableVars, net, sent, stream, held, reason, facades>>

\* outgoing_responses yields Canceled: logged.
ResponseCanceled(i) ==
    /\ worker = "running"
    /\ responder[i] = "canceled"
    /\ responder' = [responder EXCEPT ![i] = "none"]
    /\ UNCHANGED <<worker, callVars, tableVars, net, sent, stream, held, reason, facades>>

-----------------------------------------------------------------------------

\* External: the server answers, and the answer is in the receive buffer.
Answer(a) ==
    /\ net = "up" /\ worker # "stopped"
    /\ a \in asked \ inbox
    /\ inbox' = inbox \cup {a}
    /\ UNCHANGED <<worker, callVars, outgoing_requests, keep_alive_set, asked, net,
                   streamVars, reason, facades>>

\* External: the connection dies and nobody tells.
NetBreaks ==
    /\ net = "up" /\ worker # "stopped"
    /\ net' = "broken"
    /\ UNCHANGED <<worker, callVars, tableVars, streamVars, reason, facades>>

NetStep ==
    \/ \E a \in asked : Answer(a)
    \/ NetBreaks

CallStep(r) ==
    \/ \E id \in ChosenIds \cup {None} : Request(r, id)
    \/ RequestClosed(r)
    \/ DropRequest(r)

SendStep(w) ==
    \/ TakeRequest(w)
    \/ KeepAliveTick(w)

Receive ==
    \/ \E a \in inbox : ReceiveResponse(a) \/ ReceiveKeepAlive(a) \/ ReceiveKeepAliveError(a)
    \/ ReceiveInvalid
    \/ \E code \in {1000, 4401, 4409} : ReceiveClose(code)
    \/ ReceiveEnd

WorkerStep ==
    \/ \E w \in {"running", "blocked"} : SendStep(w)
    \/ EndOfRequests
    \/ KeepAliveExpired
    \/ CloseEnds
    \/ SendResumes
    \/ SendFails
    \/ Receive

\* The worker's part in the requests of the server and their responses.
StreamStep ==
    \/ \E kind \in Kinds : ReceiveRequest(kind)
    \/ ReceiveUnhandled
    \/ \E i \in Incoming : ResponseCanceled(i)
    \/ \E i \in Incoming, w \in {"running", "blocked"} : SendResponse(i, w)

\* Nothing left to do: no worker, and every call has ended.
Stopped ==
    /\ worker = "stopped"
    /\ UNCHANGED wsVars

\* A websocket nobody has taken the request stream of and whose server sends no
\* requests, as the unidentified one is used; MessagePipe adds StreamStep.
WsNext ==
    \/ \E r \in Requests : CallStep(r)
    \/ DropFacades
    \/ WorkerStep
    \/ NetStep
    \/ Stopped

WsSpec == Init /\ [][WsNext]_wsVars

\* select! tries its branches in random order: one that is ready again and again
\* is taken.  The timer ticks; a send or a close does not wait for ever, as there
\* is room again or the transport gives up.  External: on a live connection the
\* server answers what it is asked.
WsFairness ==
    /\ SF_wsVars(\E w \in {"running", "blocked"} : TakeRequest(w))
    /\ SF_wsVars(\E w \in {"running", "blocked"} : KeepAliveTick(w))
    /\ WF_wsVars(KeepAliveExpired)
    /\ WF_wsVars(CloseEnds)
    /\ WF_wsVars(SendResumes \/ SendFails)
    /\ \A r \in Requests : /\ WF_wsVars(\E a \in asked : a.of = r /\ Answer(a))
                           /\ SF_wsVars(\E a \in inbox : a.of = r /\ ReceiveResponse(a))

WsFairSpec == WsSpec /\ WsFairness

-----------------------------------------------------------------------------
(* Properties *)

\* The id table pairs responses with their requests: whatever ids callers
\* chose and whatever keepalives are out, a caller is given the response to
\* its own request.
ResponsesMatch == \A r \in Requests : got[r] \in {r, None}

\* No responder is lost while the worker lives: the request of a waiting caller
\* is in the channel, or it is in the table and, on a live connection, the
\* server has it under that id or has answered it.
WaitingIsTracked ==
    worker # "stopped" =>
        \A r \in Requests : call[r] = "waiting" =>
            \/ \E k \in DOMAIN requests : requests[k] = r
            \/ \E i \in Ids : /\ outgoing_requests[i] = r
                              /\ net = "up" => [id |-> i, of |-> r] \in asked

\* KeepaliveTimeout is never given on a live connection once the worker has read
\* the answers to all its keepalives, however its turns and the answers
\* interleave and wherever a send held it up.
TimeoutIsReal ==
    reason = "KeepaliveTimeout" /\ net = "up" => \E a \in asked : a.of = KeepAlive

\* No caller of request waits for ever: it is answered, or told that the
\* websocket is closing, even if the connection dies without a word.
EveryRequestEnds == \A r \in Requests : call[r] = "waiting" ~> call[r] # "waiting"
=============================================================================
