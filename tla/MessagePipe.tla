----------------------------- MODULE MessagePipe -----------------------------
(***************************************************************************)
(* MessagePipe::stream over the websocket: a runner that takes the         *)
(* server's requests, acknowledges them and passes envelopes on through a  *)
(* bounded channel (src/src/messagepipe.rs).  The runner is one half of    *)
(* the returned stream, so it advances only while the consumer polls.      *)
(***************************************************************************)
EXTENDS SignalWebSocket, FiniteSets

Capacity == 1   \* mpsc::channel(1)

VARIABLES pipe,     \* where MessagePipe::run is
          sink,     \* the channel from the runner to the consumer
          yielded   \* history: what the consumer was given

pipeVars == <<pipe, sink, yielded>>
pvars == <<wsVars, pipeVars>>

\* Incoming::Envelope, Incoming::QueueEmpty, Err(ServiceError): what became of
\* the i-th request.  Incoming::Disconnected: the end.
Items == [tag : {"envelope", "queue_empty", "error"}, of : Incoming]
Disconnected == [tag : {"disconnected"}, of : DisconnectReasons]

PipeTypeOK ==
    /\ TypeOK
    /\ pipe \in {"new", "next", "parked", "ended", "dropped"}
    /\ sink \in Seq(Items \cup Disconnected)
    /\ yielded \in Seq(Items \cup Disconnected)

PipeInit ==
    /\ Init
    /\ pipe = "new"
    /\ sink = <<>>
    /\ yielded = <<>>

\* sink.send: the item is put into the channel, and the runner waits there when
\* that makes more than Capacity.
SinkSend(item) ==
    /\ sink' = Append(sink, item)
    /\ pipe' = IF Len(sink) + 1 > Capacity THEN "parked" ELSE "next"

\* The first poll: run takes the request stream and the disconnect reason.
StartPipe ==
    /\ pipe = "new"
    /\ held = "facade"
    /\ pipe' = "next"
    /\ held' = "pipe"
    /\ UNCHANGED <<worker, callVars, tableVars, net, sent, stream, responder, reason,
                   facades, sink, yielded>>

\* Mutant: the runner is woken by every poll, room or not.
TakeWithoutWaiting(i) ==
    /\ pipe \in {"next", "parked"}
    /\ stream # <<>>
    /\ i = Head(stream)
    /\ stream' = Tail(stream)
    /\ UNCHANGED <<worker, callVars, tableVars, net, sent, held, reason, facades, yielded>>

\* stream.next() yields request i to process_request.
Take(i) ==
    /\ pipe = "next"
    /\ stream # <<>>
    /\ i = Head(stream)
    /\ stream' = Tail(stream)
    /\ UNCHANGED <<worker, callVars, tableVars, net, sent, held, reason, facades, yielded>>

\* The item for a request of this kind that was responded to.
ItemOf(i) == [tag |-> sent[i], of |-> i]

\* process_request: responder.send puts the response into the worker's hands,
\* then the item is passed on; for other requests there is none.
ProcessRequest(i) ==
    /\ Take(i)
    /\ sent[i] # "bad"
    /\ worker # "stopped"
    /\ responder' = [responder EXCEPT ![i] = "filled"]
    /\ IF sent[i] = "other" THEN UNCHANGED <<pipe, sink>> ELSE SinkSend(ItemOf(i))

\* The worker is gone, its end of the responder too: WsClosing is passed on.
RespondFails(i) ==
    /\ Take(i)
    /\ sent[i] # "bad"
    /\ worker = "stopped"
    /\ responder' = [responder EXCEPT ![i] = "none"]
    /\ SinkSend([tag |-> "error", of |-> i])

\* Mutant: the response goes out before the envelope is decoded.
AcknowledgeBad(i) ==
    /\ Take(i)
    /\ sent[i] = "bad"
    /\ responder' = [responder EXCEPT ![i] = "filled"]
    /\ SinkSend([tag |-> "error", of |-> i])

\* No body, or Envelope::decode fails: the error is passed on and the responder
\* dropped.
ProcessBad(i) ==
    /\ Take(i)
    /\ sent[i] = "bad"
    /\ responder' = [responder EXCEPT ![i] = "canceled"]
    /\ SinkSend([tag |-> "error", of |-> i])

\* Mutant: a worker that is gone ends the pipe at once.
EndEagerly ==
    /\ pipe = "next"
    /\ worker = "stopped"
    /\ pipe' = "ended"
    /\ held' = "facade"
    /\ sink' = Append(sink, [tag |-> "disconnected",
                             of |-> IF reason = "none" THEN "Transport" ELSE reason])
    /\ UNCHANGED <<worker, callVars, tableVars, net, sent, stream, responder, reason,
                   facades, yielded>>

\* Mutant: a worker that recorded no reason leaves nothing to pass on.
EndWithoutFallback ==
    /\ pipe = "next"
    /\ stream = <<>>
    /\ worker = "stopped"
    /\ pipe' = "ended"
    /\ held' = "facade"
    /\ sink' = IF reason = "none" THEN sink
               ELSE Append(sink, [tag |-> "disconnected", of |-> reason])
    /\ UNCHANGED <<worker, callVars, tableVars, net, sent, stream, responder, reason,
                   facades, yielded>>

\* The request stream has ended: it is returned and the reason, or Transport
\* if none was recorded, is the last item.
EndOfStream ==
    /\ pipe = "next"
    /\ stream = <<>>
    /\ worker = "stopped"
    /\ pipe' = "ended"
    /\ held' = "facade"
    /\ sink' = Append(sink, [tag |-> "disconnected",
                             of |-> IF reason = "none" THEN "Transport" ELSE reason])
    /\ UNCHANGED <<worker, callVars, tableVars, net, sent, stream, responder, reason,
                   facades, yielded>>

\* Mutant: the newest item first.
YieldNewest ==
    /\ sink # <<>>
    /\ yielded' = Append(yielded, sink[Len(sink)])
    /\ sink' = SubSeq(sink, 1, Len(sink) - 1)
    /\ pipe' = IF pipe = "parked" THEN "next" ELSE pipe
    /\ UNCHANGED wsVars

\* The consumer is given the next item, which makes room for the runner.
Yield ==
    /\ sink # <<>>
    /\ yielded' = Append(yielded, Head(sink))
    /\ sink' = Tail(sink)
    /\ pipe' = IF pipe = "parked" THEN "next" ELSE pipe
    /\ UNCHANGED wsVars

\* The consumer drops the stream: the runner goes with it, the request stream
\* the runner had taken, the responders in it, and the items in the channel.
DropStream ==
    /\ pipe # "dropped"
    /\ pipe' = "dropped"
    /\ sink' = <<>>
    /\ IF held = "pipe"
         THEN /\ held' = "dropped"
              /\ stream' = <<>>
              /\ responder' = [i \in Incoming |-> IF responder[i] = "open"
                                                    THEN "canceled" ELSE responder[i]]
         ELSE UNCHANGED <<held, stream, responder>>
    /\ UNCHANGED <<worker, callVars, tableVars, net, sent, reason, facades, yielded>>

RunnerStep ==
    \/ StartPipe
    \/ \E i \in Incoming : ProcessRequest(i) \/ RespondFails(i) \/ ProcessBad(i)
    \/ EndOfStream

\* The pipe has a clone of the websocket, until it ends.
FacadeStep ==
    /\ pipe \in {"ended", "dropped"}
    /\ DropFacades

PipeNext ==
    \/ /\ \/ \E r \in Requests : CallStep(r)
          \/ FacadeStep
          \/ WorkerStep
          \/ StreamStep
          \/ NetStep
          \/ Stopped
       /\ UNCHANGED pipeVars
    \/ RunnerStep
    \/ Yield
    \/ DropStream

PipeSpec == PipeInit /\ [][PipeNext]_pvars

\* A consumer that goes on polling drives the runner and takes its items; the
\* worker is fair as before.
PipeFairSpec ==
    /\ PipeSpec
    /\ WsFairness
    /\ WF_pvars(RunnerStep)
    /\ WF_pvars(Yield)

-----------------------------------------------------------------------------
(* Properties *)

Yielded(i) == \E k \in DOMAIN yielded : yielded[k] = [tag |-> "envelope", of |-> i]
Buffered(i) == \E k \in DOMAIN sink : sink[k] = [tag |-> "envelope", of |-> i]

\* Envelopes the server is, or may be, told we have.
Acknowledged == {i \in 1 .. Len(sent) : /\ sent[i] \in {"envelope", "bad"}
                                        /\ responder[i] \in {"filled", "acked", "lost"}}

\* What process_request acknowledges is not lost: the consumer has the envelope,
\* or will be given it, unless it drops the stream; and then no more than the
\* channel holds are gone.
NoSilentLoss ==
    LET missing == {i \in Acknowledged : ~Yielded(i)}
    IN  /\ Cardinality(missing) <= Capacity + 1
        /\ pipe # "dropped" => \A i \in missing : Buffered(i)

\* The consumer is given items in the order of the server's requests, none
\* twice, and Incoming::Disconnected "once, last", when nothing the worker has
\* received is left in the pipe.
YieldedInOrder ==
    \A j, k \in DOMAIN yielded : j < k =>
        /\ yielded[j].tag # "disconnected"
        /\ yielded[k].tag # "disconnected" => yielded[j].of < yielded[k].of

DisconnectedIsComplete ==
    \A k \in DOMAIN yielded : yielded[k].tag = "disconnected" =>
        \A i \in 1 .. Len(sent) :
            sent[i] # "other" => \E j \in 1 .. k - 1 : yielded[j].of = i

\* A consumer that keeps polling learns that the websocket is gone, whatever
\* made the worker stop.
DisconnectIsSeen ==
    worker = "stopped" ~>
        \/ pipe = "dropped"
        \/ \E k \in DOMAIN yielded : yielded[k].tag = "disconnected"
=============================================================================
