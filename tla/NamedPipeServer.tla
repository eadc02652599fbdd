-------------------------- MODULE NamedPipeServer --------------------------
(***************************************************************************)
(* Core's end of the captured-UDP pipe (internal/capturedudp/              *)
(* namedpipe_server.go and the listener of namedpipe_windows.go): the      *)
(* listener that serves one connection after another, the loop that        *)
(* authenticates a controller and answers its requests, DeliverReply       *)
(* called from the tunnel, and the writer goroutine whose bounded queue    *)
(* they share.                                                             *)
(*                                                                         *)
(* The operations themselves are those of CapturedRegistry; here they      *)
(* succeed or are refused.  A session is named by the connection it serves.*)
(***************************************************************************)
EXTENDS NamedPipeChannel

CONSTANTS
    Deliverers,         \* goroutines that call DeliverReply
    QueueSize,          \* namedPipeWriteQueueSize
    MaxDeliveries       \* bound: DeliverReply calls

ASSUME ServerAssumption ==
    /\ IsFiniteSet(Deliverers) /\ "serve" \notin Deliverers
    /\ QueueSize \in Nat \ {0} /\ MaxDeliveries \in Nat /\ MaxFaults \in Nat

VARIABLES
    srv,                \* where the listener and its serve loop are
    srvStop,            \* "no", "close" (Close was called) or "context"
    session,            \* the connection whose session is published, or 0
    controller,         \* an authenticated controller exists
    lastRequestID,
    serveErr,           \* "none", or the rule of the protocol a connection broke
    deliveries,         \* DeliverReply calls so far
    writes,             \* the WriteFrame call of each goroutine
    queue,              \* namedPipeWriter.queue
    writer,             \* where namedPipeWriter.run is
    inHand,             \* the request it has taken from the queue
    wClosed,            \* namedPipeWriter.closed
    wCancelled          \* namedPipeWriter.ctx is done

writerVars == <<writes, queue, writer, inHand, wClosed, wCancelled>>
listenerVars == <<srv, srvStop, session, controller, lastRequestID, serveErr, deliveries>>
serverVars == <<listenerVars, writerVars>>

Writers == Deliverers \cup {"serve"}

\* A write request; live is FALSE once its caller's context is done.
Request(t, frame) == [by |-> t, frame |-> frame, live |-> TRUE]

NoRequest == Request("none", Garbage)

\* No call, or a call that has returned with the result.
Idle(result) == [at |-> "idle", to |-> 0, frame |-> Garbage, result |-> result]

ServerInit ==
    /\ srv = "listen" /\ srvStop = "no" /\ session = 0 /\ controller = FALSE
    /\ lastRequestID = 0 /\ serveErr = "none" /\ deliveries = 0
    /\ writes = [t \in Writers |-> Idle("none")]
    /\ queue = <<>> /\ writer = "none" /\ inHand = NoRequest
    /\ wClosed = FALSE /\ wCancelled = FALSE

-----------------------------------------------------------------------------
(* namedPipeWriter.                                                        *)

\* stateCond.Broadcast: every goroutine asleep in enqueue looks again.
Broadcast(w) ==
    [t \in Writers |-> IF w[t].at = "asleep" THEN [w[t] EXCEPT !.at = "enqueue"] ELSE w[t]]

\* The call begins: the frame is for the writer of connection n.
StartWrite(w, t, n, frame) ==
    [w EXCEPT ![t] = [at |-> "enqueue", to |-> n, frame |-> frame, result |-> "none"]]

\* enqueue gives up on a writer that is closed or whose context is done.
Refuses == wClosed \/ wCancelled

\* The writer a call was made on is the present one.
OnWriter(t) == writes[t].to = pipe.n /\ writer # "none"

Enqueue(t) ==
    /\ writes[t].at = "enqueue" /\ OnWriter(t) /\ ~Refuses /\ Len(queue) < QueueSize
    /\ queue' = Append(queue, Request(t, writes[t].frame))
    /\ writes' = [writes EXCEPT ![t].at = "await"]
    /\ UNCHANGED <<writer, inHand, wClosed, wCancelled, listenerVars, channelVars>>

EnqueueWaits(t) ==
    /\ writes[t].at = "enqueue" /\ OnWriter(t) /\ ~Refuses /\ Len(queue) >= QueueSize
    /\ writes' = [writes EXCEPT ![t].at = "asleep"]
    /\ UNCHANGED <<queue, writer, inHand, wClosed, wCancelled, listenerVars, channelVars>>

\* ErrClosed, from a closed writer or one that an ended session left behind.
EnqueueRefused(t) ==
    /\ writes[t].at = "enqueue" /\ (~OnWriter(t) \/ Refuses)
    /\ writes' = [writes EXCEPT ![t] = Idle("error")]
    /\ UNCHANGED <<queue, writer, inHand, wClosed, wCancelled, listenerVars, channelVars>>

\* WriteFrame returns because the writer is done, or, in the serve loop,
\* because the connection's context is.
WriterGone(t) ==
    /\ writes[t].at = "await"
    /\ ~OnWriter(t) \/ writer = "done" \/ (t = "serve" /\ wCancelled)
    /\ writes' = [writes EXCEPT ![t] = Idle("error")]
    /\ UNCHANGED <<queue, writer, inHand, wClosed, wCancelled, listenerVars, channelVars>>

\* The caller's context ends, by the operation timeout or from outside.
WriteExpires(t) ==
    /\ writes[t].at \in {"enqueue", "asleep", "await"}
    /\ Fault
    /\ writes' = [writes EXCEPT ![t] = Idle("error")]
    /\ queue' = [i \in DOMAIN queue |->
                   IF queue[i].by = t THEN [queue[i] EXCEPT !.live = FALSE] ELSE queue[i]]
    /\ inHand' = IF inHand.by = t THEN [inHand EXCEPT !.live = FALSE] ELSE inHand
    /\ UNCHANGED <<writer, wClosed, wCancelled, pipe, listenerVars>>

\* The result of a request reaches its caller, if that still waits for it.
Answered(w, request, result) ==
    IF request.live /\ w[request.by].at = "await"
    THEN [w EXCEPT ![request.by] = Idle(result)] ELSE w

\* Contexts of the serve loop derive from the writer's and end with it.
Expired(request) == ~request.live \/ (request.by = "serve" /\ wCancelled)

X_AwakensNobody(w) == w

\* The broadcast after a request has left the queue.
AwakensWaiters(w) == Broadcast(w)

\* The writer takes a request from the queue: one nobody waits for is skipped.
WriterSkips ==
    /\ writer = "select" /\ queue # <<>> /\ Expired(Head(queue))
    /\ queue' = Tail(queue)
    /\ writes' = Answered(AwakensWaiters(writes), Head(queue), "error")
    /\ UNCHANGED <<writer, inHand, wClosed, wCancelled, listenerVars, channelVars>>

WriterStarts ==
    /\ writer = "select" /\ queue # <<>> /\ ~Expired(Head(queue))
    /\ inHand' = Head(queue) /\ queue' = Tail(queue)
    /\ writer' = "writing"
    /\ writes' = AwakensWaiters(writes)
    /\ UNCHANGED <<wClosed, wCancelled, listenerVars, channelVars>>

\* The frame is in the stream.  Windows completes it at once, without a
\* look at the context, when the pipe has room.
WriterWrote ==
    /\ writer = "writing" /\ ~Expired(inHand)
    /\ Connected(pipe.n)
    /\ pipe' = [pipe EXCEPT !.s2c = Append(@, inHand.frame)]
    /\ writes' = Answered(writes, inHand, "ok")
    /\ writer' = "select" /\ inHand' = NoRequest
    /\ UNCHANGED <<queue, wClosed, wCancelled, listenerVars, faults>>

\* A time-out, a broken pipe or a context that ended: the connection is cancelled.
WriterFailed ==
    /\ writer = "writing"
    /\ IF Connected(pipe.n) THEN
         /\ IF Expired(inHand) \/ wCancelled THEN UNCHANGED faults ELSE Fault
         /\ \E s \in FailedWrites(pipe.s2c, inHand.frame) : pipe' = [pipe EXCEPT !.s2c = s]
       ELSE UNCHANGED channelVars
    /\ wCancelled' = TRUE
    /\ writes' = Broadcast(Answered(writes, inHand, "error"))
    /\ writer' = "select" /\ inHand' = NoRequest
    /\ UNCHANGED <<queue, wClosed, listenerVars>>

\* ctx.Done: markClosed, drainQueue, return.
Drained(w) ==
    [t \in Writers |-> IF \E i \in DOMAIN queue : queue[i].by = t /\ queue[i].live
                       THEN Idle("error") ELSE w[t]]

WriterEnds ==
    /\ writer = "select" /\ wCancelled
    /\ wClosed' = TRUE /\ queue' = <<>>
    /\ writes' = Broadcast(Drained(writes))
    /\ writer' = "done"
    /\ UNCHANGED <<inHand, wCancelled, listenerVars, channelVars>>

WriterSteps == WriterSkips \/ WriterStarts \/ WriterWrote \/ WriterFailed \/ WriterEnds

WriterNext ==
    \/ \E t \in Writers : Enqueue(t) \/ EnqueueWaits(t) \/ EnqueueRefused(t)
                            \/ WriterGone(t) \/ WriteExpires(t)
    \/ WriterSteps

-----------------------------------------------------------------------------
(* The listener and serveNamedPipeController.                              *)

\* A client has connected and passes the identity check: a session with a
\* writer of its own.
SrvAccept ==
    /\ srv = "listen" /\ pipe.server = "connected"
    /\ srv' = "accepted"
    /\ writer' = "select" /\ queue' = <<>> /\ inHand' = NoRequest
    /\ wClosed' = FALSE /\ wCancelled' = (srvStop = "context")
    /\ UNCHANGED <<srvStop, session, controller, lastRequestID, serveErr, deliveries,
                   writes, channelVars>>

SrvRejectsPeer ==
    /\ srv = "listen" /\ pipe.server = "connected"
    /\ Fault
    /\ srv' = "finished"
    /\ UNCHANGED <<srvStop, session, controller, lastRequestID, serveErr, deliveries,
                   writerVars, pipe>>

\* connectNamedPipe returns an error once the server is stopped.
SrvListenEnds ==
    /\ srv = "listen" /\ srvStop # "no"
    /\ srv' = "finished"
    /\ UNCHANGED <<srvStop, session, controller, lastRequestID, serveErr, deliveries,
                   writerVars, channelVars>>

\* The session is published and the token sent, unless Close came first.
SrvBegin ==
    /\ srv = "accepted" /\ srvStop # "close"
    /\ session' = pipe.n
    /\ writes' = StartWrite(writes, "serve", pipe.n, Frame("hello", 0, "none", TRUE))
    /\ srv' = "hello"
    /\ UNCHANGED <<srvStop, controller, lastRequestID, serveErr, deliveries, queue, writer,
                   inHand, wClosed, wCancelled, channelVars>>

SrvBeginClosed ==
    /\ srv = "accepted" /\ srvStop = "close"
    /\ srv' = "finished"
    /\ UNCHANGED <<srvStop, session, controller, lastRequestID, serveErr, deliveries,
                   writerVars, channelVars>>

\* The frame the loop waited to write is settled: go on, or end the connection.
SrvWritten ==
    /\ srv \in {"hello", "respond", "lastWord"} /\ writes["serve"].at = "idle"
    /\ srv' = IF srv # "lastWord" /\ writes["serve"].result = "ok" THEN "read" ELSE "closing"
    /\ UNCHANGED <<srvStop, session, controller, lastRequestID, serveErr, deliveries,
                   writerVars, channelVars>>

\* namedPipeResponse, or a Pong for a Ping that succeeded.
Reply(frame, ok) ==
    IF frame.type = "ping" /\ ok THEN Frame("pong", frame.id, "ping", TRUE)
    ELSE Frame("response", frame.id, frame.type, ok)

\* The loop writes its reply; last ends the connection afterwards.
Replies(frame, ok, last) ==
    /\ writes' = StartWrite(writes, "serve", pipe.n, Reply(frame, ok))
    /\ srv' = IF last THEN "lastWord" ELSE "respond"

\* A request that took in foreign bytes may not decode.
MayFailToDecode(frame) == frame.mixed

\* handleNamedPipeOperation: the controller does what is asked or refuses;
\* a request that does not decode ends the connection.
Operation(frame) ==
    \/ Replies(frame, TRUE, FALSE) /\ UNCHANGED faults
    \/ Fault /\ Replies(frame, FALSE, FALSE)
    \/ MayFailToDecode(frame) /\ Replies(frame, FALSE, TRUE) /\ UNCHANGED faults

\* Without a controller only Authenticate is served.
Unauthenticated(frame) ==
    \/ /\ frame.type = "authenticate" /\ UNCHANGED serveErr
       /\ \/ controller' = TRUE /\ Replies(frame, TRUE, FALSE) /\ UNCHANGED faults
          \/ Fault /\ Replies(frame, FALSE, TRUE) /\ UNCHANGED controller
    \/ /\ frame.type # "authenticate" /\ serveErr' = "unauthorized"
       /\ Replies(frame, FALSE, TRUE) /\ UNCHANGED <<controller, faults>>

SrvRead ==
    /\ srv = "read" /\ pipe.server = "connected"
    /\ \E r \in readNamedPipeFrame(pipe.c2s) :
         /\ pipe' = [pipe EXCEPT !.c2s = r.rest]
         /\ r.frame.type # "garbage" /\ r.frame.id > lastRequestID
         /\ lastRequestID' = r.frame.id
         /\ IF controller THEN Operation(r.frame) /\ UNCHANGED <<controller, serveErr>>
            ELSE Unauthenticated(r.frame)
    /\ UNCHANGED <<srvStop, session, deliveries, queue, writer, inHand, wClosed, wCancelled>>

\* What cannot be decoded, or repeats an identifier, ends the connection.
SrvViolation ==
    /\ srv = "read" /\ pipe.server = "connected"
    /\ \E r \in readNamedPipeFrame(pipe.c2s) :
         /\ pipe' = [pipe EXCEPT !.c2s = r.rest]
         /\ r.frame.type = "garbage" \/ r.frame.id <= lastRequestID
         /\ serveErr' = IF r.frame.type = "garbage" THEN serveErr ELSE "ids"
    /\ srv' = "closing"
    /\ UNCHANGED <<srvStop, session, controller, lastRequestID, deliveries, writerVars, faults>>

\* The reader takes in a whole later frame as part of an earlier one.
SrvSwallows ==
    /\ srv = "read" /\ Len(pipe.c2s) > 1 /\ Head(pipe.c2s).cut
    /\ pipe' = [pipe EXCEPT !.c2s = Swallowed(@)]
    /\ UNCHANGED <<listenerVars, writerVars, faults>>

\* The read fails: the helper is gone, the pipe was closed or the writer
\* cancelled the connection.
SrvReadEnds ==
    /\ srv = "read"
    /\ \/ pipe.server # "connected" \/ wCancelled
       \/ ~pipe.client /\ readNamedPipeFrame(pipe.c2s) = {}
    /\ srv' = "closing"
    /\ UNCHANGED <<srvStop, session, controller, lastRequestID, serveErr, deliveries, writerVars, channelVars>>

\* The idle timeout, which an incomplete frame runs into as well.
SrvIdle ==
    /\ srv = "read" /\ readNamedPipeFrame(pipe.c2s) = {}
    /\ IF pipe.c2s = <<>> THEN Fault ELSE UNCHANGED faults
    /\ srv' = "closing"
    /\ UNCHANGED <<srvStop, session, controller, lastRequestID, serveErr, deliveries, writerVars, pipe>>

\* namedPipeWriter.Close cancels a writer that it was the first to close.
Cancels == wCancelled \/ ~wClosed

SrvCloses ==
    /\ srv = "closing"
    /\ wCancelled' = Cancels /\ wClosed' = TRUE
    /\ writes' = Broadcast(writes)
    /\ srv' = "joining"
    /\ UNCHANGED <<srvStop, session, controller, lastRequestID, serveErr, deliveries,
                   queue, writer, inHand, channelVars>>

X_DetachesOnly == controller

\* The deferred cleanup closes the controller.
Revoked == FALSE

SrvRevokes ==
    /\ srv = "joining" /\ writer = "done"
    /\ controller' = Revoked /\ session' = 0 /\ lastRequestID' = 0
    /\ srv' = "finished"
    /\ UNCHANGED <<srvStop, serveErr, deliveries, writerVars, channelVars>>

SrvFinishes ==
    /\ srv = "finished"
    /\ pipe' = ServerEndClosed(pipe)
    /\ srv' = IF srvStop = "no" THEN "create" ELSE "down"
    /\ UNCHANGED <<srvStop, session, controller, lastRequestID, serveErr, deliveries,
                   writerVars, faults>>

SrvCreates ==
    /\ srv = "create"
    /\ IF srvStop = "close" THEN srv' = "down" /\ UNCHANGED pipe
       ELSE srv' = "listen" /\ pipe' = [pipe EXCEPT !.server = "listening"]
    /\ UNCHANGED <<srvStop, session, controller, lastRequestID, serveErr, deliveries,
                   writerVars, faults>>

\* Only a failure to create the next instance ends the server.
SrvCreateFails ==
    /\ srv = "create"
    /\ Fault
    /\ srv' = "down"
    /\ UNCHANGED <<srvStop, session, controller, lastRequestID, serveErr, deliveries,
                   writerVars, pipe>>

ServerClose ==
    /\ srvStop = "no" /\ Fault
    /\ srvStop' = "close"
    /\ pipe' = ServerEndClosed(pipe)
    /\ UNCHANGED <<srv, session, controller, lastRequestID, serveErr, deliveries, writerVars>>

\* The context of Run ends, and with it the writer's.
ServerContextEnds ==
    /\ srvStop = "no" /\ Fault
    /\ srvStop' = "context" /\ wCancelled' = TRUE
    /\ writes' = Broadcast(writes)
    /\ UNCHANGED <<srv, session, controller, lastRequestID, serveErr, deliveries,
                   queue, writer, inHand, wClosed, pipe>>

\* DeliverReply on the published session, while it has a controller.
DeliverReply(d) ==
    /\ writes[d].at = "idle" /\ deliveries < MaxDeliveries
    /\ session # 0 /\ srvStop # "close" /\ controller
    /\ deliveries' = deliveries + 1
    /\ writes' = StartWrite(writes, d, session, Frame("delivery", 0, "none", TRUE))
    /\ UNCHANGED <<srv, srvStop, session, controller, lastRequestID, serveErr,
                   queue, writer, inHand, wClosed, wCancelled, channelVars>>

ServerSteps ==
    \/ SrvAccept \/ SrvListenEnds \/ SrvBegin \/ SrvBeginClosed \/ SrvWritten \/ SrvRead
    \/ SrvViolation \/ SrvSwallows \/ SrvReadEnds \/ SrvIdle \/ SrvCloses \/ SrvRevokes
    \/ SrvFinishes \/ SrvCreates

ServerNext ==
    \/ ServerSteps \/ SrvRejectsPeer \/ SrvCreateFails \/ ServerClose \/ ServerContextEnds
    \/ \E d \in Deliverers : DeliverReply(d)
    \/ WriterNext

ServerTypeOK ==
    /\ srv \in {"listen", "accepted", "hello", "read", "respond", "lastWord", "closing",
                "joining", "finished", "create", "down"}
    /\ srvStop \in {"no", "close", "context"} /\ session \in Nat /\ controller \in BOOLEAN
    /\ lastRequestID \in Nat /\ deliveries \in 0..MaxDeliveries
    /\ serveErr \in {"none", "unauthorized", "ids"}
    /\ DOMAIN writes = Writers
    /\ \A t \in Writers : /\ writes[t].at \in {"idle", "enqueue", "asleep", "await"}
                         /\ writes[t].result \in {"none", "ok", "error"}
    /\ Len(queue) <= QueueSize
    /\ writer \in {"none", "select", "writing", "done"}
    /\ inHand.by \in Writers \cup {"none"} /\ wClosed \in BOOLEAN /\ wCancelled \in BOOLEAN
=============================================================================
