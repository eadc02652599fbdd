----------------------------- MODULE NamedPipe -----------------------------
(***************************************************************************)
(* The helper's client and Core's server on one pipe.                      *)
(***************************************************************************)
EXTENDS NamedPipeClient, NamedPipeServer

vars == <<clientVars, serverVars, channelVars>>

Init == ClientInit /\ ServerInit /\ pipe = NoPipe /\ faults = 0

Next ==
    \/ ClientNext /\ UNCHANGED serverVars
    \/ ServerNext /\ UNCHANGED clientVars

Spec == Init /\ [][Next]_vars

(***************************************************************************)
(* Every goroutine keeps running.  A write and a handshake read end by     *)
(* their timeouts, an incomplete frame by the idle timeout of the server.  *)
(* No caller's context, no Close and no fault is assumed to come.          *)
(***************************************************************************)
FairSpec ==
    /\ Spec
    /\ WF_vars(RunSteps /\ UNCHANGED serverVars)
    /\ WF_vars((\E c \in Callers : CallSteps(c)) /\ UNCHANGED serverVars)
    /\ WF_vars(ServerSteps /\ UNCHANGED clientVars)
    /\ WF_vars((\E t \in Writers : Enqueue(t) \/ EnqueueWaits(t) \/ EnqueueRefused(t)
                                    \/ WriterGone(t)) /\ UNCHANGED clientVars)
    /\ WF_vars(WriterSteps /\ UNCHANGED clientVars)

-----------------------------------------------------------------------------
\* Type invariant of the pipe, its two ends and the calls over it.
TypeOK == ChannelTypeOK /\ ClientTypeOK /\ ServerTypeOK

(***************************************************************************)
(* The client keeps the protocol the server enforces: it never repeats or  *)
(* goes back in its request identifiers on a connection and sends nothing  *)
(* before Authenticate, whichever callers race for requestMu, whichever    *)
(* connection they captured and however often the pipe was reopened.       *)
(***************************************************************************)
ProtocolKept == serveErr \notin {"ids", "unauthorized"}

(***************************************************************************)
(* A call that returns without error returns the answer to its own request *)
(* (call in namedpipe_client.go), also when answers to requests that timed *)
(* out, or were sent on an earlier connection, arrive late.                *)
(***************************************************************************)
AnswerMatches ==
    \A c \in Callers : call[c].at = "returned" /\ call[c].ok =>
        /\ call[c].answer.id = call[c].id
        /\ call[c].answer.op = Op(c)

(***************************************************************************)
(* A pending entry belongs to a call that still waits and that nobody has  *)
(* answered; a client without a connection, or closed, has none: detach-   *)
(* Locked leaves nobody behind.                                            *)
(***************************************************************************)
PendingIsWaitedFor ==
    /\ pending = {call[c].id : c \in {c \in Callers : /\ call[c].at \in {"writing", "waiting"}
                                                       /\ call[c].box = <<>>}}
    /\ conn = 0 => pending = {}
    /\ closed => conn = 0

(***************************************************************************)
(* Nobody sends twice on a response channel, whose capacity is one: resolve*)
(* and detachLocked send while they hold client.mu, and a send that blocks *)
(* would stop the client for good.                                         *)
(***************************************************************************)
SendNeverBlocks == \A c \in Callers : Len(call[c].box) <= 1

(***************************************************************************)
(* A writer that is done has answered everything it was given: no request  *)
(* is left in the queue of namedPipeWriter or slips in after drainQueue.   *)
(***************************************************************************)
DoneIsDrained ==
    writer \in {"none", "done"} => /\ queue = <<>>
                                   /\ \A t \in Writers : writes[t].at # "asleep"

(***************************************************************************)
(* A controller lives only inside the connection that authenticated it: by *)
(* the time the pipe listens again, or the server is down, it is revoked   *)
(* and its session withdrawn ("The listener revokes its controller and     *)
(* leases before accepting another client", docs/captured-udp-api.md).     *)
(***************************************************************************)
RevokedBeforeNext ==
    /\ controller => session = pipe.n
    /\ srv \in {"finished", "create", "listen", "down"} => ~controller /\ session = 0

(***************************************************************************)
(* Every call that was registered returns, although its own context never  *)
(* ends: an answer, a failed write or the end of the connection reaches it.*)
(***************************************************************************)
EveryCallReturns ==
    \A c \in Callers : call[c].at \in {"writing", "waiting"} ~> call[c].at = "returned"

(***************************************************************************)
(* Every WriteFrame of the server returns: a goroutine asleep for room in  *)
(* the queue is woken when there is room and when the writer is closed.    *)
(***************************************************************************)
EveryWriteReturns == \A t \in Writers : writes[t].at # "idle" ~> writes[t].at = "idle"

(***************************************************************************)
(* Once a connection ends its cleanup finishes: closing the writer neither *)
(* waits for a caller nor for a write that nobody reads.                   *)
(***************************************************************************)
CleanupEnds == srv \in {"closing", "joining"} ~> srv \in {"finished", "create", "listen", "down"}

\* Both ends keep the connection usable: request identifiers, pending calls,
\* response channels and the write queue stay consistent while callers race.
PipeSound == /\ TypeOK /\ ProtocolKept /\ PendingIsWaitedFor
             /\ SendNeverBlocks /\ DoneIsDrained

\* Everything that waits on the pipe returns: calls of the helper, writes of the
\* server and the cleanup of a connection.
EveryoneReturns == EveryCallReturns /\ EveryWriteReturns /\ CleanupEnds
=============================================================================
