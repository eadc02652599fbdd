------------------------- MODULE MultipathTransport -------------------------
(***************************************************************************)
(* The client's transport over several UDP sockets: one read loop per path *)
(* feeding a merged channel, a write that goes out on every live path and  *)
(* succeeds with the first of them, the end of the transport by Close or   *)
(* by the failure of its last path, and the nonces of path authentication. *)
(*                                                                         *)
(* Packets are "ack", an acknowledgment the dialer would accept, and       *)
(* "other"; a challenge of path authentication is kept apart, in chal.     *)
(***************************************************************************)
EXTENDS Naturals, Sequences, FiniteSets

CONSTANTS
    Paths,
    MaxNonce      \* bound on the refreshes of path authentication

ASSUME PathsAssumption == Paths # {} /\ IsFiniteSet(Paths) /\ MaxNonce \in Nat \ {0}

VARIABLES
    reader,       \* where the read loop of each path is
    held,         \* the packet it wants to put into reads
    pathAlive,
    socket,       \* "open" or "closed"
    closes,       \* how often a path was closed
    reads,        \* the merged channel, of capacity Cardinality(Paths)
    finisher,     \* finishReads: "waiting", "settled" or "done" (readDone)
    cancelled,    \* t.ctx
    closing,
    terminalErr,  \* "none", "closed" or "failed"
    closer,       \* Close: "none", "marked", "closing", "waiting", "done"
    write,        \* the WritePacket call
    nonce,        \* pathAuth.nonces; 0 before path authentication
    request,      \* the nonce in the requests of the latest refresh
    refresh,      \* refreshPathAuthentication: "idle" or "sending"
    chal          \* the nonce of a challenge that is under way; 0 for none

readVars == <<reader, held, reads>>
pathVars == <<pathAlive, socket, closes>>
endVars == <<finisher, cancelled, closing, terminalErr, closer>>
authVars == <<nonce, request, refresh, chal>>
transportVars == <<readVars, pathVars, endVars, write, authVars>>

Capacity == Cardinality(Paths)
NoWrite == [at |-> "idle", indexes |-> {}, res |-> [p \in Paths |-> "none"], result |-> "none"]

\* NewMultipathTransport
TransportInit ==
    /\ reader = [p \in Paths |-> "reading"] /\ held = [p \in Paths |-> "none"]
    /\ pathAlive = [p \in Paths |-> TRUE]
    /\ socket = [p \in Paths |-> "open"] /\ closes = [p \in Paths |-> 0]
    /\ reads = <<>>
    /\ finisher = "waiting" /\ cancelled = FALSE /\ closing = FALSE
    /\ terminalErr = "none" /\ closer = "none"
    /\ write = NoWrite
    /\ nonce = 0 /\ request = 0 /\ refresh = "idle" /\ chal = 0

-----------------------------------------------------------------------------
(* readLoop, pathTerminated, closePath, finishReads                         *)

goto(p, s) == reader' = [reader EXCEPT ![p] = s]

\* ReadPacket of the path returns a packet that is no path control message.
receive(p, packet) ==
    /\ reader[p] = "reading" /\ socket[p] = "open" /\ ~cancelled
    /\ goto(p, "holding")
    /\ held' = [held EXCEPT ![p] = packet]
    /\ UNCHANGED <<reads, pathVars, endVars, write, authVars>>

\* The select of the read loop: reads takes the packet, or the transport ends.
deliver(p) ==
    /\ reader[p] = "holding" /\ Len(reads) < Capacity
    /\ goto(p, "reading")
    /\ reads' = Append(reads, held[p])
    /\ held' = [held EXCEPT ![p] = "none"]
    /\ UNCHANGED <<pathVars, endVars, write, authVars>>

abandon_Never(p) == FALSE
abandon(p) ==
    /\ reader[p] = "holding" /\ cancelled
    /\ goto(p, "leaving")
    /\ held' = [held EXCEPT ![p] = "none"]
    /\ UNCHANGED <<reads, pathVars, endVars, write, authVars>>

\* What pathTerminated makes of the terminal error when no path is left.
terminal_LeftToFinish(remaining) == terminalErr
terminal(remaining) ==
    IF remaining = {} /\ ~closing /\ terminalErr = "none" THEN "failed" ELSE terminalErr

\* ReadPacket of the path fails: by itself, because the socket was closed or
\* because the transport was cancelled.
pathTerminated(p) ==
    LET remaining == {q \in Paths \ {p} : pathAlive[q]} IN
    /\ reader[p] = "reading"
    /\ pathAlive' = [pathAlive EXCEPT ![p] = FALSE]
    /\ terminalErr' = terminal(remaining)
    /\ goto(p, IF remaining = {} THEN "cancelling" ELSE "leaving")
    /\ UNCHANGED <<held, reads, socket, closes, finisher, cancelled, closing, closer, write, authVars>>

lastCancels(p) ==
    /\ reader[p] = "cancelling"
    /\ cancelled' = TRUE
    /\ goto(p, "leaving")
    /\ UNCHANGED <<held, reads, pathVars, finisher, closing, terminalErr, closer, write, authVars>>

\* closePath goes through a sync.Once.
closePath(p) ==
    /\ socket' = [socket EXCEPT ![p] = "closed"]
    /\ closes' = [closes EXCEPT ![p] = IF socket[p] = "open" THEN @ + 1 ELSE @]

leave(p) ==
    /\ reader[p] = "leaving" /\ goto(p, "done")
    /\ closePath(p)
    /\ UNCHANGED <<held, reads, pathAlive, endVars, write, authVars>>

allRead_Cancelled == cancelled
allRead == \A p \in Paths : reader[p] = "done"

finishSettles ==
    /\ finisher = "waiting" /\ allRead
    /\ finisher' = "settled"
    /\ terminalErr' = IF terminalErr = "none" THEN "closed" ELSE terminalErr
    /\ UNCHANGED <<readVars, pathVars, cancelled, closing, closer, write, authVars>>

finishCloses ==
    /\ finisher = "settled" /\ finisher' = "done"
    /\ UNCHANGED <<readVars, pathVars, cancelled, closing, terminalErr, closer, write, authVars>>

ReaderSteps ==
    \/ \E p \in Paths : \/ deliver(p) \/ abandon(p) \/ lastCancels(p) \/ leave(p)
                        \/ (pathTerminated(p) /\ (cancelled \/ socket[p] = "closed"))
    \/ finishSettles \/ finishCloses

-----------------------------------------------------------------------------
(* Close                                                                    *)

kept(e) == IF e = "none" THEN "closed" ELSE e

closeMarks ==
    /\ closer = "none" /\ closer' = "marked"
    /\ closing' = TRUE
    /\ terminalErr' = kept(terminalErr)
    /\ UNCHANGED <<readVars, pathVars, finisher, cancelled, write, authVars>>

ended == TRUE

closeCancels ==
    /\ closer = "marked" /\ closer' = "closing"
    /\ cancelled' = ended
    /\ UNCHANGED <<readVars, pathVars, finisher, closing, terminalErr, write, authVars>>

closeClosesPath(p) ==
    /\ closer = "closing" /\ socket[p] = "open"
    /\ closePath(p)
    /\ UNCHANGED <<readVars, pathAlive, endVars, write, authVars>>

closeReturns ==
    /\ closer = "closing" /\ closer' = "done"
    /\ \A p \in Paths : socket[p] = "closed"
    /\ finisher = "done"
    /\ UNCHANGED <<readVars, pathVars, finisher, cancelled, closing, terminalErr, write, authVars>>

CloserSteps == closeCancels \/ (\E p \in Paths : closeClosesPath(p)) \/ closeReturns

-----------------------------------------------------------------------------
(* WritePacket and awaitWriteResults                                        *)

Live == {p \in Paths : pathAlive[p]}
answer(r) == write' = [NoWrite EXCEPT !.at = "returned", !.res = write.res, !.result = r]
asResult(e) == IF e = "none" THEN "nil" ELSE "error"

\* activePathIndexes decides; with no live path the terminal error is returned
\* as it is.
WritePacket ==
    /\ \/ /\ Live # {}
          /\ write' = [at |-> "awaiting", indexes |-> Live, result |-> "none",
                       res |-> [p \in Paths |-> IF p \in Live THEN "running" ELSE "none"]]
       \/ /\ Live = {}
          /\ write' = [NoWrite EXCEPT !.at = "returned", !.result = asResult(terminalErr)]
    /\ UNCHANGED <<readVars, pathVars, endVars, authVars>>

\* The goroutine of one path publishes its result.  A call that has returned
\* does not look any more.
published(p) ==
    /\ write.at = "awaiting" /\ write.res[p] = "running"
    /\ \/ socket[p] = "open" /\ write' = [write EXCEPT !.res[p] = "ok"]
       \/ write' = [write EXCEPT !.res[p] = "error"]
    /\ UNCHANGED <<readVars, pathVars, endVars, authVars>>

sent == \E p \in write.indexes : write.res[p] = "ok"
allFailed == \A p \in write.indexes : write.res[p] = "error"

\* A published success is returned; a context that is done, or the end of the
\* transport, only when the channel holds no success.
writeReturns(callerDone) ==
    /\ write.at = "awaiting"
    /\ \/ sent /\ answer("nil")
       \/ ~sent /\ (allFailed \/ callerDone \/ cancelled) /\ answer("error")
    /\ UNCHANGED <<readVars, pathVars, endVars, authVars>>

-----------------------------------------------------------------------------
(* Path authentication                                                      *)

\* The nonces of the new requests are stored before any request is written.
stored(n) == n

refreshBegins ==
    /\ refresh = "idle" /\ ~cancelled /\ request < MaxNonce
    /\ request' = request + 1
    /\ nonce' = stored(request')
    /\ refresh' = "sending"
    /\ UNCHANGED <<readVars, pathVars, endVars, write, chal>>

\* The requests go out on the paths in out; the relay may challenge them.
refreshSends(out) ==
    /\ refresh = "sending" /\ refresh' = "idle"
    /\ out \subseteq {p \in Paths : socket[p] = "open"}
    /\ chal' \in (IF out = {} THEN {chal} ELSE {chal, request})
    /\ UNCHANGED <<readVars, pathVars, endVars, write, nonce, request>>

\* handlePathControl: a challenge to the stored nonce gets a response, one to an
\* older nonce does not; neither reaches the channel.
challenged(p) ==
    /\ reader[p] = "reading" /\ socket[p] = "open" /\ ~cancelled
    /\ chal # 0 /\ chal' = 0
    /\ UNCHANGED <<readVars, pathVars, endVars, write, nonce, request, refresh>>
=============================================================================
