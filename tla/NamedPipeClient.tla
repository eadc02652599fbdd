-------------------------- MODULE NamedPipeClient --------------------------
(***************************************************************************)
(* The helper's end of the captured-UDP pipe (internal/capturedudp/        *)
(* namedpipe_client.go): Run, which connects, authenticates, reads and     *)
(* reconnects with backoff, the goroutines that make calls over it, and    *)
(* Close.  mu is released between the steps of this module; requestMu is   *)
(* held from the allocation of an identifier until its frame is written.   *)
(***************************************************************************)
EXTENDS NamedPipeChannel

CONSTANTS
    Callers,            \* goroutines that make calls
    Pingers,            \* those whose calls are Pings
    MaxPending,         \* NamedPipeClientConfig.MaxPending
    ReconnectMin, ReconnectMax,
    MaxId,              \* bound: request identifiers ever allocated
    MaxConns            \* bound: connections ever opened

ASSUME ClientAssumption ==
    /\ IsFiniteSet(Callers) /\ Pingers \subseteq Callers /\ "run" \notin Callers /\ "none" \notin Callers
    /\ MaxPending \in Nat /\ MaxId \in Nat /\ MaxConns \in Nat
    /\ ReconnectMin \in Nat \ {0} /\ ReconnectMax \in Nat /\ ReconnectMin <= ReconnectMax

VARIABLES
    stage,              \* where Run is, by the names of its stages
    conn,               \* client.conn: the authenticated connection, or 0
    attempt,            \* the connection runConnection has in hand, or 0
    authID,             \* the identifier of its Authenticate frame
    pending,            \* keys of client.pending
    nextID,
    closed,
    cancelled,          \* Run's context is done
    backoff,
    requestMu,          \* who holds it
    call                \* the call of each goroutine

clientVars == <<stage, conn, attempt, authID, pending, nextID, closed, cancelled,
                backoff, requestMu, call>>

\* box is the response channel: what has been sent on it and not received.
NoCall == [at |-> "idle", id |-> 0, on |-> 0, box |-> <<>>,
           ok |-> FALSE, answer |-> Garbage]

ClientInit ==
    /\ stage = "idle" /\ conn = 0 /\ attempt = 0 /\ authID = 0 /\ pending = {} /\ nextID = 1
    /\ closed = FALSE /\ cancelled = FALSE /\ backoff = ReconnectMin
    /\ requestMu = "none" /\ call = [c \in Callers |-> NoCall]

-----------------------------------------------------------------------------
(* Pending calls.                                                          *)

\* Calls whose response channel is registered under one of the identifiers.
Waiting(ids) == {c \in Callers : call[c].at \in {"writing", "waiting"} /\ call[c].id \in ids}

Send(ids, response) ==
    [c \in Callers |-> IF c \in Waiting(ids)
                       THEN [call[c] EXCEPT !.box = Append(@, response)] ELSE call[c]]

\* What detachLocked sends to every pending call.
Failure == Frame("response", 0, "error", FALSE)

\* detachLocked deletes every entry it fails.
Detached == {}

\* It sends each of them the error.
FailAll == Send(pending, Failure)

detachLocked == conn' = 0 /\ pending' = Detached /\ call' = FailAll

X_OldestPending(id) ==
    IF pending = {} THEN id ELSE CHOOSE i \in pending : \A j \in pending : i <= j

\* The pending call that a response answers.
Addressee(id) == id

\* resolve forgets the entry before it sends.
Forget(id) == pending \ {id}

resolve(id, response) ==
    /\ pending' = Forget(Addressee(id))
    /\ call' = Send(pending \cap {Addressee(id)}, response)

-----------------------------------------------------------------------------
(* Run.                                                                    *)

RunStart ==
    /\ stage = "idle" /\ ~closed
    /\ stage' = "connecting"
    /\ UNCHANGED <<conn, attempt, authID, pending, nextID, closed, cancelled, backoff,
                   requestMu, call, channelVars>>

OpenPipe ==
    /\ stage = "connecting" /\ ~cancelled /\ pipe.server = "listening" /\ pipe.n < MaxConns
    /\ pipe' = [n |-> pipe.n + 1, client |-> TRUE, server |-> "connected",
                c2s |-> <<>>, s2c |-> <<>>]
    /\ attempt' = pipe.n + 1 /\ stage' = "awaiting_hello"
    /\ UNCHANGED <<conn, authID, pending, nextID, closed, cancelled, backoff, requestMu,
                   call, faults>>

\* No instance is listening, or its server is not the trusted one.
OpenFails ==
    /\ stage = "connecting" /\ ~cancelled
    /\ IF pipe.server = "listening" THEN Fault ELSE UNCHANGED faults
    /\ stage' = "failed"
    /\ UNCHANGED <<conn, attempt, authID, pending, nextID, closed, cancelled, backoff,
                   requestMu, call, pipe>>

ReadHello ==
    /\ stage = "awaiting_hello" /\ Connected(attempt)
    /\ \E r \in readNamedPipeFrame(pipe.s2c) :
         /\ pipe' = [pipe EXCEPT !.s2c = r.rest]
         /\ stage' = IF r.frame.type = "hello" THEN "authenticating" ELSE "ending"
    /\ UNCHANGED <<conn, attempt, authID, pending, nextID, closed, cancelled, backoff,
                   requestMu, call, faults>>

\* Allocates an identifier and writes Authenticate, under requestMu.
Authenticate ==
    /\ stage = "authenticating" /\ requestMu = "none" /\ nextID <= MaxId
    /\ authID' = nextID /\ nextID' = nextID + 1
    /\ \/ /\ Connected(attempt)
          /\ pipe' = [pipe EXCEPT !.c2s = Append(@, Frame("authenticate", nextID, "none", TRUE))]
          /\ stage' = "authenticate_sent" /\ UNCHANGED faults
       \/ /\ IF Connected(attempt) THEN Fault ELSE UNCHANGED faults
          /\ stage' = "ending" /\ UNCHANGED pipe
    /\ UNCHANGED <<conn, attempt, pending, closed, cancelled, backoff, requestMu, call>>

\* A client closed during the handshake does not publish the connection.
MayPublish == ~closed

ReadAuthenticated ==
    /\ stage = "authenticate_sent" /\ Connected(attempt)
    /\ \E r \in readNamedPipeFrame(pipe.s2c) :
         LET accepted == /\ r.frame.type = "response" /\ r.frame.id = authID
                         /\ r.frame.op = "authenticate" /\ r.frame.ok /\ MayPublish
         IN  /\ pipe' = [pipe EXCEPT !.s2c = r.rest]
             /\ stage' = IF accepted THEN "authenticated" ELSE "ending"
             /\ conn' = IF accepted THEN attempt ELSE conn
    /\ authID' = 0
    /\ UNCHANGED <<attempt, pending, nextID, closed, cancelled, backoff, requestMu,
                   call, faults>>

\* readConnection: a response, a Pong or a delivery the injector accepts.
ReadFrame ==
    /\ stage = "authenticated" /\ Connected(attempt)
    /\ \E r \in readNamedPipeFrame(pipe.s2c) :
         /\ pipe' = [pipe EXCEPT !.s2c = r.rest]
         /\ \/ /\ r.frame.type \in {"response", "pong"}
               /\ resolve(r.frame.id, r.frame) /\ UNCHANGED <<stage, faults>>
            \/ /\ r.frame.type = "delivery" /\ UNCHANGED <<pending, call>>
               /\ \/ UNCHANGED <<stage, faults>>
                  \/ Fault /\ stage' = "ending"
            \/ /\ r.frame.type \notin {"response", "pong", "delivery"}
               /\ stage' = "ending" /\ UNCHANGED <<pending, call, faults>>
    /\ UNCHANGED <<conn, attempt, authID, nextID, closed, cancelled, backoff, requestMu>>

\* The read fails: the pipe is broken or the context is done; a handshake
\* read may also time out.
ReadFails ==
    /\ stage \in {"awaiting_hello", "authenticate_sent", "authenticated"}
    /\ IF Connected(attempt) /\ ~cancelled
       THEN stage # "authenticated" /\ Fault ELSE UNCHANGED faults
    /\ stage' = "ending"
    /\ UNCHANGED <<conn, attempt, authID, pending, nextID, closed, cancelled, backoff,
                   requestMu, call, pipe>>

\* runConnection has returned: the connection is closed, then detached.
CloseConnection ==
    /\ stage = "ending"
    /\ pipe' = IF pipe.n = attempt THEN ClientEndClosed(pipe) ELSE pipe
    /\ stage' = "failed" /\ attempt' = 0 /\ authID' = 0
    /\ UNCHANGED <<conn, pending, nextID, closed, cancelled, backoff, requestMu, call, faults>>

Detach ==
    /\ stage = "failed" /\ ~cancelled
    /\ detachLocked
    /\ stage' = "backoff"
    /\ UNCHANGED <<attempt, authID, nextID, closed, cancelled, backoff, requestMu, channelVars>>

nextNamedPipeReconnectBackoff(current) ==
    IF current >= ReconnectMax \/ current > ReconnectMax \div 2 THEN ReconnectMax ELSE current * 2

\* runConnection never returns nil, so the backoff is never reset.
Reconnect ==
    /\ stage = "backoff" /\ ~cancelled
    /\ backoff' = nextNamedPipeReconnectBackoff(backoff)
    /\ stage' = "connecting"
    /\ UNCHANGED <<conn, attempt, authID, pending, nextID, closed, cancelled, requestMu,
                   call, channelVars>>

\* Run returns; its deferred function detaches.
RunStop ==
    /\ stage \in {"connecting", "failed", "backoff"} /\ cancelled
    /\ detachLocked
    /\ stage' = "stopped"
    /\ UNCHANGED <<attempt, authID, nextID, closed, cancelled, backoff, requestMu, channelVars>>

CancelRun ==
    /\ stage \notin {"idle", "stopped"} /\ ~cancelled /\ Fault
    /\ cancelled' = TRUE
    /\ UNCHANGED <<stage, conn, attempt, authID, pending, nextID, closed, backoff, requestMu,
                   call, pipe>>

ClientClose ==
    /\ ~closed /\ Fault
    /\ closed' = TRUE
    /\ detachLocked
    /\ cancelled' = (cancelled \/ stage \notin {"idle", "stopped"})
    /\ pipe' = IF conn # 0 /\ conn = pipe.n THEN ClientEndClosed(pipe) ELSE pipe
    /\ UNCHANGED <<stage, attempt, authID, nextID, backoff, requestMu>>

-----------------------------------------------------------------------------
(* call.                                                                   *)

X_HoldsNothing(c) == "none"

\* requestMu stays with the caller while it writes.
Holds(c) == c

Op(c) == IF c \in Pingers THEN "ping" ELSE "operation"

CallBegins(c) ==
    /\ call[c].at \in {"idle", "returned"} /\ requestMu = "none"
    /\ ~closed /\ conn # 0 /\ Cardinality(pending) < MaxPending /\ nextID <= MaxId
    /\ pending' = pending \cup {nextID} /\ nextID' = nextID + 1
    /\ call' = [call EXCEPT ![c] = [NoCall EXCEPT !.at = "writing", !.id = nextID, !.on = conn]]
    /\ requestMu' = Holds(c)
    /\ UNCHANGED <<stage, conn, attempt, authID, closed, cancelled, backoff, channelVars>>

Unlock(c) == requestMu' = IF requestMu = c THEN "none" ELSE requestMu

CallWritten(c) ==
    /\ call[c].at = "writing" /\ Connected(call[c].on)
    /\ pipe' = [pipe EXCEPT !.c2s = Append(@, Frame(Op(c), call[c].id, "none", TRUE))]
    /\ call' = [call EXCEPT ![c].at = "waiting"]
    /\ Unlock(c)
    /\ UNCHANGED <<stage, conn, attempt, authID, pending, nextID, closed, cancelled, backoff,
                   faults>>

\* A call that returns an error leaves nothing behind.
Returned(c, ok, answer) ==
    [call EXCEPT ![c] = IF ok THEN [NoCall EXCEPT !.at = "returned", !.id = call[c].id,
                                                  !.ok = TRUE, !.answer = answer]
                        ELSE [NoCall EXCEPT !.at = "returned"]]

\* The write fails; the connection is left as it is.
CallWriteFails(c) ==
    /\ call[c].at = "writing"
    /\ IF Connected(call[c].on) THEN
         /\ Fault
         /\ \E s \in FailedWrites(pipe.c2s, Frame(Op(c), call[c].id, "none", TRUE)) :
              pipe' = [pipe EXCEPT !.c2s = s]
       ELSE UNCHANGED channelVars
    /\ pending' = pending \ {call[c].id}
    /\ call' = Returned(c, FALSE, Garbage)
    /\ Unlock(c)
    /\ UNCHANGED <<stage, conn, attempt, authID, nextID, closed, cancelled, backoff>>

\* The response, a status other than OK included.
CallReturns(c) ==
    /\ call[c].at = "waiting" /\ call[c].box # <<>>
    /\ call' = Returned(c, Head(call[c].box).ok, Head(call[c].box))
    /\ UNCHANGED <<stage, conn, attempt, authID, pending, nextID, closed, cancelled, backoff,
                   requestMu, channelVars>>

CallCancelled(c) ==
    /\ call[c].at = "waiting" /\ Fault
    /\ pending' = pending \ {call[c].id}
    /\ call' = Returned(c, FALSE, Garbage)
    /\ UNCHANGED <<stage, conn, attempt, authID, nextID, closed, cancelled, backoff,
                   requestMu, pipe>>

RunSteps ==
    \/ RunStart \/ OpenPipe \/ OpenFails \/ ReadHello \/ Authenticate \/ ReadAuthenticated
    \/ ReadFrame \/ ReadFails \/ CloseConnection \/ Detach \/ Reconnect \/ RunStop

CallSteps(c) == CallWritten(c) \/ CallWriteFails(c) \/ CallReturns(c)

ClientNext ==
    \/ RunSteps \/ CancelRun \/ ClientClose
    \/ \E c \in Callers : CallSteps(c) \/ CallCancelled(c) \/ CallBegins(c)

Stages == {"idle", "connecting", "awaiting_hello", "authenticating", "authenticate_sent",
           "authenticated", "ending", "failed", "backoff", "stopped"}

ClientTypeOK ==
    /\ stage \in Stages /\ conn \in 0..MaxConns /\ attempt \in 0..MaxConns
    /\ authID \in 0..MaxId /\ pending \subseteq 1..MaxId /\ nextID \in 1..MaxId + 1
    /\ closed \in BOOLEAN /\ cancelled \in BOOLEAN
    /\ backoff \in ReconnectMin..ReconnectMax
    /\ requestMu \in Callers \cup {"none"}
    /\ \A c \in Callers :
         /\ call[c].at \in {"idle", "writing", "waiting", "returned"}
         /\ call[c].id \in 0..MaxId /\ call[c].on \in 0..MaxConns
         /\ call[c].ok \in BOOLEAN
=============================================================================
