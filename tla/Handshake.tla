------------------------------ MODULE Handshake ------------------------------
(***************************************************************************)
(* Dialling a session over the multipath transport: Hello is repeated with *)
(* growing intervals under one deadline until an acknowledgment is         *)
(* accepted, path authentication is enabled, and the session is made.      *)
(* Afterwards the session reads, writes and closes the transport.  The     *)
(* deadlines pass at any moment; the relay and the network answer with any *)
(* number of acknowledgments, late ones included, or with none.            *)
(***************************************************************************)
EXTENDS MultipathTransport

CONSTANT MaxHandshakeAttempts

ASSUME AttemptsAssumption == MaxHandshakeAttempts \in Nat \ {0}

VARIABLES
    options,      \* NewDatagramSession takes them ("valid") or refuses them ("invalid")
    dial,         \* where dialSessionWithTransportClock is
    attempt,
    attemptOver,  \* the deadline of this attempt has passed
    deadline,     \* the deadline or the caller's context of the whole dial
    helloed,      \* a Hello may be on its way to the relay
    callDone      \* the context of a session's write

dialVars == <<options, dial, attempt, attemptOver, deadline, helloed, callDone>>
vars == <<transportVars, dialVars>>

Init ==
    /\ TransportInit
    /\ options \in {"valid", "invalid"}
    /\ dial = "hello" /\ attempt = 1 /\ attemptOver = FALSE
    /\ deadline = FALSE /\ helloed = FALSE /\ callDone = FALSE

-----------------------------------------------------------------------------
(* The attempts                                                             *)

to(d) == dial' = d

\* Every failure but that of NewDatagramSession closes the transport before the
\* error is returned.
fails_Open == to("failed") /\ UNCHANGED transportVars
fails == to("closing") /\ closeMarks
stay == UNCHANGED <<options, attempt, attemptOver, deadline, helloed, callDone>>

dialSends ==
    /\ dial = "hello" /\ ~deadline /\ to("sending")
    /\ WritePacket
    /\ helloed' = TRUE
    /\ UNCHANGED <<options, attempt, attemptOver, deadline, callDone>>

dialExpires ==
    /\ dial \in {"hello", "receiving"} /\ deadline
    /\ fails /\ stay

dialSent ==
    /\ dial = "sending" /\ write.at = "returned" /\ write.result = "nil"
    /\ to("receiving") /\ attemptOver' = FALSE
    /\ write' = NoWrite
    /\ UNCHANGED <<readVars, pathVars, endVars, authVars, options, attempt, deadline, helloed, callDone>>

dialSendFails ==
    /\ dial = "sending" /\ write.at = "returned" /\ write.result = "error"
    /\ fails /\ stay

\* ReadPacket gives up with the attempt; the next attempt, or the end.
last == attempt = MaxHandshakeAttempts

dialRetries ==
    /\ dial = "receiving" /\ attemptOver /\ ~deadline /\ ~last
    /\ attempt' = attempt + 1 /\ to("hello")
    /\ UNCHANGED <<transportVars, options, attemptOver, deadline, helloed, callDone>>

dialExhausted ==
    /\ dial = "receiving" /\ attemptOver /\ ~deadline /\ last
    /\ fails /\ stay

\* ReadPacket returns a packet before the deadlines, which are checked again
\* before every read (a read that the deadline overtakes in the select could as
\* well have come just before it): anything but an acceptable acknowledgment is
\* skipped; path authentication follows unless migration is disabled.
dialReads ==
    /\ dial = "receiving" /\ ~attemptOver /\ ~deadline /\ reads # <<>>
    /\ reads' = Tail(reads)
    /\ \/ Head(reads) = "other" /\ UNCHANGED dial
       \/ Head(reads) = "ack" /\ dial' \in {"enabling", "making"}
    /\ stay /\ UNCHANGED <<reader, held, pathVars, endVars, write, authVars>>

\* The channel is closed: every path has failed.
drained == reads = <<>> /\ finisher = "done"
dialReadFails == dial = "receiving" /\ drained /\ fails /\ stay

-----------------------------------------------------------------------------
(* EnablePathAuthentication and NewDatagramSession                          *)

enableBegins ==
    /\ dial = "enabling" /\ to("enabled")
    /\ refreshBegins
    /\ stay

enableSends ==
    /\ dial = "enabled"
    /\ \E out \in (SUBSET Paths) \ {{}} : refreshSends(out)
    /\ to("making") /\ stay

\* No request could be written.
enableFails ==
    /\ dial \in {"enabling", "enabled"}
    /\ dial = "enabling" => cancelled
    /\ fails /\ stay

\* The session knows nothing of the attempts; an acknowledgment is to it a
\* packet like any other.
forget ==
    /\ attempt' = 1 /\ attemptOver' = FALSE /\ deadline' = FALSE /\ helloed' = FALSE
    /\ UNCHANGED <<options, callDone>>
plain(packet) == IF packet = "ack" THEN "other" ELSE packet

makeSession ==
    /\ dial = "making" /\ options = "valid" /\ to("session") /\ forget
    /\ reads' = [i \in DOMAIN reads |-> plain(reads[i])]
    /\ held' = [p \in Paths |-> plain(held[p])]
    /\ UNCHANGED <<reader, pathVars, endVars, write, authVars>>

\* NewDatagramSession refuses the FEC options, at which the dial itself does not look:
\* its error is returned and the transport stays open.
sessionRefused ==
    /\ dial = "making" /\ options = "invalid" /\ to("failed")
    /\ forget /\ UNCHANGED transportVars

dialFailed ==
    /\ dial = "closing" /\ closer = "done" /\ to("failed")
    /\ UNCHANGED transportVars /\ stay

DialSteps ==
    \/ dialSends \/ dialExpires \/ dialSent \/ dialSendFails \/ dialRetries \/ dialExhausted
    \/ dialReads \/ dialReadFails \/ enableBegins \/ enableSends \/ enableFails
    \/ makeSession \/ sessionRefused \/ dialFailed

-----------------------------------------------------------------------------
(* The session over the transport                                           *)

sessionReads ==
    /\ dial = "session" /\ reads # <<>> /\ reads' = Tail(reads)
    /\ UNCHANGED <<reader, held, pathVars, endVars, write, authVars, dialVars>>

sessionWrites ==
    /\ dial = "session" /\ write.at = "idle"
    /\ WritePacket
    /\ callDone' = FALSE
    /\ UNCHANGED <<options, dial, attempt, attemptOver, deadline, helloed>>

sessionWritten ==
    /\ dial = "session" /\ write.at = "returned" /\ write' = NoWrite
    /\ callDone' = FALSE
    /\ UNCHANGED <<readVars, pathVars, endVars, authVars, options, dial, attempt, attemptOver, deadline, helloed>>

sessionRefreshes ==
    /\ dial = "session" /\ nonce # 0
    /\ refreshBegins \/ (\E out \in SUBSET Paths : refreshSends(out))
    /\ UNCHANGED dialVars

sessionCloses == dial = "session" /\ closeMarks /\ UNCHANGED dialVars

-----------------------------------------------------------------------------
\* The deadlines, the network and the failure of a path.
passes ==
    /\ \/ dial = "receiving" /\ ~attemptOver /\ attemptOver' = TRUE /\ UNCHANGED <<deadline, callDone>>
       \/ /\ dial \in {"hello", "sending", "receiving"} /\ ~deadline
          /\ deadline' = TRUE /\ UNCHANGED <<attemptOver, callDone>>
       \/ /\ dial = "session" /\ write.at = "awaiting" /\ ~callDone
          /\ callDone' = TRUE /\ UNCHANGED <<attemptOver, deadline>>
    /\ UNCHANGED <<transportVars, options, dial, attempt, helloed>>

arrives ==
    /\ \E p \in Paths : \/ receive(p, "other")
                        \/ helloed /\ dial \in {"hello", "sending", "receiving"} /\ receive(p, "ack")
                        \/ challenged(p)
    /\ UNCHANGED dialVars

pathFails == (\E p \in Paths : pathTerminated(p)) /\ UNCHANGED dialVars

Reading == ReaderSteps /\ UNCHANGED dialVars
Closing == CloserSteps /\ UNCHANGED dialVars

Writing ==
    /\ \/ \E p \in Paths : published(p)
       \/ writeReturns(IF dial = "session" THEN callDone ELSE deadline)
    /\ UNCHANGED dialVars

Next ==
    \/ DialSteps \/ Reading \/ Closing \/ Writing \/ passes \/ arrives \/ pathFails
    \/ sessionReads \/ sessionWrites \/ sessionWritten \/ sessionRefreshes \/ sessionCloses

Spec == Init /\ [][Next]_vars

(***************************************************************************)
(* The dialer, the goroutines of the transport and the deadlines go on; a  *)
(* write to a UDP socket ends.  Nothing is assumed of the network, and no  *)
(* path fails and no session closes of necessity.                          *)
(***************************************************************************)
FairSpec ==
    /\ Spec
    /\ WF_vars(DialSteps) /\ WF_vars(Reading) /\ WF_vars(Closing)
    /\ WF_vars(Writing) /\ WF_vars(passes)

-----------------------------------------------------------------------------
\* Type invariant of the transport and the dialer.
TypeOK ==
    /\ reader \in [Paths -> {"reading", "holding", "cancelling", "leaving", "done"}]
    /\ \A p \in Paths : (held[p] # "none") <=> (reader[p] = "holding")
    /\ socket \in [Paths -> {"open", "closed"}]
    /\ Len(reads) <= Capacity
    /\ finisher \in {"waiting", "settled", "done"}
    /\ terminalErr \in {"none", "closed", "failed"}
    /\ closer \in {"none", "marked", "closing", "done"}
    /\ write.at \in {"idle", "awaiting", "returned"} /\ write.indexes \subseteq Paths
    /\ nonce \in 0..MaxNonce /\ request \in 0..MaxNonce
    /\ attempt \in 1..MaxHandshakeAttempts

(***************************************************************************)
(* WritePacket reports success only when a path has taken the packet: with *)
(* no live path the terminal error it returns is set already, although it  *)
(* is set by another goroutine (pathTerminated, activePathIndexes).        *)
(***************************************************************************)
NilMeansSent == write.at = "returned" /\ write.result = "nil" => \E p \in Paths : write.res[p] = "ok"

\* The merged channel is closed only when no read loop can still send to it
\* (finishReads), so that no send panics.
NoSendAfterClose == finisher = "done" => \A p \in Paths : reader[p] = "done"

\* Each path is closed at most once, though its read loop and Close both do.
ClosedOnce == \A p \in Paths : closes[p] <= 1

(***************************************************************************)
(* A challenge is never for a nonce the client has not stored yet: it is   *)
(* answered, unless a later refresh has replaced the nonce                 *)
(* (refreshPathAuthentication, handlePathControl).                         *)
(***************************************************************************)
AnswerReady == chal <= nonce

(***************************************************************************)
(* A dial that fails leaves nothing behind: every socket is closed and     *)
(* every goroutine of the transport has ended before the error is          *)
(* returned.  True of a dial with valid options only, which is what        *)
(* NewClientManager passes: sessionRefused leaves the transport open.      *)
(***************************************************************************)
FailedIsClosed ==
    dial = "failed" /\ options = "valid" =>
        \A p \in Paths : socket[p] = "closed" /\ reader[p] = "done"

\* A dial ends: with a session or an error, whatever the network does.
DialEnds == dial = "hello" ~> dial \in {"session", "failed"}

\* When the last path has failed, or Close was called, the channel is closed in
\* the end, so that whoever reads from the transport is told.
ReadersTold == (closing \/ \A p \in Paths : ~pathAlive[p]) ~> finisher = "done"

\* What a call returns is what happened: a write that succeeds was sent, and a dial
\* that fails, unless its options were invalid, has closed the transport.
OutcomeSound == NilMeansSent /\ FailedIsClosed

\* The transport is sound: nothing is sent on a closed channel, no path is closed
\* twice, and a challenge finds its nonce.
TransportSound == TypeOK /\ NoSendAfterClose /\ ClosedOnce /\ AnswerReady

\* Everybody is told: the dialer and whoever reads from the transport.
EverybodyTold == DialEnds /\ ReadersTold
=============================================================================
