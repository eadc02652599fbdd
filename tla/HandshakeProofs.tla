--------------------------- MODULE HandshakeProofs ---------------------------
(***************************************************************************)
(* Proofs about the dialer over the multipath transport, for any finite    *)
(* set of paths and any number of attempts and refreshes.  A step of the   *)
(* dialer or of the session is, for the transport, one of TransportStep;   *)
(* the parts of the invariant that speak of the transport are kept by      *)
(* those, the one that ties the dialer to Close by the steps of Handshake. *)
(***************************************************************************)
EXTENDS Handshake, TLAPS, FiniteSetTheorems

Packets == {"ack", "other"}

\* The read loops and the merged channel.
ReadInv ==
    /\ reader \in [Paths -> {"reading", "holding", "cancelling", "leaving", "done"}]
    /\ held \in [Paths -> Packets \cup {"none"}]
    /\ \A p \in Paths : (held[p] # "none") <=> (reader[p] = "holding")
    /\ reads \in Seq(Packets) /\ Len(reads) <= Capacity

\* The sockets: closed once, and before their read loop is done.
PathInv ==
    /\ pathAlive \in [Paths -> BOOLEAN]
    /\ socket \in [Paths -> {"open", "closed"}]
    /\ closes \in [Paths -> {0, 1}]
    /\ \A p \in Paths : socket[p] = "open" => closes[p] = 0
    /\ \A p \in Paths : reader[p] = "done" => socket[p] = "closed"

\* The end of the transport: the finisher waits for the read loops, Close for the
\* finisher, and whoever sees no live path finds the terminal error set.
EndInv ==
    /\ finisher \in {"waiting", "settled", "done"}
    /\ terminalErr \in {"none", "closed", "failed"}
    /\ closer \in {"none", "marked", "closing", "done"}
    /\ finisher # "waiting" => \A p \in Paths : reader[p] = "done"
    /\ closing => terminalErr # "none"
    /\ (\A p \in Paths : ~pathAlive[p]) => terminalErr # "none"
    /\ closer = "done" => finisher = "done" /\ \A p \in Paths : socket[p] = "closed"

WriteResults == {"none", "running", "ok", "error"}
Writes == [at : {"idle", "awaiting", "returned"}, indexes : SUBSET Paths,
           res : [Paths -> WriteResults], result : {"none", "nil", "error"}]

WriteInv == write \in Writes /\ NilMeansSent

AuthInv ==
    /\ request \in 0..MaxNonce /\ nonce = request
    /\ chal \in Nat /\ AnswerReady

DialInv ==
    /\ attempt \in 1..MaxHandshakeAttempts
    /\ deadline \in BOOLEAN /\ callDone \in BOOLEAN
    /\ dial = "closing" => closer # "none"
    /\ dial = "failed" /\ options = "valid" => closer = "done"

Inv == ReadInv /\ PathInv /\ EndInv /\ WriteInv /\ AuthInv /\ DialInv

-----------------------------------------------------------------------------
\* What the user of the transport does to it besides calling its operations: take
\* a packet from the channel, forget a write, stop telling acknowledgments apart.
takesPacket ==
    /\ reads # <<>> /\ reads' = Tail(reads)
    /\ UNCHANGED <<reader, held, pathVars, endVars, write, authVars>>

clearsWrite == write' = NoWrite /\ UNCHANGED <<readVars, pathVars, endVars, authVars>>

forgetsAcks ==
    /\ reads' = [i \in DOMAIN reads |-> plain(reads[i])]
    /\ held' = [p \in Paths |-> plain(held[p])]
    /\ UNCHANGED <<reader, pathVars, endVars, write, authVars>>

ReadStep ==
    \/ \E p \in Paths : \/ \E packet \in Packets : receive(p, packet)
                        \/ deliver(p) \/ abandon(p) \/ pathTerminated(p) \/ lastCancels(p) \/ leave(p)
    \/ takesPacket \/ forgetsAcks

EndStep ==
    \/ finishSettles \/ finishCloses \/ closeMarks \/ closeCancels \/ closeReturns
    \/ \E p \in Paths : closeClosesPath(p)

WriteStep ==
    \/ WritePacket \/ (\E p \in Paths : published(p)) \/ clearsWrite
    \/ \E done \in BOOLEAN : writeReturns(done)

AuthStep ==
    \/ refreshBegins \/ (\E out \in SUBSET Paths : refreshSends(out))
    \/ \E p \in Paths : challenged(p)

TransportStep == ReadStep \/ EndStep \/ WriteStep \/ AuthStep \/ UNCHANGED transportVars

\* The steps of the dialer and of the session are steps of the transport.
LEMMA StepsOfTransport == DialInv /\ [Next]_vars => TransportStep
<1> SUFFICES ASSUME DialInv, [Next]_vars PROVE TransportStep
    OBVIOUS
<1>1. CASE DialSteps
  <2>1. CASE dialSends
    BY <2>1 DEF dialSends, TransportStep, WriteStep
  <2>2. CASE dialExpires \/ dialSendFails \/ dialExhausted \/ dialReadFails \/ enableFails
    BY <2>2 DEF dialExpires, dialSendFails, dialExhausted, dialReadFails, enableFails, fails, TransportStep, EndStep
  <2>3. CASE dialSent
    BY <2>3 DEF dialSent, TransportStep, WriteStep, clearsWrite
  <2>4. CASE dialRetries \/ sessionRefused \/ dialFailed
    BY <2>4 DEF dialRetries, sessionRefused, dialFailed, TransportStep
  <2>5. CASE dialReads
    BY <2>5 DEF dialReads, TransportStep, ReadStep, takesPacket
  <2>6. CASE enableBegins
    BY <2>6 DEF enableBegins, TransportStep, AuthStep
  <2>7. CASE enableSends
    BY <2>7 DEF enableSends, TransportStep, AuthStep
  <2>8. CASE makeSession
    BY <2>8 DEF makeSession, TransportStep, ReadStep, forgetsAcks
  <2> QED BY <1>1, <2>1, <2>2, <2>3, <2>4, <2>5, <2>6, <2>7, <2>8 DEF DialSteps
<1>2. CASE passes
  BY <1>2 DEF passes, TransportStep
<1>3. CASE Reading
  BY <1>3 DEF Reading, ReaderSteps, TransportStep, ReadStep, EndStep
<1>4. CASE Closing
  BY <1>4 DEF Closing, CloserSteps, TransportStep, EndStep
<1>5. CASE Writing
  <2>1. CASE \E p \in Paths : published(p)
    BY <2>1 DEF TransportStep, WriteStep
  <2>2. CASE writeReturns(IF dial = "session" THEN callDone ELSE deadline)
    <3>1. (IF dial = "session" THEN callDone ELSE deadline) \in BOOLEAN
      BY Zenon DEF DialInv
    <3> QED BY <2>2, <3>1 DEF TransportStep, WriteStep
  <2> QED BY <1>5, <2>1, <2>2 DEF Writing
<1>6. CASE arrives
  BY <1>6 DEF arrives, TransportStep, ReadStep, AuthStep, Packets
<1>7. CASE pathFails
  BY <1>7 DEF pathFails, TransportStep, ReadStep
<1>8. CASE sessionReads
  BY <1>8 DEF sessionReads, TransportStep, ReadStep, takesPacket
<1>9. CASE sessionWrites \/ sessionWritten
  BY <1>9 DEF sessionWrites, sessionWritten, TransportStep, WriteStep, clearsWrite
<1>10. CASE sessionRefreshes
  BY <1>10 DEF sessionRefreshes, TransportStep, AuthStep
<1>11. CASE sessionCloses
  BY <1>11 DEF sessionCloses, TransportStep, EndStep
<1>12. CASE UNCHANGED vars
  BY <1>12 DEF vars, TransportStep
<1> QED BY <1>1, <1>2, <1>3, <1>4, <1>5, <1>6, <1>7, <1>8, <1>9, <1>10, <1>11, <1>12 DEF Next

-----------------------------------------------------------------------------
\* The channel holds a natural number of packets.
LEMMA CapacityNat == Capacity \in Nat
BY PathsAssumption, FS_CardinalityType DEF Capacity

\* The read loops and the channel keep their types; a packet is held exactly while
\* its read loop waits for the channel.
LEMMA ReadStepKeeps == Inv /\ TransportStep => ReadInv'
<1> SUFFICES ASSUME Inv, TransportStep PROVE ReadInv'
    OBVIOUS
<1> USE CapacityNat DEF Inv, ReadInv, Packets, goto
<1>1. CASE ReadStep
  <2>1. ASSUME NEW p \in Paths, NEW packet \in Packets, receive(p, packet) PROVE ReadInv'
    BY <2>1 DEF receive
  <2>2. ASSUME NEW p \in Paths, deliver(p) PROVE ReadInv'
    <3>1. held[p] \in Packets
      BY <2>2 DEF deliver
    <3>2. reads' \in Seq(Packets) /\ Len(reads') = Len(reads) + 1
      BY <2>2, <3>1 DEF deliver
    <3> QED BY <2>2, <3>2 DEF deliver
  <2>3. ASSUME NEW p \in Paths, abandon(p) \/ lastCancels(p) \/ leave(p) PROVE ReadInv'
    BY <2>3 DEF abandon, lastCancels, leave
  <2>4. ASSUME NEW p \in Paths, pathTerminated(p) PROVE ReadInv'
    BY <2>4 DEF pathTerminated
  <2>5. CASE takesPacket
    BY <2>5 DEF takesPacket
  <2>6. CASE forgetsAcks
    <3>1. reads' \in Seq(Packets) /\ Len(reads') = Len(reads)
      <4>1. DOMAIN reads = 1..Len(reads) /\ Len(reads) \in Nat
        OBVIOUS
      <4>2. \A i \in 1..Len(reads) : plain(reads[i]) \in Packets
        BY DEF plain
      <4> QED BY <2>6, <4>1, <4>2 DEF forgetsAcks
    <3>2. held' \in [Paths -> Packets \cup {"none"}] /\ \A p \in Paths : (held'[p] # "none") <=> (held[p] # "none")
      BY <2>6 DEF forgetsAcks, plain
    <3> QED BY <2>6, <3>1, <3>2 DEF forgetsAcks
  <2> QED BY <1>1, <2>1, <2>2, <2>3, <2>4, <2>5, <2>6 DEF ReadStep
<1>2. CASE EndStep
  BY <1>2 DEF EndStep, finishSettles, finishCloses, closeMarks, closeCancels, closeReturns, closeClosesPath, readVars
<1>3. CASE WriteStep
  BY <1>3 DEF WriteStep, WritePacket, published, clearsWrite, writeReturns, readVars
<1>4. CASE AuthStep
  BY <1>4 DEF AuthStep, refreshBegins, refreshSends, challenged, readVars
<1>5. CASE UNCHANGED transportVars
  BY <1>5 DEF transportVars, readVars
<1> QED BY <1>1, <1>2, <1>3, <1>4, <1>5 DEF TransportStep

\* A path is closed by its read loop or by Close, once, and no read loop is done
\* before its socket is closed.
LEMMA PathStepKeeps == Inv /\ TransportStep => PathInv'
<1> SUFFICES ASSUME Inv, TransportStep PROVE PathInv'
    OBVIOUS
<1> USE DEF Inv, ReadInv, PathInv, goto
<1>1. CASE ReadStep
  <2>1. ASSUME NEW p \in Paths, NEW packet \in Packets, receive(p, packet) PROVE PathInv'
    BY <2>1 DEF receive, pathVars
  <2>2. ASSUME NEW p \in Paths, deliver(p) \/ abandon(p) \/ lastCancels(p) PROVE PathInv'
    BY <2>2 DEF deliver, abandon, lastCancels, pathVars
  <2>3. ASSUME NEW p \in Paths, leave(p) PROVE PathInv'
    BY <2>3 DEF leave, closePath
  <2>4. ASSUME NEW p \in Paths, pathTerminated(p) PROVE PathInv'
    BY <2>4 DEF pathTerminated
  <2>5. CASE takesPacket \/ forgetsAcks
    BY <2>5 DEF takesPacket, forgetsAcks, pathVars
  <2> QED BY <1>1, <2>1, <2>2, <2>3, <2>4, <2>5 DEF ReadStep
<1>2. CASE EndStep
  <2>1. ASSUME NEW p \in Paths, closeClosesPath(p) PROVE PathInv'
    BY <2>1 DEF closeClosesPath, closePath, readVars
  <2>2. CASE finishSettles \/ finishCloses \/ closeMarks \/ closeCancels \/ closeReturns
    BY <2>2 DEF finishSettles, finishCloses, closeMarks, closeCancels, closeReturns, readVars, pathVars
  <2> QED BY <1>2, <2>1, <2>2 DEF EndStep
<1>3. CASE WriteStep
  BY <1>3 DEF WriteStep, WritePacket, published, clearsWrite, writeReturns, readVars, pathVars
<1>4. CASE AuthStep
  BY <1>4 DEF AuthStep, refreshBegins, refreshSends, challenged, readVars, pathVars
<1>5. CASE UNCHANGED transportVars
  BY <1>5 DEF transportVars, readVars, pathVars
<1> QED BY <1>1, <1>2, <1>3, <1>4, <1>5 DEF TransportStep

\* The finisher comes after the read loops and Close after the finisher; the loop
\* that takes the last path away sets the terminal error in the same step.
LEMMA EndStepKeeps == Inv /\ TransportStep => EndInv'
<1> SUFFICES ASSUME Inv, TransportStep PROVE EndInv'
    OBVIOUS
<1> USE DEF Inv, ReadInv, PathInv, EndInv, goto
<1>1. CASE ReadStep
  <2>1. ASSUME NEW p \in Paths, NEW packet \in Packets, receive(p, packet) PROVE EndInv'
    BY <2>1 DEF receive, pathVars, endVars
  <2>2. ASSUME NEW p \in Paths, deliver(p) \/ abandon(p) \/ lastCancels(p) PROVE EndInv'
    BY <2>2 DEF deliver, abandon, lastCancels, pathVars, endVars
  <2>3. ASSUME NEW p \in Paths, leave(p) PROVE EndInv'
    BY <2>3 DEF leave, closePath, endVars
  <2>4. ASSUME NEW p \in Paths, pathTerminated(p) PROVE EndInv'
    <3> DEFINE remaining == {q \in Paths \ {p} : pathAlive[q]}
    <3>1. terminalErr' = terminal(remaining) /\ terminalErr' \in {"none", "closed", "failed"}
      BY <2>4 DEF pathTerminated, terminal
    <3>2. terminalErr # "none" => terminalErr' # "none"
      BY <3>1 DEF terminal
    <3>3. (\A q \in Paths : ~pathAlive'[q]) => terminalErr' # "none"
      <4>1. SUFFICES ASSUME \A q \in Paths : ~pathAlive'[q] PROVE terminalErr' # "none"
        OBVIOUS
      <4>2. remaining = {}
        BY <2>4, <4>1 DEF pathTerminated
      <4> QED BY <3>1, <4>2 DEF terminal
    <3> QED BY <2>4, <3>1, <3>2, <3>3 DEF pathTerminated
  <2>5. CASE takesPacket \/ forgetsAcks
    BY <2>5 DEF takesPacket, forgetsAcks, pathVars, endVars
  <2> QED BY <1>1, <2>1, <2>2, <2>3, <2>4, <2>5 DEF ReadStep
<1>2. CASE EndStep
  <2>1. ASSUME NEW p \in Paths, closeClosesPath(p) PROVE EndInv'
    BY <2>1 DEF closeClosesPath, closePath, readVars, endVars
  <2>2. CASE finishSettles
    BY <2>2 DEF finishSettles, allRead, readVars, pathVars
  <2>3. CASE finishCloses
    BY <2>3 DEF finishCloses, readVars, pathVars
  <2>4. CASE closeMarks
    BY <2>4 DEF closeMarks, kept, readVars, pathVars
  <2>5. CASE closeCancels
    BY <2>5 DEF closeCancels, readVars, pathVars
  <2>6. CASE closeReturns
    BY <2>6 DEF closeReturns, readVars, pathVars
  <2> QED BY <1>2, <2>1, <2>2, <2>3, <2>4, <2>5, <2>6 DEF EndStep
<1>3. CASE WriteStep
  BY <1>3 DEF WriteStep, WritePacket, published, clearsWrite, writeReturns, readVars, pathVars, endVars
<1>4. CASE AuthStep
  BY <1>4 DEF AuthStep, refreshBegins, refreshSends, challenged, readVars, pathVars, endVars
<1>5. CASE UNCHANGED transportVars
  BY <1>5 DEF transportVars, readVars, pathVars, endVars
<1> QED BY <1>1, <1>2, <1>3, <1>4, <1>5 DEF TransportStep

\* A write returns success with a path that has taken the packet: the goroutine of
\* a path published it, or, with no path alive, the terminal error is no nil.
LEMMA WriteStepKeeps == Inv /\ TransportStep => WriteInv'
<1> SUFFICES ASSUME Inv, TransportStep PROVE WriteInv'
    OBVIOUS
<1> USE DEF Inv, WriteInv, Writes, WriteResults, NilMeansSent
<1>1. CASE WriteStep
  <2>1. CASE WritePacket
    <3>1. CASE Live # {}
      BY <2>1, <3>1 DEF WritePacket, Live
    <3>2. CASE Live = {}
      <4>1. \A p \in Paths : ~pathAlive[p]
        BY <3>2 DEF Live
      <4>2. asResult(terminalErr) = "error"
        BY <4>1 DEF asResult, EndInv
      <4>3. write' = [at |-> "returned", indexes |-> {}, res |-> [p \in Paths |-> "none"], result |-> "error"]
        BY <2>1, <3>2, <4>2 DEF WritePacket, NoWrite
      <4> QED BY <4>3
    <3> QED BY <3>1, <3>2
  <2>2. ASSUME NEW p \in Paths, published(p) PROVE WriteInv'
    BY <2>2 DEF published
  <2>3. CASE clearsWrite
    BY <2>3 DEF clearsWrite, NoWrite
  <2>4. ASSUME NEW done \in BOOLEAN, writeReturns(done) PROVE WriteInv'
    <3>1. PICK r \in {"nil", "error"} : answer(r) /\ (r = "nil" => sent)
      BY <2>4 DEF writeReturns
    <3>2. write' = [at |-> "returned", indexes |-> {}, res |-> write.res, result |-> r]
      BY <3>1 DEF answer, NoWrite
    <3> QED BY <3>1, <3>2 DEF sent
  <2> QED BY <1>1, <2>1, <2>2, <2>3, <2>4 DEF WriteStep
<1>2. CASE ReadStep
  BY <1>2 DEF ReadStep, receive, deliver, abandon, pathTerminated, lastCancels, leave, takesPacket, forgetsAcks
<1>3. CASE EndStep
  BY <1>3 DEF EndStep, finishSettles, finishCloses, closeMarks, closeCancels, closeReturns, closeClosesPath
<1>4. CASE AuthStep
  BY <1>4 DEF AuthStep, refreshBegins, refreshSends, challenged
<1>5. CASE UNCHANGED transportVars
  BY <1>5 DEF transportVars
<1> QED BY <1>1, <1>2, <1>3, <1>4, <1>5 DEF TransportStep

\* The nonce is stored with the request, so that every challenge under way is to a
\* nonce that is stored or was.
LEMMA AuthStepKeeps == Inv /\ TransportStep => AuthInv'
<1> SUFFICES ASSUME Inv, TransportStep PROVE AuthInv'
    OBVIOUS
<1> USE PathsAssumption DEF Inv, AuthInv, AnswerReady
<1>1. CASE AuthStep
  <2>1. CASE refreshBegins
    BY <2>1 DEF refreshBegins, stored
  <2>2. ASSUME NEW out \in SUBSET Paths, refreshSends(out) PROVE AuthInv'
    BY <2>2 DEF refreshSends
  <2>3. ASSUME NEW p \in Paths, challenged(p) PROVE AuthInv'
    BY <2>3 DEF challenged
  <2> QED BY <1>1, <2>1, <2>2, <2>3 DEF AuthStep
<1>2. CASE ReadStep
  BY <1>2 DEF ReadStep, receive, deliver, abandon, pathTerminated, lastCancels, leave, takesPacket, forgetsAcks, authVars
<1>3. CASE EndStep
  BY <1>3 DEF EndStep, finishSettles, finishCloses, closeMarks, closeCancels, closeReturns, closeClosesPath, authVars
<1>4. CASE WriteStep
  BY <1>4 DEF WriteStep, WritePacket, published, clearsWrite, writeReturns, authVars
<1>5. CASE UNCHANGED transportVars
  BY <1>5 DEF transportVars, authVars
<1> QED BY <1>1, <1>2, <1>3, <1>4, <1>5 DEF TransportStep

\* The dialer reports a failure only when its Close has returned, unless
\* NewDatagramSession refused the options.
LEMMA DialStepKeeps == Inv /\ [Next]_vars => DialInv'
<1> SUFFICES ASSUME Inv, [Next]_vars PROVE DialInv'
    OBVIOUS
<1> USE AttemptsAssumption DEF Inv, DialInv, to, stay
<1>1. CASE DialSteps
  <2>1. CASE dialSends
    BY <2>1 DEF dialSends, WritePacket, endVars
  <2>2. CASE dialExpires \/ dialSendFails \/ dialExhausted \/ dialReadFails \/ enableFails
    BY <2>2 DEF dialExpires, dialSendFails, dialExhausted, dialReadFails, enableFails, fails, closeMarks
  <2>3. CASE dialSent
    BY <2>3 DEF dialSent, endVars
  <2>4. CASE dialRetries
    BY <2>4 DEF dialRetries, last, transportVars, endVars
  <2>5. CASE dialFailed
    BY <2>5 DEF dialFailed, transportVars, endVars
  <2>6. CASE dialReads
    BY <2>6 DEF dialReads, endVars
  <2>7. CASE enableBegins \/ enableSends
    BY <2>7 DEF enableBegins, enableSends, refreshBegins, refreshSends, endVars
  <2>8. CASE makeSession
    <3>1. deadline' \in BOOLEAN /\ callDone' \in BOOLEAN
      BY <2>8, Zenon DEF makeSession, forget
    <3> QED BY <2>8, <3>1 DEF makeSession, forget, endVars
  <2>9. CASE sessionRefused
    <3>1. deadline' \in BOOLEAN /\ callDone' \in BOOLEAN
      BY <2>9, Zenon DEF sessionRefused, forget
    <3> QED BY <2>9, <3>1 DEF sessionRefused, forget, transportVars, endVars
  <2> QED BY <1>1, <2>1, <2>2, <2>3, <2>4, <2>5, <2>6, <2>7, <2>8, <2>9 DEF DialSteps
<1>2. CASE passes
  BY <1>2 DEF passes, transportVars, endVars
<1>3. CASE Reading \/ pathFails
  BY <1>3 DEF Reading, pathFails, ReaderSteps, deliver, abandon, lastCancels, leave, pathTerminated,
              finishSettles, finishCloses, endVars, dialVars
<1>4. CASE Closing
  BY <1>4 DEF Closing, CloserSteps, closeCancels, closeClosesPath, closeReturns, endVars, dialVars
<1>5. CASE Writing
  BY <1>5 DEF Writing, published, writeReturns, endVars, dialVars
<1>6. CASE arrives
  BY <1>6 DEF arrives, receive, challenged, endVars, dialVars
<1>7. CASE sessionReads \/ sessionWrites \/ sessionWritten
  BY <1>7 DEF sessionReads, sessionWrites, sessionWritten, WritePacket, endVars, dialVars
<1>8. CASE sessionRefreshes
  BY <1>8 DEF sessionRefreshes, refreshBegins, refreshSends, endVars, dialVars
<1>9. CASE sessionCloses
  BY <1>9 DEF sessionCloses, closeMarks, dialVars
<1>10. CASE UNCHANGED vars
  BY <1>10 DEF vars, transportVars, endVars, dialVars
<1> QED BY <1>1, <1>2, <1>3, <1>4, <1>5, <1>6, <1>7, <1>8, <1>9, <1>10 DEF Next

-----------------------------------------------------------------------------
\* The invariant holds of the transport that NewMultipathTransport makes.
LEMMA InvInit == Init => Inv
<1> SUFFICES ASSUME Init PROVE Inv
    OBVIOUS
<1> USE PathsAssumption, AttemptsAssumption DEF Init, TransportInit
<1>1. ReadInv
  <2>1. reads = <<>> /\ Len(<<>>) = 0 /\ <<>> \in Seq(Packets)
    OBVIOUS
  <2> QED BY <2>1, CapacityNat DEF ReadInv
<1>2. PathInv
  BY DEF PathInv
<1>3. EndInv
  BY DEF EndInv
<1>4. WriteInv
  BY DEF WriteInv, Writes, WriteResults, NilMeansSent, NoWrite
<1>5. AuthInv
  BY DEF AuthInv, AnswerReady
<1>6. DialInv
  <2>1. deadline \in BOOLEAN /\ callDone \in BOOLEAN
    BY Zenon
  <2> QED BY <2>1 DEF DialInv
<1> QED BY <1>1, <1>2, <1>3, <1>4, <1>5, <1>6 DEF Inv

(***************************************************************************)
(* The inductive invariant: the dialer, the read loops, the finisher,      *)
(* Close and the writers keep to their order in every interleaving.        *)
(***************************************************************************)
THEOREM InvHolds == Spec => []Inv
<1>1. Inv /\ [Next]_vars => Inv'
  <2> SUFFICES ASSUME Inv, [Next]_vars PROVE Inv'
    OBVIOUS
  <2>1. TransportStep
    BY StepsOfTransport DEF Inv
  <2> QED BY <2>1, ReadStepKeeps, PathStepKeeps, EndStepKeeps, WriteStepKeeps, AuthStepKeeps, DialStepKeeps DEF Inv
<1> QED BY <1>1, InvInit, PTL DEF Spec

(***************************************************************************)
(* The transport is sound for any number of paths: no read loop can send   *)
(* to the channel finishReads has closed, no path is closed twice although *)
(* its read loop and Close both close it, and no challenge is to a nonce   *)
(* that is not stored yet.                                                 *)
(***************************************************************************)
THEOREM TransportIsSound == Spec => []TransportSound
<1>1. Inv => TransportSound
  <2> SUFFICES ASSUME Inv PROVE TransportSound
    OBVIOUS
  <2>1. TypeOK
    BY PathsAssumption DEF Inv, ReadInv, PathInv, EndInv, WriteInv, Writes, AuthInv, DialInv, TypeOK
  <2>2. NoSendAfterClose /\ ClosedOnce
    BY DEF Inv, PathInv, EndInv, NoSendAfterClose, ClosedOnce
  <2> QED BY <2>1, <2>2 DEF Inv, AuthInv, TransportSound
<1> QED BY <1>1, InvHolds, PTL

(***************************************************************************)
(* WritePacket returns nil only when a path has taken the packet.  A dial  *)
(* that fails has closed every socket and ended every read loop before it  *)
(* returns its error, if its options were valid, as those of               *)
(* NewClientManager are; with others NewDatagramSession refuses at the end *)
(* of the handshake and its error leaves the transport open.               *)
(***************************************************************************)
THEOREM OutcomeIsSound == Spec => []OutcomeSound
<1>1. Inv => OutcomeSound
  BY DEF Inv, EndInv, WriteInv, DialInv, OutcomeSound, FailedIsClosed
<1> QED BY <1>1, InvHolds, PTL
=============================================================================
