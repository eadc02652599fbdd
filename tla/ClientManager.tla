--------------------------- MODULE ClientManager ---------------------------
(***************************************************************************)
(* The TGP client manager of internal/tgp/client_manager.go: callers that  *)
(* share one session, dial it on demand (one dial at a time, the others    *)
(* wait on the dialDone channel), and replace it when it fails; one read   *)
(* loop per session; and Close, which is irreversible.                     *)
(*                                                                         *)
(* A step is what happens under m.mu, or one blocking or externally        *)
(* visible operation between two such sections.  Dials are numbered; the   *)
(* dialDone channel and the session of a dial are named by its number, and *)
(* 0 stands for nil.  A dial and a session are external: a dial returns a  *)
(* session or an error, a session may die at any time, Close on it ends it.*)
(***************************************************************************)
EXTENDS Integers, FiniteSets

CONSTANTS
    Callers,            \* goroutines calling SendPacket or EnsureSession
    MaxDials            \* bound: dials ever started

ASSUME DialsAssumption == MaxDials \in Nat

VARIABLES
    pc,                 \* where each caller is
    hold,               \* the dial number a caller works with
    session,            \* ClientManager.session
    closed,             \* ClientManager.closed
    cancelled,          \* m.ctx is cancelled
    dialing,            \* ClientManager.dialing
    dialDone,           \* ClientManager.dialDone
    announced,          \* dialDone channels that were closed
    dials,              \* number of dials started
    life,               \* every session: "none", "established" or "closed"
    reader,             \* read loop of every session
    closer,             \* where Close is
    closing             \* dial and session Close works with

callers  == <<pc, hold>>
dialer   == <<dialing, dialDone, announced, dials>>
shutdown == <<cancelled, closed, closer, closing>>
vars     == <<callers, session, dialer, life, reader, shutdown>>

Dials == 1..MaxDials

Init ==
    /\ pc = [c \in Callers |-> "idle"]
    /\ hold = [c \in Callers |-> 0]
    /\ session = 0
    /\ closed = FALSE
    /\ cancelled = FALSE
    /\ dialing = FALSE
    /\ dialDone = 0
    /\ announced = {}
    /\ dials = 0
    /\ life = [n \in Dials |-> "none"]
    /\ reader = [n \in Dials |-> "none"]
    /\ closer = "idle"
    /\ closing = [dial |-> 0, session |-> 0]

Goto(c, place, n) ==
    /\ pc' = [pc EXCEPT ![c] = place]
    /\ hold' = [hold EXCEPT ![c] = n]

Usable(n) == n # 0 /\ life[n] = "established"

\* session.Close of a session, dead or alive.
CloseSession(n) == life' = [life EXCEPT ![n] = "closed"]

-----------------------------------------------------------------------------
(* Callers: SendPacket, EnsureSession and sessionFor.                      *)

call(c) ==
    /\ pc[c] = "idle"
    /\ Goto(c, "sessionFor", 0)
    /\ UNCHANGED <<session, dialer, life, reader, shutdown>>

\* The first locked section of sessionFor, one action for each way out of it.
refuseClosed(c) ==
    /\ pc[c] = "sessionFor"
    /\ closed
    /\ Goto(c, "idle", 0)
    /\ UNCHANGED <<session, dialer, life, reader, shutdown>>

useSession(c) ==
    /\ pc[c] = "sessionFor"
    /\ ~closed /\ Usable(session)
    /\ Goto(c, "send", session)
    /\ UNCHANGED <<session, dialer, life, reader, shutdown>>

awaitDial(c) ==
    /\ pc[c] = "sessionFor"
    /\ ~closed /\ ~Usable(session) /\ dialing
    /\ Goto(c, "wait", dialDone)
    /\ UNCHANGED <<session, dialer, life, reader, shutdown>>

\* Fault: whether another caller is dialling is not looked at.
mayDial_Concurrently == ~closed /\ ~Usable(session)

mayDial == ~closed /\ ~Usable(session) /\ ~dialing

startDial(c) ==
    /\ pc[c] = "sessionFor"
    /\ mayDial
    /\ dials < MaxDials
    /\ dials' = dials + 1
    /\ dialing' = TRUE
    /\ dialDone' = dials + 1
    /\ Goto(c, "dial", dials + 1)
    /\ UNCHANGED <<session, announced, life, reader, shutdown>>

\* Fault: a caller that lost the race for the dial is not woken.
isAnnounced_Never(n) == FALSE

isAnnounced(n) == n \in announced

\* The select of a waiting caller: the dial is over, the manager's context is
\* done, or the caller's own.
waitOver(c) ==
    /\ pc[c] = "wait"
    /\ \/ isAnnounced(hold[c]) /\ Goto(c, "sessionFor", 0)
       \/ cancelled /\ Goto(c, "idle", 0)
    /\ UNCHANGED <<session, dialer, life, reader, shutdown>>

giveUp(c) ==
    /\ pc[c] = "wait"
    /\ Goto(c, "idle", 0)
    /\ UNCHANGED <<session, dialer, life, reader, shutdown>>

\* dialSession returns; a cancelled dial may still have succeeded.
dialSucceeds(c) ==
    /\ pc[c] = "dial"
    /\ life' = [life EXCEPT ![hold[c]] = "established"]
    /\ Goto(c, "dialled", hold[c])
    /\ UNCHANGED <<session, dialer, reader, shutdown>>

dialFails(c) ==
    /\ pc[c] = "dial"
    /\ Goto(c, "dialled", hold[c])
    /\ UNCHANGED <<session, dialer, life, reader, shutdown>>

dialReset == dialing' = FALSE /\ dialDone' = 0

mayInstall(n) == ~closed /\ life[n] # "none"

\* The second locked section of sessionFor; readWG counts the read loop
\* before the lock is released.
install(c) ==
    /\ pc[c] = "dialled"
    /\ mayInstall(hold[c])
    /\ dialReset
    /\ session' = hold[c]
    /\ reader' = [reader EXCEPT ![hold[c]] = "counted"]
    /\ Goto(c, "announce", hold[c])
    /\ UNCHANGED <<announced, dials, life, shutdown>>

dialFailed(c) ==
    /\ pc[c] = "dialled"
    /\ ~closed /\ life[hold[c]] = "none"
    /\ dialReset
    /\ Goto(c, "announceFailure", hold[c])
    /\ UNCHANGED <<session, announced, dials, life, reader, shutdown>>

discardSession(n) == IF life[n] = "none" THEN UNCHANGED life ELSE CloseSession(n)

\* The manager was closed during the dial: unlock, close what was dialled, and
\* only then close dialDone, on which Close waits.
discardUnlock(c) ==
    /\ pc[c] = "dialled"
    /\ closed /\ ~mayInstall(hold[c])
    /\ dialReset
    /\ Goto(c, "discard", hold[c])
    /\ UNCHANGED <<session, announced, dials, life, reader, shutdown>>

discard(c) ==
    /\ pc[c] = "discard"
    /\ discardSession(hold[c])
    /\ Goto(c, "announceFailure", hold[c])
    /\ UNCHANGED <<session, dialer, reader, shutdown>>

\* close(done).
announceDial(c) == announced' = announced \cup {hold[c]}

\* The waiters are released, then the read loop starts.
announce(c) ==
    /\ pc[c] = "announce"
    /\ announceDial(c)
    /\ reader' = [reader EXCEPT ![hold[c]] = "reading"]
    /\ Goto(c, "send", hold[c])
    /\ UNCHANGED <<session, dialing, dialDone, dials, life, shutdown>>

announceFailure(c) ==
    /\ pc[c] = "announceFailure"
    /\ announceDial(c)
    /\ Goto(c, "idle", 0)
    /\ UNCHANGED <<session, dialing, dialDone, dials, life, reader, shutdown>>

\* session.SendPacket, or the return of EnsureSession.
sendSucceeds(c) ==
    /\ pc[c] = "send"
    /\ Goto(c, "idle", 0)
    /\ UNCHANGED <<session, dialer, life, reader, shutdown>>

sendFails(c) ==
    /\ pc[c] = "send"
    /\ Goto(c, "reset", hold[c])
    /\ UNCHANGED <<session, dialer, life, reader, shutdown>>

\* Fault: whatever session is installed is dropped.
resetSession_Any(n) == session' = 0

resetSession(n) == session' = IF session = n THEN 0 ELSE session

sendReset(c) ==
    /\ pc[c] = "reset"
    /\ resetSession(hold[c])
    /\ Goto(c, "closeSession", hold[c])
    /\ UNCHANGED <<dialer, life, reader, shutdown>>

sendClose(c) ==
    /\ pc[c] = "closeSession"
    /\ CloseSession(hold[c])
    /\ Goto(c, "idle", 0)
    /\ UNCHANGED <<session, dialer, reader, shutdown>>

-----------------------------------------------------------------------------
(* Sessions and their read loops.                                          *)

\* The transport of a session fails: the session closes itself.
sessionDies(n) ==
    /\ life[n] = "established"
    /\ CloseSession(n)
    /\ UNCHANGED <<callers, session, dialer, reader, shutdown>>

\* RecvPacket fails because the session is closed or the manager's context is done.
readEnds(n) ==
    /\ reader[n] = "reading"
    /\ life[n] = "closed" \/ cancelled
    /\ reader' = [reader EXCEPT ![n] = "reset"]
    /\ UNCHANGED <<callers, session, dialer, life, shutdown>>

readReset(n) ==
    /\ reader[n] = "reset"
    /\ resetSession(n)
    /\ reader' = [reader EXCEPT ![n] = "closeSession"]
    /\ UNCHANGED <<callers, dialer, life, shutdown>>

\* The deferred session.Close, then readWG.Done.
readClose(n) ==
    /\ reader[n] = "closeSession"
    /\ CloseSession(n)
    /\ reader' = [reader EXCEPT ![n] = "done"]
    /\ UNCHANGED <<callers, session, dialer, shutdown>>

-----------------------------------------------------------------------------
(* Close.  closeOnce makes later calls wait for the first one.             *)

closeCancel ==
    /\ closer = "idle"
    /\ closer' = "cancelled"
    /\ cancelled' = TRUE
    /\ UNCHANGED <<callers, session, dialer, life, reader, closed, closing>>

\* dialCancel is implied: a dial may fail at any time.
closeLock ==
    /\ closer = "cancelled"
    /\ closed' = TRUE
    /\ closing' = [dial |-> dialDone, session |-> session]
    /\ session' = 0
    /\ closer' = "awaitDial"
    /\ UNCHANGED <<callers, dialer, life, reader, cancelled>>

\* Fault: Close does not wait for the dial in flight.
dialOver_NotAwaited == TRUE

dialOver == closing.dial = 0 \/ closing.dial \in announced

closeAwaitDial ==
    /\ closer = "awaitDial"
    /\ dialOver
    /\ closer' = "closeSession"
    /\ UNCHANGED <<callers, session, dialer, life, reader, cancelled, closed, closing>>

closeSession ==
    /\ closer = "closeSession"
    /\ IF closing.session = 0 THEN UNCHANGED life ELSE CloseSession(closing.session)
    /\ closer' = "awaitReaders"
    /\ UNCHANGED <<callers, session, dialer, reader, cancelled, closed, closing>>

\* readWG is at zero.
readersDone == \A n \in Dials : reader[n] \in {"none", "done"}

closeReturns ==
    /\ closer = "awaitReaders"
    /\ readersDone
    /\ closer' = "returned"
    /\ UNCHANGED <<callers, session, dialer, life, reader, cancelled, closed, closing>>

-----------------------------------------------------------------------------
Acquire(c) == refuseClosed(c) \/ useSession(c) \/ awaitDial(c) \/ startDial(c)
Dial(c) == dialSucceeds(c) \/ dialFails(c)
Dialled(c) == \/ install(c) \/ dialFailed(c) \/ discardUnlock(c) \/ discard(c)
              \/ announce(c) \/ announceFailure(c)
Send(c) == sendSucceeds(c) \/ sendFails(c) \/ sendReset(c) \/ sendClose(c)
Caller(c) == Acquire(c) \/ waitOver(c) \/ Dial(c) \/ Dialled(c) \/ Send(c)
Reader(n) == readEnds(n) \/ readReset(n) \/ readClose(n)
Close == closeLock \/ closeAwaitDial \/ closeSession \/ closeReturns

Next ==
    \/ \E c \in Callers : call(c) \/ giveUp(c) \/ Caller(c)
    \/ \E n \in Dials : sessionDies(n) \/ Reader(n)
    \/ closeCancel
    \/ Close

Spec == Init /\ [][Next]_vars

-----------------------------------------------------------------------------
(* Properties.                                                             *)

Places == {"idle", "sessionFor", "wait", "dial", "dialled", "discard", "announce",
           "announceFailure", "send", "reset", "closeSession"}
ReaderPlaces == {"none", "counted", "reading", "reset", "closeSession", "done"}
CloserPlaces == {"idle", "cancelled", "awaitDial", "closeSession", "awaitReaders", "returned"}

\* Every variable keeps its type.
TypeOK ==
    /\ pc \in [Callers -> Places]
    /\ hold \in [Callers -> 0..MaxDials]
    /\ session \in 0..MaxDials
    /\ closed \in BOOLEAN /\ cancelled \in BOOLEAN /\ dialing \in BOOLEAN
    /\ dialDone \in 0..MaxDials /\ dials \in 0..MaxDials
    /\ announced \subseteq Dials
    /\ life \in [Dials -> {"none", "established", "closed"}]
    /\ reader \in [Dials -> ReaderPlaces]
    /\ closer \in CloserPlaces
    /\ closing \in [dial : 0..MaxDials, session : 0..MaxDials]

\* At most one caller dials or has a dialled session in its hands, and dialing
\* and dialDone describe exactly that dial: callers never dial concurrently and
\* a waiter waits for the dial that is really in flight.
SingleFlight ==
    \A c \in Callers : pc[c] \in {"dial", "dialled"} =>
        /\ dialing /\ dialDone = hold[c] /\ hold[c] = dials
        /\ \A d \in Callers : pc[d] \in {"dial", "dialled"} => d = c

\* Closing is irreversible: once closed, no session is installed, in particular
\* none that a dial in flight returned after closure.
ClosedHoldsNothing == closed => session = 0

\* No established session is orphaned, however sends, read loops, dials and Close
\* interleave: it has a read loop that will close it, or the caller that dialled
\* it has yet to install or to discard it.
NoOrphanSession ==
    \A n \in Dials : life[n] = "established" =>
        \/ reader[n] \in {"counted", "reading", "reset", "closeSession"}
        \/ \E c \in Callers : hold[c] = n /\ pc[c] \in {"dialled", "discard"}

\* When Close returns, every session ever dialled is closed and every read loop
\* has ended: none of the manager's callbacks runs afterwards.
ReturnedMeansQuiet ==
    closer = "returned" =>
        \A n \in Dials : life[n] # "established" /\ reader[n] \in {"none", "done"}

\* A failure is charged to the session it happened on: an established session
\* that its read loop or a failed send did not give up stays installed until
\* the manager is closed.
FailureIsLocal ==
    [][(session # session' /\ Usable(session) /\ ~closed') =>
          \/ reader[session] = "reset"
          \/ \E c \in Callers : pc[c] = "reset" /\ hold[c] = session]_vars

\* Close returns: it does not wait for itself, for a waiter or for a read loop
\* that waits for it.
CloseCompletes == (closer = "cancelled") ~> (closer = "returned")

\* A caller that waits for another caller's dial is woken when that dial is over,
\* whether it succeeded, failed or was overtaken by Close.
WaiterReleased == \A c \in Callers : (pc[c] = "wait") ~> (pc[c] # "wait")

\* Nobody waits for ever: Close and the callers of sessionFor wait for dials and
\* read loops that take the same lock, and are all released.
NobodyWaitsForever == CloseCompletes /\ WaiterReleased
=============================================================================
