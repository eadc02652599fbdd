------------------------ MODULE ClientRuntimeProofs ------------------------
(***************************************************************************)
(* Proofs about ClientManager, for any set of callers and any number of    *)
(* dials, and about ClientRuntime, which runs it.  The inductive invariant *)
(* Inv of the manager says which dial a caller owns, that owned dials are  *)
(* not announced yet, which sessions have read loops, and what each stage  *)
(* of Close may rely on.  runClient and the pipeline use the manager only  *)
(* through its own actions, so that every theorem about the manager holds  *)
(* in the running client; and the order of the deferred releases keeps the *)
(* device open while anything writes to it.                                *)
(***************************************************************************)
EXTENDS ClientRuntime, TLAPS

-----------------------------------------------------------------------------
(* The manager.                                                            *)

InFlight(c) == pc[c] \in {"dial", "dialled"}

\* The callers that will close the dialDone channel of their dial.
Owns(c) == pc[c] \in {"dial", "dialled", "discard", "announce", "announceFailure"}

DialInv ==
    /\ dialing => dialDone = dials
    /\ ~dialing => dialDone = 0
    /\ announced \subseteq 1..dials
    /\ \A c \in Callers : InFlight(c) => dialing /\ hold[c] = dials
    /\ \A c, d \in Callers : InFlight(c) /\ InFlight(d) => c = d
    /\ \A c \in Callers : Owns(c) => hold[c] \in 1..dials /\ hold[c] \notin announced
    /\ \A c, d \in Callers : Owns(c) /\ Owns(d) /\ hold[c] = hold[d] => c = d

SessionInv ==
    /\ session # 0 => reader[session] # "none"
    /\ \A n \in Dials : n > dials => life[n] = "none" /\ reader[n] = "none"
    /\ \A n \in Dials : reader[n] = "done" => life[n] = "closed"
    /\ \A c \in Callers : pc[c] \in {"dial", "dialled", "discard"} => reader[hold[c]] = "none"
    /\ \A c \in Callers : pc[c] = "announce" => reader[hold[c]] = "counted"
    /\ \A c \in Callers : pc[c] \in {"send", "reset", "closeSession"} => hold[c] # 0 /\ reader[hold[c]] # "none"
    /\ closing.session # 0 => reader[closing.session] # "none"
    /\ \A c \in Callers : InFlight(c) => ~Usable(session)

CloseInv ==
    /\ closed <=> closer \in {"awaitDial", "closeSession", "awaitReaders", "returned"}
    /\ closed => session = 0
    /\ \A c \in Callers : pc[c] = "discard" => closed
    /\ closed => \A c \in Callers : pc[c] \in {"dial", "dialled", "discard"} => closing.dial = hold[c]
    /\ closer \in {"closeSession", "awaitReaders", "returned"} => closing.dial = 0 \/ closing.dial \in announced
    /\ closer = "returned" => \A n \in Dials : reader[n] \in {"none", "done"}

Inv == TypeOK /\ DialInv /\ SessionInv /\ CloseInv /\ NoOrphanSession

\* Every action keeps the types.
LEMMA TypeStep == Inv /\ [Next]_vars => TypeOK'
<1> SUFFICES ASSUME Inv, [Next]_vars PROVE TypeOK'
    OBVIOUS
<1> USE DialsAssumption DEF Inv, vars, callers, dialer, shutdown, Dials, TypeOK, Places, ReaderPlaces, CloserPlaces
<1>1. ASSUME NEW c \in Callers, call(c) \/ giveUp(c) \/ Caller(c) PROVE TypeOK'
  <2>1. CASE call(c)
    BY <2>1 DEF call, Goto
  <2>2. CASE giveUp(c)
    BY <2>2 DEF giveUp, Goto
  <2>3. CASE refuseClosed(c)
    BY <2>3 DEF refuseClosed, Goto
  <2>4. CASE useSession(c)
    BY <2>4 DEF useSession, Goto, Usable
  <2>5. CASE awaitDial(c)
    BY <2>5 DEF awaitDial, Goto, Usable
  <2>6. CASE startDial(c)
    BY <2>6 DEF startDial, Goto, mayDial, Usable
  <2>7. CASE waitOver(c)
    <3>1. CASE isAnnounced(hold[c]) /\ Goto(c, "sessionFor", 0)
      BY <2>7, <3>1 DEF waitOver, Goto
    <3>2. CASE cancelled /\ Goto(c, "idle", 0)
      BY <2>7, <3>2 DEF waitOver, Goto
    <3> QED BY <2>7, <3>1, <3>2 DEF waitOver
  <2>8. CASE dialSucceeds(c)
    <3>1. hold[c] \in Dials
      BY <2>8 DEF dialSucceeds, DialInv, Owns
    <3> QED BY <2>8, <3>1 DEF dialSucceeds, Goto
  <2>9. CASE dialFails(c)
    <3>1. hold[c] \in Dials
      BY <2>9 DEF dialFails, DialInv, Owns
    <3> QED BY <2>9, <3>1 DEF dialFails, Goto
  <2>10. CASE install(c)
    <3>1. hold[c] \in Dials
      BY <2>10 DEF install, DialInv, Owns
    <3>2. dialing' \in BOOLEAN
      BY <2>10, Zenon DEF install, dialReset
    <3> QED BY <2>10, <3>1, <3>2 DEF install, dialReset, mayInstall, Goto
  <2>11. CASE dialFailed(c)
    <3>1. hold[c] \in Dials
      BY <2>11 DEF dialFailed, DialInv, Owns
    <3>2. dialing' \in BOOLEAN
      BY <2>11, Zenon DEF dialFailed, dialReset
    <3> QED BY <2>11, <3>1, <3>2 DEF dialFailed, dialReset, Goto
  <2>12. CASE discardUnlock(c)
    <3>1. hold[c] \in Dials
      BY <2>12 DEF discardUnlock, DialInv, Owns
    <3>2. dialing' \in BOOLEAN
      BY <2>12, Zenon DEF discardUnlock, dialReset
    <3> QED BY <2>12, <3>1, <3>2 DEF discardUnlock, dialReset, mayInstall, Goto
  <2>13. CASE discard(c)
    <3>1. hold[c] \in Dials
      BY <2>13 DEF discard, DialInv, Owns
    <3> QED BY <2>13, <3>1 DEF discard, Goto, discardSession, CloseSession
  <2>14. CASE announce(c)
    <3>1. hold[c] \in Dials
      BY <2>14 DEF announce, DialInv, Owns
    <3> QED BY <2>14, <3>1 DEF announce, announceDial, Goto
  <2>19. CASE announceFailure(c)
    <3>1. hold[c] \in Dials
      BY <2>19 DEF announceFailure, DialInv, Owns
    <3>2. announced' \subseteq Dials
      BY <2>19, <3>1 DEF announceFailure, announceDial
    <3>3. hold' \in [Callers -> 0..MaxDials] /\ pc' \in [Callers -> Places]
      BY <2>19 DEF announceFailure, Goto
    <3> QED BY <2>19, <3>2, <3>3 DEF announceFailure
  <2>15. CASE sendSucceeds(c)
    BY <2>15 DEF sendSucceeds, Goto
  <2>16. CASE sendFails(c)
    BY <2>16 DEF sendFails, Goto
  <2>17. CASE sendReset(c)
    BY <2>17 DEF sendReset, Goto, resetSession
  <2>18. CASE sendClose(c)
    <3>1. hold[c] \in Dials
      BY <2>18 DEF sendClose, SessionInv
    <3> QED BY <2>18, <3>1 DEF sendClose, Goto, CloseSession
  <2> QED BY <1>1, <2>1, <2>2, <2>3, <2>4, <2>5, <2>6, <2>7, <2>8, <2>9, <2>10, <2>11, <2>12, <2>13, <2>14, <2>15, <2>16, <2>17, <2>18, <2>19 DEF Caller, Acquire, Dial, Dialled, Send
<1>2. ASSUME NEW n \in Dials, sessionDies(n) \/ Reader(n) PROVE TypeOK'
  <2>1. CASE sessionDies(n)
    BY <2>1 DEF sessionDies, CloseSession
  <2>2. CASE readEnds(n)
    BY <2>2 DEF readEnds
  <2>3. CASE readReset(n)
    BY <2>3 DEF readReset, resetSession
  <2>4. CASE readClose(n)
    BY <2>4 DEF readClose, CloseSession
  <2> QED BY <1>2, <2>1, <2>2, <2>3, <2>4 DEF Reader
<1>3. CASE closeCancel
  BY <1>3 DEF closeCancel
<1>4. CASE closeLock
  BY <1>4 DEF closeLock
<1>5. CASE closeAwaitDial
  BY <1>5 DEF closeAwaitDial, dialOver
<1>6. CASE closeSession
  BY <1>6 DEF closeSession, CloseSession
<1>7. CASE closeReturns
  BY <1>7 DEF closeReturns, readersDone
<1>8. CASE UNCHANGED vars
  BY <1>8
<1> QED BY <1>1, <1>2, <1>3, <1>4, <1>5, <1>6, <1>7, <1>8 DEF Next, Close

\* Every action keeps track of who owns which dial.
LEMMA DialStep == Inv /\ [Next]_vars => DialInv'
<1> SUFFICES ASSUME Inv, [Next]_vars PROVE DialInv'
    OBVIOUS
<1> USE DialsAssumption DEF Inv, vars, callers, dialer, shutdown, Dials, TypeOK, DialInv, Owns, InFlight
<1>1. ASSUME NEW c \in Callers, call(c) \/ giveUp(c) \/ Caller(c) PROVE DialInv'
  <2>1. CASE call(c)
    BY <2>1 DEF call, Goto
  <2>2. CASE giveUp(c)
    BY <2>2 DEF giveUp, Goto
  <2>3. CASE refuseClosed(c)
    BY <2>3 DEF refuseClosed, Goto
  <2>4. CASE useSession(c)
    BY <2>4 DEF useSession, Goto, Usable
  <2>5. CASE awaitDial(c)
    BY <2>5 DEF awaitDial, Goto, Usable
  <2>6. CASE startDial(c)
    BY <2>6 DEF startDial, Goto, mayDial, Usable
  <2>7. CASE waitOver(c)
    <3>1. CASE isAnnounced(hold[c]) /\ Goto(c, "sessionFor", 0)
      BY <2>7, <3>1 DEF waitOver, Goto
    <3>2. CASE cancelled /\ Goto(c, "idle", 0)
      BY <2>7, <3>2 DEF waitOver, Goto
    <3> QED BY <2>7, <3>1, <3>2 DEF waitOver
  <2>8. CASE dialSucceeds(c)
    BY <2>8 DEF dialSucceeds, Goto
  <2>9. CASE dialFails(c)
    BY <2>9 DEF dialFails, Goto
  <2>10. CASE install(c)
    BY <2>10 DEF install, Goto, dialReset, mayInstall
  <2>11. CASE dialFailed(c)
    BY <2>11 DEF dialFailed, Goto, dialReset
  <2>12. CASE discardUnlock(c)
    BY <2>12 DEF discardUnlock, Goto, dialReset, mayInstall
  <2>13. CASE discard(c)
    BY <2>13 DEF discard, Goto, discardSession, CloseSession
  <2>14. CASE announce(c)
    <3>1. hold[c] \in Dials
      BY <2>14 DEF announce, DialInv, Owns
    <3> QED BY <2>14, <3>1 DEF announce, announceDial, Goto
  <2>19. CASE announceFailure(c)
    <3>1. hold[c] \in Dials
      BY <2>19 DEF announceFailure, DialInv, Owns
    <3> QED BY <2>19, <3>1 DEF announceFailure, announceDial, Goto
  <2>15. CASE sendSucceeds(c)
    BY <2>15 DEF sendSucceeds, Goto
  <2>16. CASE sendFails(c)
    BY <2>16 DEF sendFails, Goto
  <2>17. CASE sendReset(c)
    BY <2>17 DEF sendReset, Goto, resetSession
  <2>18. CASE sendClose(c)
    BY <2>18 DEF sendClose, Goto, CloseSession
  <2> QED BY <1>1, <2>1, <2>2, <2>3, <2>4, <2>5, <2>6, <2>7, <2>8, <2>9, <2>10, <2>11, <2>12, <2>13, <2>14, <2>15, <2>16, <2>17, <2>18, <2>19 DEF Caller, Acquire, Dial, Dialled, Send
<1>2. ASSUME NEW n \in Dials, sessionDies(n) \/ Reader(n) PROVE DialInv'
  <2>1. CASE sessionDies(n)
    BY <2>1 DEF sessionDies, CloseSession
  <2>2. CASE readEnds(n)
    BY <2>2 DEF readEnds
  <2>3. CASE readReset(n)
    BY <2>3 DEF readReset, resetSession
  <2>4. CASE readClose(n)
    BY <2>4 DEF readClose, CloseSession
  <2> QED BY <1>2, <2>1, <2>2, <2>3, <2>4 DEF Reader
<1>3. CASE closeCancel
  BY <1>3 DEF closeCancel
<1>4. CASE closeLock
  BY <1>4 DEF closeLock
<1>5. CASE closeAwaitDial
  BY <1>5 DEF closeAwaitDial, dialOver
<1>6. CASE closeSession
  BY <1>6 DEF closeSession, CloseSession
<1>7. CASE closeReturns
  BY <1>7 DEF closeReturns, readersDone
<1>8. CASE UNCHANGED vars
  BY <1>8
<1> QED BY <1>1, <1>2, <1>3, <1>4, <1>5, <1>6, <1>7, <1>8 DEF Next, Close

\* Every action keeps sessions and read loops in step.
LEMMA SessionStep == Inv /\ [Next]_vars => SessionInv'
<1> SUFFICES ASSUME Inv, [Next]_vars PROVE SessionInv'
    OBVIOUS
<1> USE DialsAssumption DEF Inv, vars, callers, dialer, shutdown, Dials, TypeOK, DialInv, SessionInv, CloseInv, Owns, InFlight, Usable
<1>1. ASSUME NEW c \in Callers, call(c) \/ giveUp(c) \/ Caller(c) PROVE SessionInv'
  <2>1. CASE call(c)
    BY <2>1 DEF call, Goto
  <2>2. CASE giveUp(c)
    BY <2>2 DEF giveUp, Goto
  <2>3. CASE refuseClosed(c)
    BY <2>3 DEF refuseClosed, Goto
  <2>4. CASE useSession(c)
    BY <2>4 DEF useSession, Goto, Usable
  <2>5. CASE awaitDial(c)
    BY <2>5 DEF awaitDial, Goto, Usable
  <2>6. CASE startDial(c)
    BY <2>6 DEF startDial, Goto, mayDial, Usable
  <2>7. CASE waitOver(c)
    <3>1. CASE isAnnounced(hold[c]) /\ Goto(c, "sessionFor", 0)
      BY <2>7, <3>1 DEF waitOver, Goto
    <3>2. CASE cancelled /\ Goto(c, "idle", 0)
      BY <2>7, <3>2 DEF waitOver, Goto
    <3> QED BY <2>7, <3>1, <3>2 DEF waitOver
  <2>8. CASE dialSucceeds(c)
    BY <2>8 DEF dialSucceeds, Goto
  <2>9. CASE dialFails(c)
    BY <2>9 DEF dialFails, Goto
  <2>10. CASE install(c)
    BY <2>10 DEF install, Goto, dialReset, mayInstall
  <2>11. CASE dialFailed(c)
    BY <2>11 DEF dialFailed, Goto, dialReset
  <2>12. CASE discardUnlock(c)
    BY <2>12 DEF discardUnlock, Goto, dialReset, mayInstall
  <2>13. CASE discard(c)
    BY <2>13 DEF discard, Goto, discardSession, CloseSession
  <2>14. CASE announce(c)
    <3>1. hold[c] \in Dials
      BY <2>14 DEF announce, DialInv, Owns
    <3> QED BY <2>14, <3>1 DEF announce, announceDial, Goto
  <2>19. CASE announceFailure(c)
    <3>1. hold[c] \in Dials
      BY <2>19 DEF announceFailure, DialInv, Owns
    <3> QED BY <2>19, <3>1 DEF announceFailure, announceDial, Goto
  <2>15. CASE sendSucceeds(c)
    BY <2>15 DEF sendSucceeds, Goto
  <2>16. CASE sendFails(c)
    BY <2>16 DEF sendFails, Goto
  <2>17. CASE sendReset(c)
    BY <2>17 DEF sendReset, Goto, resetSession
  <2>18. CASE sendClose(c)
    <3>1. hold[c] \in Dials
      BY <2>18 DEF sendClose
    <3>2. \A n \in Dials : life'[n] = "closed" \/ life'[n] = life[n]
      BY <2>18, <3>1 DEF sendClose, CloseSession
    <3> QED BY <2>18, <3>1, <3>2 DEF sendClose, Goto, CloseSession
  <2> QED BY <1>1, <2>1, <2>2, <2>3, <2>4, <2>5, <2>6, <2>7, <2>8, <2>9, <2>10, <2>11, <2>12, <2>13, <2>14, <2>15, <2>16, <2>17, <2>18, <2>19 DEF Caller, Acquire, Dial, Dialled, Send
<1>2. ASSUME NEW n \in Dials, sessionDies(n) \/ Reader(n) PROVE SessionInv'
  <2>1. CASE sessionDies(n)
    BY <2>1 DEF sessionDies, CloseSession
  <2>2. CASE readEnds(n)
    BY <2>2 DEF readEnds
  <2>3. CASE readReset(n)
    BY <2>3 DEF readReset, resetSession
  <2>4. CASE readClose(n)
    BY <2>4 DEF readClose, CloseSession
  <2> QED BY <1>2, <2>1, <2>2, <2>3, <2>4 DEF Reader
<1>3. CASE closeCancel
  BY <1>3 DEF closeCancel
<1>4. CASE closeLock
  BY <1>4 DEF closeLock
<1>5. CASE closeAwaitDial
  BY <1>5 DEF closeAwaitDial, dialOver
<1>6. CASE closeSession
  <2>1. CASE closing.session = 0
    BY <1>6, <2>1 DEF closeSession
  <2>2. CASE closing.session # 0
    <3>1. closing.session \in Dials
      BY <2>2
    <3>2. life' = [life EXCEPT ![closing.session] = "closed"]
      BY <1>6, <2>2 DEF closeSession, CloseSession
    <3> QED BY <1>6, <3>1, <3>2 DEF closeSession
  <2> QED BY <2>1, <2>2
<1>7. CASE closeReturns
  BY <1>7 DEF closeReturns, readersDone
<1>8. CASE UNCHANGED vars
  BY <1>8
<1> QED BY <1>1, <1>2, <1>3, <1>4, <1>5, <1>6, <1>7, <1>8 DEF Next, Close

\* Every action respects the stages of Close.
LEMMA CloseStep == Inv /\ [Next]_vars => CloseInv'
<1> SUFFICES ASSUME Inv, [Next]_vars PROVE CloseInv'
    OBVIOUS
<1> USE DialsAssumption DEF Inv, vars, callers, dialer, shutdown, Dials, TypeOK, DialInv, SessionInv, CloseInv, Owns, InFlight
<1>1. ASSUME NEW c \in Callers, call(c) \/ giveUp(c) \/ Caller(c) PROVE CloseInv'
  <2>1. CASE call(c)
    BY <2>1 DEF call, Goto
  <2>2. CASE giveUp(c)
    BY <2>2 DEF giveUp, Goto
  <2>3. CASE refuseClosed(c)
    BY <2>3 DEF refuseClosed, Goto
  <2>4. CASE useSession(c)
    BY <2>4 DEF useSession, Goto, Usable
  <2>5. CASE awaitDial(c)
    BY <2>5 DEF awaitDial, Goto, Usable
  <2>6. CASE startDial(c)
    BY <2>6 DEF startDial, Goto, mayDial, Usable
  <2>7. CASE waitOver(c)
    <3>1. CASE isAnnounced(hold[c]) /\ Goto(c, "sessionFor", 0)
      BY <2>7, <3>1 DEF waitOver, Goto
    <3>2. CASE cancelled /\ Goto(c, "idle", 0)
      BY <2>7, <3>2 DEF waitOver, Goto
    <3> QED BY <2>7, <3>1, <3>2 DEF waitOver
  <2>8. CASE dialSucceeds(c)
    BY <2>8 DEF dialSucceeds, Goto
  <2>9. CASE dialFails(c)
    BY <2>9 DEF dialFails, Goto
  <2>10. CASE install(c)
    BY <2>10 DEF install, Goto, dialReset, mayInstall
  <2>11. CASE dialFailed(c)
    BY <2>11 DEF dialFailed, Goto, dialReset
  <2>12. CASE discardUnlock(c)
    BY <2>12 DEF discardUnlock, Goto, dialReset, mayInstall
  <2>13. CASE discard(c)
    BY <2>13 DEF discard, Goto, discardSession, CloseSession
  <2>14. CASE announce(c)
    <3>1. hold[c] \in Dials
      BY <2>14 DEF announce, DialInv, Owns
    <3> QED BY <2>14, <3>1 DEF announce, announceDial, Goto
  <2>19. CASE announceFailure(c)
    <3>1. hold[c] \in Dials
      BY <2>19 DEF announceFailure, DialInv, Owns
    <3> QED BY <2>19, <3>1 DEF announceFailure, announceDial, Goto
  <2>15. CASE sendSucceeds(c)
    BY <2>15 DEF sendSucceeds, Goto
  <2>16. CASE sendFails(c)
    BY <2>16 DEF sendFails, Goto
  <2>17. CASE sendReset(c)
    BY <2>17 DEF sendReset, Goto, resetSession
  <2>18. CASE sendClose(c)
    BY <2>18 DEF sendClose, Goto, CloseSession
  <2> QED BY <1>1, <2>1, <2>2, <2>3, <2>4, <2>5, <2>6, <2>7, <2>8, <2>9, <2>10, <2>11, <2>12, <2>13, <2>14, <2>15, <2>16, <2>17, <2>18, <2>19 DEF Caller, Acquire, Dial, Dialled, Send
<1>2. ASSUME NEW n \in Dials, sessionDies(n) \/ Reader(n) PROVE CloseInv'
  <2>1. CASE sessionDies(n)
    BY <2>1 DEF sessionDies, CloseSession
  <2>2. CASE readEnds(n)
    BY <2>2 DEF readEnds
  <2>3. CASE readReset(n)
    BY <2>3 DEF readReset, resetSession
  <2>4. CASE readClose(n)
    BY <2>4 DEF readClose, CloseSession
  <2> QED BY <1>2, <2>1, <2>2, <2>3, <2>4 DEF Reader
<1>3. CASE closeCancel
  BY <1>3 DEF closeCancel
<1>4. CASE closeLock
  BY <1>4 DEF closeLock
<1>5. CASE closeAwaitDial
  BY <1>5 DEF closeAwaitDial, dialOver
<1>6. CASE closeSession
  BY <1>6 DEF closeSession, CloseSession
<1>7. CASE closeReturns
  BY <1>7 DEF closeReturns, readersDone
<1>8. CASE UNCHANGED vars
  BY <1>8
<1> QED BY <1>1, <1>2, <1>3, <1>4, <1>5, <1>6, <1>7, <1>8 DEF Next, Close

\* No action orphans an established session.
LEMMA OrphanStep == Inv /\ [Next]_vars => NoOrphanSession'
<1> SUFFICES ASSUME Inv, [Next]_vars PROVE NoOrphanSession'
    OBVIOUS
<1> USE DialsAssumption DEF Inv, vars, callers, dialer, shutdown, Dials, TypeOK, DialInv, SessionInv, CloseInv, NoOrphanSession, Owns, InFlight
<1>1. ASSUME NEW c \in Callers, call(c) \/ giveUp(c) \/ Caller(c) PROVE NoOrphanSession'
  <2>1. CASE call(c)
    BY <2>1 DEF call, Goto
  <2>2. CASE giveUp(c)
    BY <2>2 DEF giveUp, Goto
  <2>3. CASE refuseClosed(c)
    BY <2>3 DEF refuseClosed, Goto
  <2>4. CASE useSession(c)
    BY <2>4 DEF useSession, Goto, Usable
  <2>5. CASE awaitDial(c)
    BY <2>5 DEF awaitDial, Goto, Usable
  <2>6. CASE startDial(c)
    BY <2>6 DEF startDial, Goto, mayDial, Usable
  <2>7. CASE waitOver(c)
    <3>1. CASE isAnnounced(hold[c]) /\ Goto(c, "sessionFor", 0)
      BY <2>7, <3>1 DEF waitOver, Goto
    <3>2. CASE cancelled /\ Goto(c, "idle", 0)
      BY <2>7, <3>2 DEF waitOver, Goto
    <3> QED BY <2>7, <3>1, <3>2 DEF waitOver
  <2>8. CASE dialSucceeds(c)
    BY <2>8 DEF dialSucceeds, Goto
  <2>9. CASE dialFails(c)
    BY <2>9 DEF dialFails, Goto
  <2>10. CASE install(c)
    BY <2>10 DEF install, Goto, dialReset, mayInstall
  <2>11. CASE dialFailed(c)
    BY <2>11 DEF dialFailed, Goto, dialReset
  <2>12. CASE discardUnlock(c)
    BY <2>12 DEF discardUnlock, Goto, dialReset, mayInstall
  <2>13. CASE discard(c)
    BY <2>13 DEF discard, Goto, discardSession, CloseSession
  <2>14. CASE announce(c)
    <3>1. hold[c] \in Dials
      BY <2>14 DEF announce, DialInv, Owns
    <3> QED BY <2>14, <3>1 DEF announce, announceDial, Goto
  <2>19. CASE announceFailure(c)
    <3>1. hold[c] \in Dials
      BY <2>19 DEF announceFailure, DialInv, Owns
    <3> QED BY <2>19, <3>1 DEF announceFailure, announceDial, Goto
  <2>15. CASE sendSucceeds(c)
    BY <2>15 DEF sendSucceeds, Goto
  <2>16. CASE sendFails(c)
    BY <2>16 DEF sendFails, Goto
  <2>17. CASE sendReset(c)
    BY <2>17 DEF sendReset, Goto, resetSession
  <2>18. CASE sendClose(c)
    BY <2>18 DEF sendClose, Goto, CloseSession
  <2> QED BY <1>1, <2>1, <2>2, <2>3, <2>4, <2>5, <2>6, <2>7, <2>8, <2>9, <2>10, <2>11, <2>12, <2>13, <2>14, <2>15, <2>16, <2>17, <2>18, <2>19 DEF Caller, Acquire, Dial, Dialled, Send
<1>2. ASSUME NEW n \in Dials, sessionDies(n) \/ Reader(n) PROVE NoOrphanSession'
  <2>1. CASE sessionDies(n)
    BY <2>1 DEF sessionDies, CloseSession
  <2>2. CASE readEnds(n)
    BY <2>2 DEF readEnds
  <2>3. CASE readReset(n)
    BY <2>3 DEF readReset, resetSession
  <2>4. CASE readClose(n)
    BY <2>4 DEF readClose, CloseSession
  <2> QED BY <1>2, <2>1, <2>2, <2>3, <2>4 DEF Reader
<1>3. CASE closeCancel
  BY <1>3 DEF closeCancel
<1>4. CASE closeLock
  BY <1>4 DEF closeLock
<1>5. CASE closeAwaitDial
  BY <1>5 DEF closeAwaitDial, dialOver
<1>6. CASE closeSession
  BY <1>6 DEF closeSession, CloseSession
<1>7. CASE closeReturns
  BY <1>7 DEF closeReturns, readersDone
<1>8. CASE UNCHANGED vars
  BY <1>8
<1> QED BY <1>1, <1>2, <1>3, <1>4, <1>5, <1>6, <1>7, <1>8 DEF Next, Close

\* The inductive invariant: who owns which dial, which sessions have read
\* loops, and what each stage of Close may rely on.
THEOREM ManagerInvariant == Spec => []Inv
<1>1. ASSUME Init PROVE Inv
  <2> USE DialsAssumption, <1>1 DEF Init, Dials
  <2>1. TypeOK
    <3>1. closed \in BOOLEAN /\ cancelled \in BOOLEAN /\ dialing \in BOOLEAN
      BY Zenon
    <3> QED BY <3>1 DEF TypeOK, Places, ReaderPlaces, CloserPlaces
  <2>2. DialInv
    BY DEF DialInv, InFlight, Owns
  <2>3. SessionInv
    BY DEF SessionInv, InFlight, Usable
  <2>4. CloseInv
    BY DEF CloseInv
  <2>5. NoOrphanSession
    BY DEF NoOrphanSession
  <2> QED BY <2>1, <2>2, <2>3, <2>4, <2>5 DEF Inv
<1>2. Inv /\ [Next]_vars => Inv'
  BY TypeStep, DialStep, SessionStep, CloseStep, OrphanStep DEF Inv
<1> QED BY <1>1, <1>2, PTL DEF Spec

\* Every variable of the manager keeps its type.
THEOREM ManagerTypes == Spec => []TypeOK
<1>1. Inv => TypeOK
  BY DEF Inv
<1> QED BY <1>1, ManagerInvariant, PTL

\* Callers never dial concurrently, however many there are: sessionFor lets one
\* of them dial and the others wait for exactly that dial.
THEOREM OneDialAtATime == Spec => []SingleFlight
<1>1. Inv => SingleFlight
  BY DEF Inv, TypeOK, DialInv, SingleFlight, InFlight
<1> QED BY <1>1, ManagerInvariant, PTL

\* A closed manager never holds a session again: sessionFor discards the session
\* of a dial that Close overtook.
THEOREM NothingInstalledAfterClose == Spec => []ClosedHoldsNothing
<1>1. Inv => ClosedHoldsNothing
  BY DEF Inv, CloseInv, ClosedHoldsNothing
<1> QED BY <1>1, ManagerInvariant, PTL

\* Whoever dialled or reads a session will close it: none is orphaned by a
\* failed send, a replacement or Close.
THEOREM SessionsHaveOwners == Spec => []NoOrphanSession
<1>1. Inv => NoOrphanSession
  BY DEF Inv
<1> QED BY <1>1, ManagerInvariant, PTL

\* When Close has returned, every session is closed and every read loop over.
THEOREM CloseLeavesNothing == Spec => []ReturnedMeansQuiet
<1>1. ASSUME Inv, closer = "returned", NEW n \in Dials
      PROVE  life[n] # "established" /\ reader[n] \in {"none", "done"}
  <2>1. reader[n] \in {"none", "done"}
    BY <1>1 DEF Inv, CloseInv
  <2>2. ASSUME NEW c \in Callers, hold[c] = n, pc[c] \in {"dialled", "discard"} PROVE FALSE
    <3>1. closing.dial = n
      BY <1>1, <2>2 DEF Inv, CloseInv
    <3>2. n \notin announced
      BY <1>1, <2>2 DEF Inv, DialInv, Owns
    <3> QED BY <1>1, <3>1, <3>2, DialsAssumption DEF Inv, CloseInv, Dials
  <2> QED BY <1>1, <2>1, <2>2 DEF Inv, NoOrphanSession
<1>2. Inv => ReturnedMeansQuiet
  BY <1>1 DEF ReturnedMeansQuiet
<1> QED BY <1>2, ManagerInvariant, PTL

\* A failure on one session never removes another: an established session leaves
\* the manager only when its own read loop or a send on it gave it up, or by Close.
THEOREM FailuresAreLocal == Spec => FailureIsLocal
<1> DEFINE Local ==
      (session # session' /\ Usable(session) /\ ~closed') =>
          \/ reader[session] = "reset"
          \/ \E c \in Callers : pc[c] = "reset" /\ hold[c] = session
<1>1. ASSUME Inv, [Next]_vars PROVE Local
  <2> SUFFICES ASSUME session # session', Usable(session), ~closed'
               PROVE  \/ reader[session] = "reset"
                      \/ \E c \in Callers : pc[c] = "reset" /\ hold[c] = session
    OBVIOUS
  <2>1. ASSUME NEW c \in Callers, call(c) \/ giveUp(c) \/ Caller(c)
        PROVE  pc[c] = "reset" /\ hold[c] = session
    <3>1. CASE install(c)
      BY <1>1, <3>1 DEF install, Inv, SessionInv, InFlight
    <3>2. CASE sendReset(c)
      BY <3>2 DEF sendReset, resetSession
    <3> QED BY <2>1, <3>1, <3>2 DEF Caller, Acquire, Dial, Dialled, Send, call, giveUp, refuseClosed,
              useSession, awaitDial, startDial, waitOver, dialSucceeds, dialFails, dialFailed,
              discardUnlock, discard, announce, announceFailure, sendSucceeds, sendFails, sendClose
  <2>2. ASSUME NEW n \in Dials, sessionDies(n) \/ Reader(n) PROVE reader[session] = "reset"
    BY <2>2 DEF Reader, sessionDies, readEnds, readReset, readClose, resetSession
  <2>3. CASE closeCancel \/ Close
    BY <2>3 DEF closeCancel, Close, closeLock, closeAwaitDial, closeSession, closeReturns
  <2>4. CASE UNCHANGED vars
    BY <2>4 DEF vars
  <2> QED BY <1>1, <2>1, <2>2, <2>3, <2>4 DEF Next
<1>2. Inv /\ [Next]_vars => [Local]_vars
  BY <1>1
<1> QED BY <1>2, ManagerInvariant, PTL DEF Spec, FailureIsLocal

-----------------------------------------------------------------------------
(* The running client.                                                     *)

\* No step of the runtime does anything to the manager that is not a step of the
\* manager.
LEMMA StepOfManager == [RuntimeNext]_runtimeVars => [Next]_vars
<1> SUFFICES ASSUME [RuntimeNext]_runtimeVars PROVE [Next]_vars
    OBVIOUS
<1>1. CASE StartUp
  BY <1>1 DEF StartUp, newTUN, installSelectiveRoutes, newManager, startBridge, startPipeline, startupFails
<1>2. CASE stopServing \/ shutdownBridge \/ rollbackRoutes
  BY <1>2 DEF stopServing, shutdownBridge, rollbackRoutes
<1>3. CASE Unwind
  BY <1>3 DEF Unwind, callManagerClose, managerClosed, deferredRollback, closeTUN, returns, Next
<1>4. CASE RunPipeline
  BY <1>4, PipelineAssumption DEF RunPipeline, sendCaptured, rejectDirect, readFails, Next
<1>5. CASE interrupt \/ bridgeFails
  BY <1>5 DEF interrupt, bridgeFails
<1>6. CASE managerStep
  BY <1>6 DEF managerStep, callerStep, readerStep, closeStep, otherStep, Next
<1>7. CASE UNCHANGED runtimeVars
  BY <1>7 DEF runtimeVars
<1> QED BY <1>1, <1>2, <1>3, <1>4, <1>5, <1>6, <1>7 DEF RuntimeNext, RunClient

\* The running client implements the manager's specification: whatever the
\* manager guarantees to any callers, it guarantees inside runClient.
THEOREM RuntimeUsesManager == RuntimeSpec => Spec
<1>1. RuntimeInit => Init
  BY DEF RuntimeInit
<1> QED BY <1>1, StepOfManager, PTL DEF RuntimeSpec, Spec

-----------------------------------------------------------------------------
\* Before runClient has created the manager nobody has used it.
Untouched ==
    /\ dials = 0 /\ closer = "idle"
    /\ \A c \in Callers : pc[c] = "idle"
    /\ \A n \in Dials : life[n] = "none" /\ reader[n] = "none"

\* Which releases are still to run at every place of runClient, and which
\* resources they stand for.
Progress ==
    /\ run = "tun" => deferred = 0
    /\ run = "routes" => deferred = 1
    /\ run = "manager" => deferred = 2
    /\ run \in {"bridge", "pipeline", "serving", "shutdown", "rollback"} => deferred = 3
    /\ run = "returned" => deferred = 0
    /\ tun = "open" <=> deferred > 0
    /\ routes \in {"installed", "kept"} => deferred > 1
    /\ bridge = "serving" => run \in {"pipeline", "serving", "shutdown"}
    /\ pipe = "none" \/ run \in {"serving", "shutdown", "rollback", "unwind", "returned"}

\* The manager has not been used, or will be closed, or was.
ManagerOwned ==
    /\ closer # "idle" => run \in {"unwind", "returned"}
    /\ \/ Untouched /\ pipe = "none"
       \/ deferred = 3
       \/ closer = "returned"

RuntimeInv == RuntimeTypeOK /\ Progress /\ ManagerOwned

\* Nothing is acquired and nobody has used the manager at the beginning.
LEMMA RuntimeInitially == RuntimeInit => RuntimeInv
<1> SUFFICES ASSUME RuntimeInit PROVE RuntimeInv
    OBVIOUS
<1> USE DEF RuntimeInit, Releases
<1>1. cancelledCtx \in BOOLEAN
  BY Zenon
<1>2. RuntimeTypeOK
  BY <1>1 DEF RuntimeTypeOK, RunPlaces
<1>3. Progress
  BY DEF Progress
<1>4. ManagerOwned
  BY DEF Init, ManagerOwned, Untouched, Dials
<1> QED BY <1>2, <1>3, <1>4 DEF RuntimeInv

\* Start-up: a release is registered for every resource that is acquired.
LEMMA StartUpStep == RuntimeInv /\ StartUp => RuntimeInv'
<1> SUFFICES ASSUME RuntimeInv, StartUp PROVE RuntimeInv'
    OBVIOUS
<1> USE DEF RuntimeInv, RuntimeTypeOK, RunPlaces, Releases, Progress, defer, resources
<1>1. UNCHANGED vars /\ UNCHANGED cancelledCtx
  BY DEF StartUp, newTUN, installSelectiveRoutes, newManager, startBridge, startPipeline, startupFails
<1>2. UNCHANGED <<closer, Untouched>>
  BY <1>1 DEF vars, callers, dialer, shutdown, Untouched
<1>3. RuntimeTypeOK' /\ Progress'
  <2>1. cancelledCtx' \in BOOLEAN
    BY <1>1, Zenon
  <2>2. CASE newTUN
    BY <2>1, <2>2 DEF newTUN
  <2>3. CASE installSelectiveRoutes
    BY <2>1, <2>3 DEF installSelectiveRoutes
  <2>4. CASE newManager
    BY <2>1, <2>4 DEF newManager
  <2>5. CASE startBridge
    BY <2>1, <2>5 DEF startBridge
  <2>6. CASE startPipeline
    BY <2>1, <2>6 DEF startPipeline
  <2>7. CASE startupFails
    BY <2>1, <2>7 DEF startupFails
  <2> QED BY <2>2, <2>3, <2>4, <2>5, <2>6, <2>7 DEF StartUp
<1>4. ManagerOwned'
  BY <1>2 DEF ManagerOwned, StartUp, newTUN, installSelectiveRoutes, newManager, startBridge,
              startPipeline, startupFails
<1> QED BY <1>3, <1>4

\* Shutdown: the releases run in the reverse order, the manager's before the others.
LEMMA ShutdownStep ==
    RuntimeInv /\ (stopServing \/ shutdownBridge \/ rollbackRoutes \/ Unwind) => RuntimeInv'
<1> SUFFICES ASSUME RuntimeInv, stopServing \/ shutdownBridge \/ rollbackRoutes \/ Unwind
             PROVE  RuntimeInv'
    OBVIOUS
<1> USE DEF RuntimeInv, RuntimeTypeOK, RunPlaces, Releases, Progress, resources, closeRoutes,
            unwinding, nextDeferred, released
<1>1. cancelledCtx' \in BOOLEAN
  <2>1. cancelledCtx' = TRUE \/ cancelledCtx' = cancelledCtx
    BY Zenon DEF Unwind, main, stopServing, shutdownBridge, rollbackRoutes, callManagerClose,
                 managerClosed, deferredRollback, closeTUN, returns
  <2> QED BY <2>1, Zenon
<1>2. CASE callManagerClose
  BY <1>1, <1>2 DEF callManagerClose, main, closeCancel, ManagerOwned, Untouched
<1>3. CASE managerClosed
  BY <1>1, <1>3 DEF managerClosed, ManagerOwned, vars, shutdown
<1>4. ASSUME ~callManagerClose, ~managerClosed PROVE RuntimeInv'
  <2>1. UNCHANGED vars
    BY <1>4 DEF Unwind, stopServing, shutdownBridge, rollbackRoutes, deferredRollback, closeTUN, returns
  <2>2. UNCHANGED <<closer, Untouched>>
    BY <2>1 DEF vars, callers, dialer, shutdown, Untouched
  <2>3. CASE stopServing
    BY <1>1, <2>2, <2>3 DEF stopServing, ManagerOwned
  <2>4. CASE shutdownBridge
    BY <1>1, <2>2, <2>4 DEF shutdownBridge, ManagerOwned
  <2>5. CASE rollbackRoutes
    BY <1>1, <2>2, <2>5 DEF rollbackRoutes, ManagerOwned
  <2>6. CASE deferredRollback
    BY <1>1, <2>2, <2>6 DEF deferredRollback, ManagerOwned
  <2>7. CASE closeTUN
    BY <1>1, <2>2, <2>7 DEF closeTUN, ManagerOwned
  <2>8. CASE returns
    BY <1>1, <2>2, <2>8 DEF returns, ManagerOwned
  <2> QED BY <1>4, <2>3, <2>4, <2>5, <2>6, <2>7, <2>8 DEF Unwind
<1> QED BY <1>2, <1>3, <1>4

\* The manager moves only once somebody uses it, and stays closed once it is.
LEMMA ManagerWorkStep == RuntimeInv /\ managerStep => RuntimeInv'
<1> SUFFICES ASSUME RuntimeInv, managerStep PROVE RuntimeInv'
    OBVIOUS
<1>1. UNCHANGED <<main, resources, pipe>>
  BY DEF managerStep, callerStep, readerStep, closeStep, otherStep, runtimeUnchanged
<1>2. RuntimeTypeOK' /\ Progress'
  <2>1. cancelledCtx' \in BOOLEAN
    BY <1>1, Zenon DEF main, RuntimeInv, RuntimeTypeOK
  <2> QED BY <1>1, <2>1 DEF main, resources, RuntimeInv, RuntimeTypeOK, Progress
<1>3. ~(Untouched /\ pipe = "none")
  <2> SUFFICES ASSUME Untouched, pipe = "none" PROVE FALSE
    OBVIOUS
  <2>1. CASE \E c \in Callers : callerStep(c) \/ giveUp(c)
    BY <2>1 DEF Untouched, callerStep, giveUp, Caller, Acquire, Dial, Dialled, Send, refuseClosed, useSession,
                awaitDial, startDial, waitOver, dialSucceeds, dialFails, install, dialFailed, discardUnlock,
                discard, announce, announceFailure, sendSucceeds, sendFails, sendReset, sendClose
  <2>2. CASE \E n \in Dials : readerStep(n) \/ sessionDies(n)
    BY <2>2 DEF Untouched, readerStep, Reader, readEnds, readReset, readClose, sessionDies
  <2>3. CASE closeStep
    BY <2>3 DEF Untouched, closeStep, Close, closeLock, closeAwaitDial, closeSession, closeReturns
  <2> QED BY <2>1, <2>2, <2>3 DEF managerStep, otherStep
<1>5. closer # closer' => closer # "idle" /\ closer # "returned"
  <2>1. CASE closeStep
    BY <2>1 DEF closeStep, Close, closeLock, closeAwaitDial, closeSession, closeReturns
  <2>2. CASE \E c \in Callers : callerStep(c) \/ giveUp(c) \/ call(c)
    BY <2>2 DEF call, callerStep, giveUp, Caller, Acquire, Dial, Dialled, Send, refuseClosed, useSession,
                awaitDial, startDial, waitOver, dialSucceeds, dialFails, install, dialFailed, discardUnlock,
                discard, announce, announceFailure, sendSucceeds, sendFails, sendReset, sendClose, shutdown
  <2>3. CASE \E n \in Dials : readerStep(n) \/ sessionDies(n)
    BY <2>3 DEF readerStep, Reader, readEnds, readReset, readClose, sessionDies, shutdown
  <2> QED BY <2>1, <2>2, <2>3 DEF managerStep, otherStep
<1>6. ManagerOwned'
  BY <1>1, <1>3, <1>5 DEF RuntimeInv, ManagerOwned, main
<1> QED BY <1>2, <1>6 DEF RuntimeInv

\* The pipeline and the environment acquire and release nothing.
LEMMA OtherRuntimeStep ==
    RuntimeInv /\ (RunPipeline \/ interrupt \/ bridgeFails \/ UNCHANGED runtimeVars) => RuntimeInv'
<1> SUFFICES ASSUME RuntimeInv, RunPipeline \/ interrupt \/ bridgeFails \/ UNCHANGED runtimeVars
             PROVE  RuntimeInv'
    OBVIOUS
<1>1. cancelledCtx' \in BOOLEAN
  <2>1. cancelledCtx' = TRUE \/ cancelledCtx' = cancelledCtx
    BY Zenon DEF RunPipeline, sendCaptured, rejectDirect, readFails, interrupt, bridgeFails, main, runtimeVars
  <2> QED BY <2>1, Zenon DEF RuntimeInv, RuntimeTypeOK
<1>2. UNCHANGED <<run, deferred, tun, routes>> /\ UNCHANGED closer
  BY DEF RunPipeline, sendCaptured, call, rejectDirect, readFails, interrupt, bridgeFails, main, resources,
         runtimeVars, vars, shutdown
<1>3. /\ bridge' = bridge \/ (bridge' = "failed" /\ pipe' = pipe)
      /\ pipe' = pipe \/ (pipe = "running" /\ pipe' \in {"failed", "done"})
  BY DEF RunPipeline, sendCaptured, rejectDirect, readFails, interrupt, bridgeFails, reading, resources,
         runtimeVars
<1>4. RuntimeTypeOK' /\ Progress'
  BY <1>1, <1>2, <1>3 DEF RuntimeInv, RuntimeTypeOK, Progress
<1>5. Untouched /\ pipe = "none" => Untouched'
  BY DEF RunPipeline, sendCaptured, rejectDirect, readFails, interrupt, bridgeFails, reading, runtimeVars,
         vars, callers, dialer, shutdown, Untouched
<1>6. ManagerOwned'
  BY <1>2, <1>3, <1>5 DEF RuntimeInv, ManagerOwned
<1> QED BY <1>4, <1>6 DEF RuntimeInv

\* The inductive invariant of the running client.
LEMMA RuntimeInvariant == RuntimeSpec => []RuntimeInv
<1>1. RuntimeInv /\ [RuntimeNext]_runtimeVars => RuntimeInv'
  BY StartUpStep, ShutdownStep, ManagerWorkStep, OtherRuntimeStep DEF RuntimeNext, RunClient
<1> QED BY <1>1, RuntimeInitially, PTL DEF RuntimeSpec

-----------------------------------------------------------------------------
\* However start-up, shutdown, dials, failures and captured packets interleave,
\* nobody writes to a closed device, no route outlives the device, and runClient
\* leaves nothing behind: the deferred releases of app.go run in the right order.
THEOREM ClientShutdownSound == RuntimeSpec => []ClientSound
<1>1. ASSUME RuntimeInv, ReturnedMeansQuiet PROVE ClientSound
  <2> USE <1>1 DEF RuntimeInv
  <2>1. tun # "open" => \A n \in Dials : life[n] # "established" /\ reader[n] \in {"none", "done"}
    BY DEF RuntimeTypeOK, Releases, Progress, ManagerOwned, Untouched, ReturnedMeansQuiet
  <2>2. WritersHaveDevice
    BY <2>1 DEF WritersHaveDevice
  <2>3. RoutesHaveDevice
    BY DEF RoutesHaveDevice, Progress, RuntimeTypeOK, Releases
  <2>4. ReturnedIsClean
    BY <2>1 DEF ReturnedIsClean, Progress, RuntimeTypeOK, Releases
  <2> QED BY <2>2, <2>3, <2>4 DEF ClientSound
<1> QED BY <1>1, RuntimeInvariant, RuntimeUsesManager, CloseLeavesNothing, PTL

\* In the running client too, when Close of the manager has returned every
\* session is closed and every read loop over.
THEOREM ClientCloseLeavesNothing == RuntimeSpec => []ReturnedMeansQuiet
BY RuntimeUsesManager, CloseLeavesNothing, PTL
=============================================================================
