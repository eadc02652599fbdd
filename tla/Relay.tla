------------------------------- MODULE Relay -------------------------------
(***************************************************************************)
(* The relay of internal/tgp/relay.go on top of its router: the accept     *)
(* loop that turns Hello datagrams into sessions, the cached acknowledg-   *)
(* ments for repeated Hellos, the goroutine that serves each session, and  *)
(* Close.  RelayRouter supplies registration, unregistration, the path     *)
(* exchange and the data path; this module says who calls them and when.   *)
(*                                                                         *)
(* A Hello is its session ID and its signed expiry; the network may delay  *)
(* and repeat it, also from another source address.  A Hello that does not *)
(* authenticate is skipped without a change of state and has no action.    *)
(***************************************************************************)
EXTENDS RelayRouter

CONSTANTS
    MaxSessions,        \* Relay.maxSessions
    HandshakeQueue,     \* capacity of the handshakes channel
    ReplayLimit,        \* handshakeReplayLimit
    MaxHellos,          \* bound: Hellos ever sent
    MaxSkew,            \* bound: seconds a client's clock is ahead of the relay's
    MaxStall            \* bound: seconds the accept loop spends on one Hello

Hellos == [id : IDs, expires : 1..(MaxClock + TombLife + MaxSkew)]

\* The Hello the accept loop works on: where it came from and when it was taken.
Offers == [hello : Hellos, from : Addrs, at : Nat]

ASSUME RelayAssumption ==
    /\ MaxSessions \in Nat /\ HandshakeQueue \in Nat
    /\ ReplayLimit \in Nat /\ MaxHellos \in Nat
    /\ MaxSkew \in Nat /\ MaxStall \in Nat
    /\ None \notin Hellos \cup Offers

VARIABLES
    hellos,             \* Hellos the network holds
    handshakes,         \* relayTransportRouter.handshakes
    replays,            \* handshakeReplays: ID -> cached Hello, or None
    accept,             \* where the accept loop is
    offer,              \* the envelope it works on, or None
    incoming,           \* the connection it has registered, or None
    relaySessions,      \* Relay.sessions: ID -> connection
    serving,            \* the serveSession goroutine of each connection
    relayClosed,        \* Relay.closed
    closer,             \* where Relay.Close is
    acks,               \* ghost: acknowledgments sent for each Hello
    origin              \* ghost: the Hello that made each connection

handshake == <<hellos, handshakes, replays, acks>>
acceptor  == <<accept, offer, incoming, origin>>
shutdown  == <<relayClosed, closer>>
relayVars == <<handshake, acceptor, relaySessions, serving, shutdown>>
allVars   == <<vars, relayVars>>

RelayInit ==
    /\ Init
    /\ hellos = {}
    /\ handshakes = << >>
    /\ replays = [i \in IDs |-> None]
    /\ accept = "waiting"
    /\ offer = None
    /\ incoming = None
    /\ relaySessions = [i \in IDs |-> None]
    /\ serving = [k \in Conns |-> "none"]
    /\ relayClosed = FALSE
    /\ closer = "idle"
    /\ acks = [h \in Hellos |-> 0]
    /\ origin = [k \in Conns |-> None]

-----------------------------------------------------------------------------
(* The network and readLoop.                                               *)

sendHello(h) ==
    /\ h.expires \in (clock + 1)..(clock + TombLife + MaxSkew)
    /\ Cardinality(hellos) < MaxHellos
    /\ hellos' = hellos \cup {h}
    /\ UNCHANGED <<vars, handshakes, replays, acks, acceptor, relaySessions,
                   serving, shutdown>>

\* readLoop takes another datagram.
reading == stage = "idle" /\ ~closed

replaysLeft(r) == r.remaining - 1

\* replayHandshakeAck drops an entry that is used up or expired.
cached(i) ==
    LET r == replays[i]
    IN  IF r # None /\ (r.remaining <= 0 \/ ~ (clock < r.hello.expires)) THEN None ELSE r

answered(h, a) ==
    LET r == cached(h.id) IN r # None /\ r.peer = a /\ r.hello = h

\* A repeated Hello is answered from the cache,
helloReplayed(h, a) ==
    /\ reading /\ answered(h, a)
    /\ replays' = [replays EXCEPT ![h.id].remaining = replaysLeft(replays[h.id])]
    /\ acks' = [acks EXCEPT ![h] = @ + 1]
    /\ UNCHANGED <<vars, hellos, handshakes, acceptor, relaySessions, serving,
                   shutdown>>

\* any other is queued for the accept loop,
helloQueued(h, a) ==
    /\ reading /\ ~answered(h, a)
    /\ Len(handshakes) < HandshakeQueue
    /\ replays' = [replays EXCEPT ![h.id] = cached(h.id)]
    /\ handshakes' = Append(handshakes, [hello |-> h, from |-> a])
    /\ UNCHANGED <<vars, hellos, acks, acceptor, relaySessions, serving, shutdown>>

\* or dropped when the queue is full.
helloDropped(h, a) ==
    /\ reading /\ ~answered(h, a)
    /\ Len(handshakes) = HandshakeQueue
    /\ replays' = [replays EXCEPT ![h.id] = cached(h.id)]
    /\ UNCHANGED <<vars, hellos, handshakes, acks, acceptor, relaySessions,
                   serving, shutdown>>

-----------------------------------------------------------------------------
(* The accept loop: acceptSession and ListenAndServe.                      *)

At(place) == accept = place
GoTo(place) == accept' = place

\* Fault: the expiry of a Hello may lie arbitrarily far in the future.
fresh_Unbounded(h) == clock < h.expires

\* validateHandshakeHelloFreshness.
fresh(h) == clock < h.expires /\ h.expires <= clock + TombLife

tombstoned(i) == clock < tombstones[i]

\* A Hello that is fresh and not of an ended session is considered further.
acceptTake ==
    LET e == Head(handshakes) IN
    /\ At("waiting") /\ handshakes # << >>
    /\ fresh(e.hello) /\ ~tombstoned(e.hello.id)
    /\ tombstones' = Prune(tombstones)
    /\ handshakes' = Tail(handshakes)
    /\ offer' = [hello |-> e.hello, from |-> e.from, at |-> clock]
    /\ GoTo("admit")
    /\ UNCHANGED <<clock, closed, sessions, sources, identity, ended, routes, bucket,
                   data, reader, challenges, ledger, hellos, replays, acks, incoming,
                   origin, relaySessions, serving, shutdown>>

acceptStale ==
    /\ At("waiting") /\ handshakes # << >>
    /\ ~fresh(Head(handshakes).hello)
    /\ handshakes' = Tail(handshakes)
    /\ UNCHANGED <<vars, hellos, replays, acks, acceptor, relaySessions, serving,
                   shutdown>>

acceptTombstoned ==
    LET e == Head(handshakes) IN
    /\ At("waiting") /\ handshakes # << >>
    /\ fresh(e.hello) /\ tombstoned(e.hello.id)
    /\ tombstones' = Prune(tombstones)
    /\ handshakes' = Tail(handshakes)
    /\ UNCHANGED <<clock, closed, sessions, sources, identity, ended, routes, bucket,
                   data, reader, challenges, ledger, hellos, replays, acks, acceptor,
                   relaySessions, serving, shutdown>>

Held == {i \in IDs : relaySessions[i] # None}

\* hasSession and canAcceptSession.
admissible(i) == i \notin Held /\ ~relayClosed /\ Cardinality(Held) < MaxSessions

acceptAdmit ==
    /\ At("admit") /\ admissible(offer.hello.id)
    /\ GoTo("register")
    /\ UNCHANGED <<vars, handshake, offer, incoming, origin, relaySessions, serving,
                   shutdown>>

acceptRefuse ==
    /\ At("admit") /\ ~admissible(offer.hello.id)
    /\ GoTo("waiting") /\ offer' = None
    /\ UNCHANGED <<vars, handshake, incoming, origin, relaySessions, serving, shutdown>>

acceptRegister(k) ==
    /\ At("register")
    /\ registerWithPathAuth(k, offer.hello.id, offer.from)
    /\ GoTo("ack") /\ incoming' = k
    /\ origin' = [origin EXCEPT ![k] = offer.hello]
    /\ UNCHANGED <<handshake, offer, relaySessions, serving, shutdown>>

\* ListenAndServe returns: with nil once the router is closed, else with the error.
acceptReturns ==
    /\ At("register")
    /\ closed /\ GoTo("stopped") /\ offer' = None
    /\ UNCHANGED <<vars, handshake, incoming, origin, relaySessions, serving, shutdown>>

acceptFails ==
    /\ At("register")
    /\ registerRefused(offer.hello.id, offer.from)
    /\ GoTo("failed") /\ offer' = None
    /\ UNCHANGED <<handshake, incoming, origin, relaySessions, serving, shutdown>>

acceptAck ==
    /\ At("ack")
    /\ acks' = [acks EXCEPT ![offer.hello] = @ + 1]
    /\ GoTo("remember")
    /\ UNCHANGED <<vars, hellos, handshakes, replays, offer, incoming, origin,
                   relaySessions, serving, shutdown>>

\* registerHandshakeReplay, then the session's goroutines start.
acceptRemember ==
    /\ At("remember")
    /\ replays' = IF closed THEN replays ELSE
          [replays EXCEPT ![offer.hello.id] =
              [hello |-> offer.hello, peer |-> offer.from, remaining |-> ReplayLimit]]
    /\ GoTo("add")
    /\ UNCHANGED <<vars, hellos, handshakes, acks, offer, incoming, origin,
                   relaySessions, serving, shutdown>>

mayAdd == ~relayClosed /\ Cardinality(Held) < MaxSessions

acceptAdd ==
    /\ At("add") /\ mayAdd
    /\ relaySessions' = [relaySessions EXCEPT ![offer.hello.id] = incoming]
    /\ serving' = [serving EXCEPT ![incoming] = "serving"]
    /\ GoTo("waiting") /\ offer' = None /\ incoming' = None
    /\ UNCHANGED <<vars, handshake, origin, shutdown>>

\* addSession refused: ListenAndServe closes the session and goes on.
acceptClose ==
    /\ At("add") /\ ~mayAdd
    /\ serving' = [serving EXCEPT ![incoming] = "closing"]
    /\ GoTo("dropping")
    /\ UNCHANGED <<vars, handshake, offer, incoming, origin, relaySessions, shutdown>>

\* The write of the acknowledgment failed: the connection is closed and
\* ListenAndServe returns the error.
acceptAckFails ==
    /\ At("ack")
    /\ serving' = [serving EXCEPT ![incoming] = "closing"]
    /\ GoTo("failing")
    /\ UNCHANGED <<vars, handshake, offer, incoming, origin, relaySessions, shutdown>>

\* The session, or its transport, has been closed.
acceptClosed ==
    /\ \/ At("dropping") /\ GoTo("waiting")
       \/ At("failing") /\ GoTo("failed")
    /\ serving[incoming] = "closed"
    /\ offer' = None /\ incoming' = None
    /\ UNCHANGED <<vars, handshake, origin, relaySessions, serving, shutdown>>

\* Fault: the wait for a Hello does not end with the router.
routerDone_Unwatched == FALSE

routerDone == closed

\* nextHandshake sees the router's done channel.
acceptStops ==
    /\ At("waiting") /\ routerDone
    /\ GoTo("stopped")
    /\ UNCHANGED <<vars, handshake, offer, incoming, origin, relaySessions, serving,
                   shutdown>>

-----------------------------------------------------------------------------
(* Serving, and Close.                                                     *)

\* Fault: the session is removed but not closed.
afterServing_Leaks == "closed"

afterServing == "closing"

\* serveSession returns after an idle timeout, or when the session is closed,
\* and removes the session from the relay's map before it closes it.
serveEnds(k) ==
    /\ serving[k] = "serving"
    /\ relaySessions' = [i \in IDs |-> IF relaySessions[i] = k THEN None
                                       ELSE relaySessions[i]]
    /\ serving' = [serving EXCEPT ![k] = afterServing]
    /\ UNCHANGED <<vars, handshake, acceptor, shutdown>>

\* unregister drops the cached acknowledgment of the session.
forgotten(i) == [replays EXCEPT ![i] = None]

\* session.Close: the transport is unregistered if that has not been done.
sessionClose(k) ==
    /\ serving[k] = "closing"
    /\ unregister(k)
    /\ replays' = forgotten(connID[k])
    /\ serving' = [serving EXCEPT ![k] = "closed"]
    /\ UNCHANGED <<hellos, handshakes, acks, acceptor, relaySessions, shutdown>>

sessionCloseOrphan(k) ==
    /\ serving[k] = "closing"
    /\ unregisterOrphan(k)
    /\ serving' = [serving EXCEPT ![k] = "closed"]
    /\ UNCHANGED <<handshake, acceptor, relaySessions, shutdown>>

sessionCloseAgain(k) ==
    /\ serving[k] = "closing" /\ ended[k]
    /\ serving' = [serving EXCEPT ![k] = "closed"]
    /\ UNCHANGED <<vars, handshake, acceptor, relaySessions, shutdown>>

Close ==
    /\ closer = "idle"
    /\ relayClosed' = TRUE
    /\ relaySessions' = [i \in IDs |-> None]
    /\ closer' = "router"
    /\ UNCHANGED <<vars, handshake, acceptor, serving>>

closeRouter ==
    /\ closer = "router"
    /\ close
    /\ closer' = "sessions"
    /\ UNCHANGED <<handshake, acceptor, relaySessions, serving, relayClosed>>

\* closeOnce: readLoop has closed the router before.
closeRouterAgain ==
    /\ closer = "router" /\ closed
    /\ closer' = "sessions"
    /\ UNCHANGED <<vars, handshake, acceptor, relaySessions, serving, relayClosed>>

\* The transport can no longer be read: readLoop closes the router and returns.
readLoopEnds ==
    /\ reading
    /\ close
    /\ UNCHANGED relayVars

\* The router's close, and after it Relay.Close, close every session they found.
closeSession(k) ==
    /\ closed
    /\ unregisterOrphan(k)
    /\ UNCHANGED <<handshake, acceptor, relaySessions, serving, shutdown>>

-----------------------------------------------------------------------------
Handshake ==
    \/ \E h \in Hellos : sendHello(h)
    \/ \E h \in hellos, a \in Addrs :
          helloReplayed(h, a) \/ helloQueued(h, a) \/ helloDropped(h, a)

Accept ==
    \/ acceptTake \/ acceptStale \/ acceptTombstoned \/ acceptAdmit \/ acceptRefuse
    \/ \E k \in Conns : acceptRegister(k)
    \/ acceptReturns \/ acceptFails \/ acceptAck \/ acceptAckFails
    \/ acceptRemember \/ acceptAdd \/ acceptClose \/ acceptClosed \/ acceptStops

SessionEnd(k) == sessionClose(k) \/ sessionCloseOrphan(k) \/ sessionCloseAgain(k)

Shutdown == Close \/ closeRouter \/ closeRouterAgain \/ readLoopEnds \/ \E k \in Conns : closeSession(k)

\* Time passes, but the accept loop is not held up for longer than MaxStall.
RelayTick ==
    /\ offer # None => clock < offer.at + MaxStall
    /\ Tick
    /\ UNCHANGED relayVars

RelayNext ==
    \/ RelayTick \/ Handshake \/ Accept \/ Shutdown
    \/ \E k \in Conns : serveEnds(k) \/ SessionEnd(k)
    \/ (PathControl \/ Data) /\ UNCHANGED relayVars

RelaySpec == RelayInit /\ [][RelayNext]_allVars

\* Every goroutine that can go on does; serveSession sees a closed session.
RelayFairness ==
    /\ WF_allVars(Accept) /\ WF_allVars(closeRouter \/ closeRouterAgain)
    /\ \A k \in Conns :
          /\ WF_allVars(SessionEnd(k)) /\ WF_allVars(closeSession(k))
          /\ WF_allVars(ended[k] /\ serveEnds(k))

FairRelaySpec == RelaySpec /\ RelayFairness

-----------------------------------------------------------------------------
(* Properties.                                                             *)

\* "An old valid Hello cannot recreate an ended session": however a Hello is
\* repeated, delayed or sent from elsewhere, it makes at most one connection.
\* Its expiry, the tombstone and the checks of the accept loop play together.
HelloOnce ==
    \A k, l \in Conns : origin[k] # None /\ origin[k] = origin[l] => k = l

\* The cached acknowledgment of a session ID, which carries traffic keys, is
\* the one of the session that is registered under it.
CachedAckCurrent ==
    \A i \in IDs : ~closed /\ replays[i] # None =>
        sessions[i] # None /\ origin[sessions[i]] = replays[i].hello

\* A Hello is acknowledged at most once plus the replay limit.
AckBudget == \A h \in Hellos : acks[h] <= 1 + ReplayLimit

\* Every registered connection has a goroutine that will close it.
NoOrphanConnection ==
    \A k \in Conns : Live(k) => incoming = k \/ serving[k] \in {"serving", "closing"}

\* After Close every connection ends and the accept loop returns, wherever they
\* were when it was called.
CloseReleases ==
    relayClosed ~> /\ \A k \in Conns : connID[k] # None => ended[k]
                   /\ accept \in {"stopped", "failed"}

\* The relay's tests take it that ListenAndServe does not return while the relay
\* is open: a Hello that cannot be registered is refused, not fatal.
KeepsAccepting == [][accept = "register" => accept' # "failed"]_allVars

\* However a Hello is repeated, it makes one session, is acknowledged a bounded
\* number of times, and only ever with the keys of the session in force.
HelloSound == HelloOnce /\ AckBudget /\ CachedAckCurrent
=============================================================================
