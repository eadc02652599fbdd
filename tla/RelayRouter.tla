---------------------------- MODULE RelayRouter ----------------------------
(***************************************************************************)
(* The relay's transport router of internal/tgp/relay.go: which session    *)
(* owns which UDP source address, the authenticated exchange that adds a   *)
(* source to a session and moves its return path (path_control.go), the    *)
(* expiry and eviction of inactive paths, and the tombstones of ended      *)
(* sessions.                                                               *)
(*                                                                         *)
(* A step is what happens under r.mu.  The single goroutine of readLoop    *)
(* handles one path message at a time and gives the lock up between        *)
(* looking the session up and applying the message: held and readAt keep what it   *)
(* captured.  Registration (the accept loop), closing and the reads of a   *)
(* session happen on other goroutines, in between.                         *)
(*                                                                         *)
(* A connection is one relaySessionTransport; its path key is its own.     *)
(* A cookie is the tuple its bytes are computed from, so two cookies are   *)
(* equal exactly when their bytes are.  Time is in whole seconds, the      *)
(* granularity of cookies and request nonces; a nonce is the second it was *)
(* made in.  A message whose tag does not verify is dropped without a      *)
(* change of state, and has no action.                                     *)
(***************************************************************************)
EXTENDS Integers, FiniteSets, FiniteSetsExt, Sequences

CONSTANTS
    Conns,              \* relaySessionTransport objects
    IDs,                \* session IDs
    Addrs,              \* UDP source addresses
    None,
    AllowPaths,         \* allowAdditionalPaths: migration is not disabled
    MaxPaths,           \* defaultRelayMaxPathsPerSession
    MaxUsed,            \* defaultRelayUsedPathCookies
    Burst,              \* pathRequestTokenBurst
    Rate,               \* pathRequestTokensPerSecond
    RequestLife,        \* pathRequestLifetime
    CookieLife,         \* pathChallengeLifetime
    PathLife,           \* pathAuthorizationLifetime
    TombLife,           \* MaxHandshakeTimeout
    MaxTombstones,      \* maxHandshakeTombstones
    MaxPackets,         \* bound: packets on their way to a session at any time
    MaxChallenges,      \* bound: challenges ever sent
    MaxClock,           \* bound: seconds that pass
    WindowStarts        \* bound: seconds in which the observer may start over

Cookies == [conn : Conns, source : Addrs, nonce : Nat, at : Nat]

ASSUME NoneAssumption == None \notin Conns \cup IDs \cup Addrs \cup Cookies
ASSUME LimitsAssumption ==
    /\ AllowPaths \in BOOLEAN
    /\ MaxPaths \in Nat /\ MaxPaths > 1
    /\ MaxUsed \in Nat /\ MaxTombstones \in Nat \ {0}
    /\ Burst \in Nat /\ Rate \in Nat
    /\ RequestLife \in Nat /\ CookieLife \in Nat
    /\ PathLife \in Nat /\ TombLife \in Nat
    /\ MaxPackets \in Nat /\ MaxChallenges \in Nat /\ MaxClock \in Nat /\ WindowStarts \subseteq Nat

VARIABLES
    clock,
    closed,             \* relayTransportRouter.closed
    sessions,           \* session ID -> connection
    sources,            \* source address -> connection
    tombstones,         \* session ID -> expiry; 0 without one
    connID,             \* relaySessionTransport.id; None before registration
    home,               \* the address of the handshake, DatagramSession.remote
    ended,              \* relaySessionTransport.closeOnce has run
    paths,              \* the keys of relaySessionTransport.paths
    lastSeen,           \* relayPathState.lastSeen; 0 when not a path
    active,             \* activeSource
    used,               \* usedPathCookies, with their expiry
    tokens,             \* pathRequestTokens
    refillAt,           \* pathRequestRefillAt
    inbox,              \* sources of the packets waiting in packets, oldest first
    pending,            \* source of the packet the session is reading
    stage,              \* what readLoop is doing: "idle", "request", "response"
    held,               \* the cookie of the path message it handles, or None
    readAt,             \* now of handlePathRequest and handlePathResponse
    challenges,         \* cookies sent to the network
    since,              \* ghost: when the connection was registered
    windowFrom,         \* ghost: when the observer started to count
    granted,            \* ghost: challenges sent since then
    spent,              \* ghost: cookies that completed a challenge
    respent             \* ghost: a cookie completed a second challenge

table    == <<sessions, sources, tombstones>>
identity == <<connID, home, since>>
routes   == <<paths, lastSeen, active>>
window   == <<windowFrom, granted>>
bucket   == <<tokens, refillAt, window>>
data     == <<inbox, pending>>
reader   == <<stage, held, readAt>>
ledger   == <<used, spent, respent>>
vars     == <<clock, closed, table, identity, ended, routes, bucket, data,
              reader, challenges, ledger>>

Live(k) == connID[k] # None /\ sessions[connID[k]] = k

Init ==
    /\ clock = 1
    /\ closed = FALSE
    /\ sessions = [i \in IDs |-> None]
    /\ sources = [a \in Addrs |-> None]
    /\ tombstones = [i \in IDs |-> 0]
    /\ connID = [k \in Conns |-> None]
    /\ home = [k \in Conns |-> None]
    /\ ended = [k \in Conns |-> FALSE]
    /\ paths = [k \in Conns |-> {}]
    /\ lastSeen = [k \in Conns |-> [a \in Addrs |-> 0]]
    /\ active = [k \in Conns |-> None]
    /\ used = [k \in Conns |-> {}]
    /\ tokens = [k \in Conns |-> 0]
    /\ refillAt = [k \in Conns |-> 0]
    /\ inbox = [k \in Conns |-> << >>]
    /\ pending = [k \in Conns |-> None]
    /\ stage = "idle"
    /\ held = None
    /\ readAt = 0
    /\ challenges = {}
    /\ since = [k \in Conns |-> 0]
    /\ windowFrom = [k \in Conns |-> 0]
    /\ granted = [k \in Conns |-> 0]
    /\ spent = {}
    /\ respent = FALSE

Tick ==
    /\ clock < MaxClock
    /\ clock' = clock + 1
    /\ UNCHANGED <<closed, table, identity, ended, routes, bucket, data,
                   reader, challenges, ledger>>

-----------------------------------------------------------------------------
(* Registration and the end of a connection.                               *)

\* pruneHandshakeTombstonesLocked.
Prune(t) == [i \in IDs |-> IF clock < t[i] THEN t[i] ELSE 0]

Buried(t) == {i \in IDs : t[i] # 0}

Oldest(t) == {i \in Buried(t) : \A j \in Buried(t) : t[i] <= t[j]}

\* addHandshakeTombstoneLocked: at the limit the tombstone that expires first
\* is dropped, whichever of several.
AddTombstone(i) ==
    LET t == Prune(tombstones) IN
    \/ /\ Cardinality(Buried(t)) < MaxTombstones
       /\ tombstones' = [t EXCEPT ![i] = clock + TombLife]
    \/ /\ Cardinality(Buried(t)) >= MaxTombstones
       /\ \E j \in Oldest(t) :
            tombstones' = [n \in IDs |-> IF n = i THEN clock + TombLife
                                         ELSE IF n = j THEN 0 ELSE t[n]]

mayRegister(i, a) ==
    /\ ~closed
    /\ ~ (clock < tombstones[i])
    /\ sessions[i] = None
    /\ sources[a] = None

registerWithPathAuth(k, i, a) ==
    /\ connID[k] = None
    /\ mayRegister(i, a)
    /\ tombstones' = Prune(tombstones)
    /\ sessions' = [sessions EXCEPT ![i] = k]
    /\ sources' = [sources EXCEPT ![a] = k]
    /\ connID' = [connID EXCEPT ![k] = i]
    /\ home' = [home EXCEPT ![k] = a]
    /\ since' = [since EXCEPT ![k] = clock]
    /\ paths' = [paths EXCEPT ![k] = {a}]
    /\ lastSeen' = [lastSeen EXCEPT ![k] = [b \in Addrs |-> IF b = a THEN clock ELSE 0]]
    /\ active' = [active EXCEPT ![k] = a]
    /\ tokens' = [tokens EXCEPT ![k] = Burst]
    /\ refillAt' = [refillAt EXCEPT ![k] = clock]
    /\ windowFrom' = [windowFrom EXCEPT ![k] = clock]
    /\ UNCHANGED <<clock, closed, ended, used, granted, data, reader, challenges,
                   spent, respent>>

\* A refused registration only prunes, and not even that once closed.
registerRefused(i, a) ==
    /\ ~closed /\ ~mayRegister(i, a)
    /\ tombstones' = Prune(tombstones)
    /\ UNCHANGED <<clock, closed, sessions, sources, identity, ended, routes,
                   bucket, data, reader, challenges, ledger>>

\* sources without the mappings of the addresses S to the connection k.
Without(S, k) == [a \in Addrs |-> IF a \in S /\ sources[a] = k THEN None ELSE sources[a]]

\* Fault: only the active path of an ended connection is unmapped.
ownSources_Active(k) == {active[k]}

ownSources(k) == paths[k]

\* relaySessionTransport.Close and the unregister it calls.
unregister(k) ==
    /\ Live(k) /\ ~ended[k]
    /\ ended' = [ended EXCEPT ![k] = TRUE]
    /\ sessions' = [sessions EXCEPT ![connID[k]] = None]
    /\ AddTombstone(connID[k])
    /\ sources' = Without(ownSources(k), k)
    /\ UNCHANGED <<clock, closed, identity, routes, bucket, data, reader,
                   challenges, ledger>>

\* The same of a connection that the router's close already removed.
unregisterOrphan(k) ==
    /\ connID[k] # None /\ ~Live(k) /\ ~ended[k]
    /\ ended' = [ended EXCEPT ![k] = TRUE]
    /\ sources' = Without(ownSources(k), k)
    /\ UNCHANGED <<clock, closed, sessions, tombstones, identity, routes, bucket,
                   data, reader, challenges, ledger>>

close ==
    /\ ~closed
    /\ closed' = TRUE
    /\ sessions' = [i \in IDs |-> None]
    /\ sources' = [a \in Addrs |-> None]
    /\ UNCHANGED <<clock, tombstones, identity, ended, routes, bucket, data,
                   reader, challenges, ledger>>

-----------------------------------------------------------------------------
(* The path exchange, on the goroutine of readLoop.                        *)

Rest == stage' = "idle" /\ held' = None /\ readAt' = 0

\* The session of the message's ID is the one whose key signed it.
Known(c) == Live(c.conn)

\* Nobody else owns the source.
Ownable(c) == sources[c.source] \in {None, c.conn}

\* handlePathRequest up to its second lock: a request of connection k made in
\* second n, seen from a.  The cookie is the one it is going to be answered with.
requestBegin(k, n, a) ==
    /\ stage = "idle"
    /\ Live(k)
    /\ clock - n <= RequestLife
    /\ Cardinality(challenges) < MaxChallenges
    /\ stage' = "request"
    /\ held' = [conn |-> k, source |-> a, nonce |-> n, at |-> clock]
    /\ readAt' = clock
    /\ UNCHANGED <<clock, closed, table, identity, ended, routes, bucket, data,
                   challenges, ledger>>

mayChallenge(c) ==
    /\ Known(c)
    /\ AllowPaths
    /\ active[c.conn] # c.source
    /\ Ownable(c)

requestStale ==
    /\ stage = "request"
    /\ ~mayChallenge(held)
    /\ Rest
    /\ UNCHANGED <<clock, closed, table, identity, ended, routes, bucket, data,
                   challenges, ledger>>

\* The observer of a connection's quota starts to count again, at a time of its
\* choice between two requests: what holds of its count holds of every window.
openWindow(k) ==
    /\ Live(k) /\ stage # "request"
    /\ clock \in WindowStarts
    /\ windowFrom' = [windowFrom EXCEPT ![k] = clock]
    /\ granted' = [granted EXCEPT ![k] = 0]
    /\ UNCHANGED <<clock, closed, table, identity, ended, routes, tokens, refillAt,
                   data, reader, challenges, ledger>>

refilled(k, now) ==
    LET t == tokens[k] + (now - refillAt[k]) * Rate
    IN  IF t < Burst THEN t ELSE Burst

\* consumePathRequestTokenLocked without a token: the refill still happens.
requestThrottled ==
    /\ stage = "request"
    /\ mayChallenge(held)
    /\ refilled(held.conn, readAt) < 1
    /\ tokens' = [tokens EXCEPT ![held.conn] = refilled(held.conn, readAt)]
    /\ refillAt' = [refillAt EXCEPT ![held.conn] = readAt]
    /\ Rest
    /\ UNCHANGED <<clock, closed, table, identity, ended, routes, window, data,
                   challenges, ledger>>

requestChallenged ==
    /\ stage = "request"
    /\ mayChallenge(held)
    /\ refilled(held.conn, readAt) >= 1
    /\ tokens' = [tokens EXCEPT ![held.conn] = refilled(held.conn, readAt) - 1]
    /\ refillAt' = [refillAt EXCEPT ![held.conn] = readAt]
    /\ granted' = [granted EXCEPT ![held.conn] = @ + 1]
    /\ challenges' = challenges \cup {held}
    /\ Rest
    /\ UNCHANGED <<clock, closed, table, identity, ended, routes, windowFrom, data,
                   ledger>>

freshCookie(c) == clock - c.at <= CookieLife

\* handlePathResponse up to its second lock.  The response to a challenge comes
\* at least a second after it was sent (see README, the bounds of the router).
responseBegin(c) ==
    /\ stage = "idle"
    /\ c \in challenges /\ c.at < clock
    /\ Known(c) /\ AllowPaths /\ Ownable(c)
    /\ freshCookie(c)
    /\ stage' = "response"
    /\ held' = c
    /\ readAt' = clock
    /\ UNCHANGED <<clock, closed, table, identity, ended, routes, bucket, data,
                   challenges, ledger>>

\* Fault: the owner of the source is not looked at again.
stillOwnable_Unchecked(c) == Known(c)

stillOwnable(c) == Known(c) /\ Ownable(c)

responseStale ==
    /\ stage = "response"
    /\ ~stillOwnable(held)
    /\ Rest
    /\ UNCHANGED <<clock, closed, table, identity, ended, routes, bucket, data,
                   challenges, ledger>>

\* purgeUsedPathCookiesLocked.
unexpired(k, now) == {u \in used[k] : now < u.until}

Consumed(c) == \E u \in unexpired(c.conn, readAt) : u.cookie = c

mayConsume(c) ==
    /\ ~Consumed(c)
    /\ Cardinality(unexpired(c.conn, readAt)) < MaxUsed

responseReplayed ==
    /\ stage = "response"
    /\ stillOwnable(held)
    /\ ~mayConsume(held)
    /\ used' = [used EXCEPT ![held.conn] = unexpired(held.conn, readAt)]
    /\ Rest
    /\ UNCHANGED <<clock, closed, table, identity, ended, routes, bucket, data,
                   challenges, spent, respent>>

\* purgeExpiredPathsLocked: the paths of k that it leaves.
kept(k, now) ==
    {a \in paths[k] : a = active[k] \/ now - lastSeen[k][a] < PathLife}

\* evictOldestInactivePathLocked: which of several oldest paths is the order
\* of iteration over a map.
Evictable(k, S) ==
    {a \in S \ {active[k]} :
        \A b \in S \ {active[k]} : lastSeen[k][a] <= lastSeen[k][b]}

mustEvict(c, S) == c.source \notin S /\ Cardinality(S) >= MaxPaths

\* Fault: a consumed cookie is remembered for too short a time.
rememberUntil_Short(now) == now + CookieLife - 2

rememberUntil(now) == now + CookieLife

\* The rest of handlePathResponse: the cookie is consumed, the source becomes a
\* path and the active one; gone are the paths that expired or were evicted.
complete(c, gone) ==
    LET k == c.conn
        left == paths[k] \ gone
    IN
    /\ used' = [used EXCEPT ![k] =
          unexpired(k, readAt) \cup {[cookie |-> c, until |-> rememberUntil(readAt)]}]
    /\ paths' = [paths EXCEPT ![k] = left \cup {c.source}]
    /\ lastSeen' = [lastSeen EXCEPT ![k] =
          [a \in Addrs |-> IF a \in {c.source, active[k]} THEN readAt
                           ELSE IF a \in left THEN lastSeen[k][a] ELSE 0]]
    /\ active' = [active EXCEPT ![k] = c.source]
    /\ sources' = [Without(gone, k) EXCEPT ![c.source] = k]
    /\ spent' = spent \cup {c}
    /\ respent' = (respent \/ c \in spent)
    /\ Rest
    /\ UNCHANGED <<clock, closed, sessions, tombstones, identity, ended, bucket,
                   data, challenges>>

responseCompletes ==
    /\ stage = "response"
    /\ stillOwnable(held) /\ mayConsume(held)
    /\ LET S == kept(held.conn, readAt) IN
       /\ ~mustEvict(held, S)
       /\ complete(held, paths[held.conn] \ S)

responseEvicts ==
    /\ stage = "response"
    /\ stillOwnable(held) /\ mayConsume(held)
    /\ LET S == kept(held.conn, readAt) IN
       /\ mustEvict(held, S)
       /\ \E v \in Evictable(held.conn, S) :
            complete(held, (paths[held.conn] \ S) \cup {v})

-----------------------------------------------------------------------------
(* Data: routeData on the router, then the read loop of the session.       *)

\* Packets that a live session has in its queue or is reading.
Travelling(k) == IF ended[k] THEN 0 ELSE Len(inbox[k]) + (IF pending[k] = None THEN 0 ELSE 1)

routeData(a) ==
    LET k == sources[a] IN
    /\ k # None
    /\ MapThenSumSet(Travelling, Conns) < MaxPackets
    /\ inbox' = [inbox EXCEPT ![k] = Append(@, a)]
    /\ UNCHANGED <<clock, closed, table, identity, ended, routes, bucket, pending,
                   reader, challenges, ledger>>

Take(k) == inbox' = [inbox EXCEPT ![k] = Tail(@)]

readable(k) == ~ended[k] /\ pending[k] = None /\ inbox[k] # << >>

\* sourceEligibleForReplay accepts the session's remote without asking.
readFromRemote(k) ==
    /\ readable(k) /\ Head(inbox[k]) = home[k]
    /\ Take(k)
    /\ pending' = [pending EXCEPT ![k] = home[k]]
    /\ UNCHANGED <<clock, closed, table, identity, ended, routes, bucket, reader,
                   challenges, ledger>>

\* IsSourceAuthorized, which purges first, and what it leaves of the paths.
purge(k) ==
    LET S == kept(k, clock) IN
    /\ paths' = [paths EXCEPT ![k] = S]
    /\ lastSeen' = [lastSeen EXCEPT ![k] =
          [a \in Addrs |-> IF a \in S THEN lastSeen[k][a] ELSE 0]]
    /\ sources' = Without(paths[k] \ S, k)

\* Data from any other source needs a path that has not expired.
readFromPath(k) ==
    LET a == Head(inbox[k]) IN
    /\ readable(k) /\ a # home[k]
    /\ purge(k)
    /\ a \in kept(k, clock)
    /\ Take(k)
    /\ pending' = [pending EXCEPT ![k] = a]
    /\ UNCHANGED <<clock, closed, sessions, tombstones, identity, ended, active,
                   bucket, reader, challenges, ledger>>

readUnauthorized(k) ==
    LET a == Head(inbox[k]) IN
    /\ readable(k) /\ a # home[k]
    /\ purge(k)
    /\ a \notin kept(k, clock)
    /\ Take(k)
    /\ UNCHANGED <<clock, closed, sessions, tombstones, identity, ended, active,
                   bucket, pending, reader, challenges, ledger>>

\* Fault: data moves the return path, as on a transport without managed paths.
activeAfterData_Migrates(k) == [active EXCEPT ![k] = pending[k]]

\* acceptSource on a transport that manages the return path itself.
activeAfterData(k) == active

\* ObserveAuthorizedSource, once the packet has been accepted.
ObserveAuthorizedSource(k) ==
    /\ pending[k] # None /\ pending[k] \in paths[k]
    /\ lastSeen' = [lastSeen EXCEPT ![k] =
          [a \in Addrs |-> IF a = pending[k] THEN clock ELSE lastSeen[k][a]]]
    /\ active' = activeAfterData(k)
    /\ pending' = [pending EXCEPT ![k] = None]
    /\ UNCHANGED <<clock, closed, table, identity, ended, paths, bucket, inbox,
                   reader, challenges, ledger>>

\* The packet is a duplicate, is refused by the FEC decoder, or its path is gone.
readIgnored(k) ==
    /\ pending[k] # None
    /\ pending' = [pending EXCEPT ![k] = None]
    /\ UNCHANGED <<clock, closed, table, identity, ended, routes, bucket, inbox,
                   reader, challenges, ledger>>

-----------------------------------------------------------------------------
Registration ==
    \/ \E k \in Conns, i \in IDs, a \in Addrs : registerWithPathAuth(k, i, a)
    \/ \E i \in IDs, a \in Addrs : registerRefused(i, a)
    \/ \E k \in Conns : unregister(k) \/ unregisterOrphan(k)
    \/ close

PathControl ==
    \/ \E k \in Conns, a \in Addrs : \E n \in since[k]..clock : requestBegin(k, n, a)
    \/ requestStale \/ requestThrottled \/ requestChallenged
    \/ \E k \in Conns : openWindow(k)
    \/ \E c \in challenges : responseBegin(c)
    \/ responseStale \/ responseReplayed \/ responseCompletes \/ responseEvicts

Data ==
    \/ \E a \in Addrs : routeData(a)
    \/ \E k \in Conns : \/ readFromRemote(k) \/ readFromPath(k)
                        \/ readUnauthorized(k) \/ readIgnored(k)
                        \/ ObserveAuthorizedSource(k)

Next == Tick \/ Registration \/ PathControl \/ Data

Spec == Init /\ [][Next]_vars

-----------------------------------------------------------------------------
(* Properties.                                                             *)

\* Every variable has its type.
TypeOK ==
    /\ clock \in Nat /\ closed \in BOOLEAN
    /\ sessions \in [IDs -> Conns \cup {None}]
    /\ sources \in [Addrs -> Conns \cup {None}]
    /\ tombstones \in [IDs -> Nat]
    /\ connID \in [Conns -> IDs \cup {None}]
    /\ home \in [Conns -> Addrs \cup {None}]
    /\ ended \in [Conns -> BOOLEAN]
    /\ paths \in [Conns -> SUBSET Addrs]
    /\ lastSeen \in [Conns -> [Addrs -> Nat]]
    /\ active \in [Conns -> Addrs \cup {None}]
    /\ used \in [Conns -> SUBSET [cookie : Cookies, until : Nat]]
    /\ tokens \in [Conns -> Nat] /\ refillAt \in [Conns -> Nat]
    /\ inbox \in [Conns -> Seq(Addrs)]
    /\ pending \in [Conns -> Addrs \cup {None}]
    /\ stage \in {"idle", "request", "response"}
    /\ held \in Cookies \cup {None} /\ readAt \in Nat
    /\ (stage = "idle") <=> (held = None)
    /\ challenges \in SUBSET Cookies
    /\ since \in [Conns -> Nat] /\ windowFrom \in [Conns -> Nat] /\ granted \in [Conns -> Nat]
    /\ spent \in SUBSET Cookies /\ respent \in BOOLEAN

\* The demultiplexing table and the sessions' own path sets agree: a source is
\* mapped to a connection exactly when the connection is registered and the
\* source is one of its paths (sources and paths are updated in six places).
SourcesConsistent ==
    \A a \in Addrs, k \in Conns :
        sources[a] = k <=> Live(k) /\ a \in paths[k]

\* A registered connection can always be answered: its active source is one of
\* its paths, so WritePacket finds an address, whatever expired or was evicted.
ActiveIsAuthorized == \A k \in Conns : Live(k) => active[k] \in paths[k]

\* defaultRelayMaxPathsPerSession bounds every session's paths.
PathBound == \A k \in Conns : Cardinality(paths[k]) <= MaxPaths

\* A response completes its challenge at most once: the replay set remembers a
\* cookie for as long as the cookie itself is valid.
CookieOnce == ~respent

\* The per-session quota: in every window of time a connection is sent at most a
\* burst of challenges and what the bucket is refilled with in the window.
ChallengeRate ==
    \A k \in Conns : granted[k] <= Burst + Rate * (clock - windowFrom[k])

\* A source that belongs to a session is never taken over by another one: it is
\* released first, also when the source was free as the response was read.
NoTheft ==
    [][\A a \in Addrs :
          sources[a] # None /\ sources'[a] # sources[a] => sources'[a] = None]_vars

\* The return path of a session only moves to a source that answered, in time,
\* a challenge sent to that source for that session, never because of data.
ReturnPathProven ==
    [][\A k \in Conns :
          active[k] # None /\ active'[k] # active[k] =>
             \E c \in challenges \ spent :
                /\ c.conn = k /\ c.source = active'[k]
                /\ readAt - c.at <= CookieLife]_vars

\* The paths of the sessions are sound: the table agrees with them, each session
\* can be answered, and none holds more than its share.
PathsSound == SourcesConsistent /\ ActiveIsAuthorized /\ PathBound

\* What challenges can be used for is bounded: a cookie completes once, and the
\* quota holds in every window of time.
ChallengesBounded == CookieOnce /\ ChallengeRate
=============================================================================
