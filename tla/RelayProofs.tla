----------------------------- MODULE RelayProofs -----------------------------
(***************************************************************************)
(* Proofs about the relay's transport router and about the relay on top of *)
(* it, for any sets of connections, session IDs and addresses and any      *)
(* limits and lifetimes.                                                   *)
(*                                                                         *)
(* The router.  Its inductive invariant has three parts beside the types:  *)
(* the demultiplexing table agrees with the sessions' paths (RouteInv), a  *)
(* cookie that was consumed is remembered for as long as it is valid       *)
(* (CookieInv), and the token bucket accounts for every challenge of a     *)
(* window (RateInv).                                                       *)
(*                                                                         *)
(* The relay.  The router's invariant survives the accept loop and the     *)
(* shutdown; ConnInv follows a connection through registration, serving    *)
(* and closing; HelloInv and AckInv follow a Hello through its acceptance, *)
(* its tombstone and its cached acknowledgment.  That a Hello makes one    *)
(* session needs two conditions, which are hypotheses of its theorem: the  *)
(* table of tombstones has room for every session ID, so that none is      *)
(* dropped before it expires, and the accept loop takes less than a        *)
(* tombstone's life from reading a Hello to registering its session.       *)
(***************************************************************************)
EXTENDS Relay, TLAPS, FiniteSetTheorems

-----------------------------------------------------------------------------
(* The router.                                                             *)

\* What is true of a connection before it is registered, and of its paths after.
RouteInv ==
    /\ SourcesConsistent /\ ActiveIsAuthorized
    /\ \A k \in Conns : IsFiniteSet(paths[k]) /\ Cardinality(paths[k]) <= MaxPaths
    /\ \A k \in Conns : connID[k] = None => active[k] = None /\ granted[k] = 0

\* A cookie that is remembered for longer than it is valid.
Remembered(c) == \E u \in used[c.conn] : u.cookie = c /\ c.at + CookieLife < u.until

CookieInv ==
    /\ \A c \in spent : c.at + CookieLife < clock \/ Remembered(c)
    /\ stage = "response" =>
          /\ held \in challenges
          /\ held.at < readAt /\ readAt <= held.at + CookieLife
          /\ held \in spent => Remembered(held)
    /\ ~respent

\* What the bucket has given out since the observer started to count.
RateInv ==
    /\ readAt <= clock
    /\ \A k \in Conns :
          /\ windowFrom[k] <= clock /\ refillAt[k] <= clock /\ tokens[k] <= Burst
          /\ granted[k] # 0 =>
                /\ windowFrom[k] <= refillAt[k]
                /\ granted[k] + tokens[k] <= Burst + Rate * (refillAt[k] - windowFrom[k])
    /\ stage = "request" =>
          /\ windowFrom[held.conn] <= readAt /\ refillAt[held.conn] <= readAt
          /\ connID[held.conn] # None

Inv == TypeOK /\ RouteInv /\ CookieInv /\ RateInv

-----------------------------------------------------------------------------
\* The message that readLoop handles is one.
LEMMA HeldType ==
    ASSUME Inv, stage # "idle"
    PROVE  held \in Cookies /\ held.conn \in Conns /\ held.source \in Addrs /\ held.at \in Nat
BY DEF Inv, TypeOK, Cookies

\* A refilled bucket holds a natural number of tokens, a burst at most.
LEMMA RefilledType ==
    ASSUME Inv, stage = "request"
    PROVE  /\ refilled(held.conn, readAt) \in Nat /\ refilled(held.conn, readAt) <= Burst
           /\ refilled(held.conn, readAt) <= tokens[held.conn] + (readAt - refillAt[held.conn]) * Rate
<1>1. held.conn \in Conns
  BY HeldType
<1>2. /\ tokens[held.conn] \in Nat /\ refillAt[held.conn] \in Nat /\ readAt \in Nat
      /\ refillAt[held.conn] <= readAt
  BY <1>1 DEF Inv, TypeOK, RateInv
<1>3. (readAt - refillAt[held.conn]) * Rate \in Nat
  BY <1>2, LimitsAssumption
<1> QED BY <1>2, <1>3, LimitsAssumption DEF refilled

\* A tombstone more, and perhaps the oldest one less.
LEMMA TombstoneType ==
    ASSUME TypeOK, NEW i \in IDs, AddTombstone(i)
    PROVE  tombstones' \in [IDs -> Nat]
<1>1. Prune(tombstones) \in [IDs -> Nat] /\ clock + TombLife \in Nat
  BY LimitsAssumption DEF TypeOK, Prune
<1> HIDE DEF Prune
<1>2. \/ tombstones' = [Prune(tombstones) EXCEPT ![i] = clock + TombLife]
      \/ \E j \in Oldest(Prune(tombstones)) :
            tombstones' = [n \in IDs |-> IF n = i THEN clock + TombLife
                                         ELSE IF n = j THEN 0 ELSE Prune(tombstones)[n]]
  BY DEF AddTombstone
<1>3. CASE tombstones' = [Prune(tombstones) EXCEPT ![i] = clock + TombLife]
  BY <1>1, <1>3
<1>4. ASSUME NEW j \in Oldest(Prune(tombstones)),
             tombstones' = [n \in IDs |-> IF n = i THEN clock + TombLife
                                         ELSE IF n = j THEN 0 ELSE Prune(tombstones)[n]]
      PROVE  tombstones' \in [IDs -> Nat]
  BY <1>1, <1>4
<1> QED BY <1>2, <1>3, <1>4

\* Every action keeps the types.
LEMMA TypeStep == Inv /\ [Next]_vars => TypeOK'
<1> SUFFICES ASSUME Inv, [Next]_vars PROVE TypeOK'
    OBVIOUS
<1>0. TypeOK
  BY DEF Inv
<1> USE <1>0, NoneAssumption, LimitsAssumption
    DEF TypeOK, table, identity, routes, window, bucket, data, reader, ledger, Rest
<1>1. CASE Tick
  BY <1>1 DEF Tick
<1>2. CASE Registration
  <2>1. Prune(tombstones) \in [IDs -> Nat]
    BY DEF Prune
  <2>2. ASSUME NEW k \in Conns, NEW i \in IDs, NEW a \in Addrs, registerWithPathAuth(k, i, a) PROVE TypeOK'
    <3>1. lastSeen' \in [Conns -> [Addrs -> Nat]]
      BY <2>2 DEF registerWithPathAuth
    <3>2. /\ sessions' \in [IDs -> Conns \cup {None}] /\ sources' \in [Addrs -> Conns \cup {None}]
          /\ connID' \in [Conns -> IDs \cup {None}] /\ home' \in [Conns -> Addrs \cup {None}]
      BY <2>2 DEF registerWithPathAuth
    <3>3. paths' \in [Conns -> SUBSET Addrs] /\ active' \in [Conns -> Addrs \cup {None}]
      BY <2>2 DEF registerWithPathAuth
    <3>4. /\ tokens' \in [Conns -> Nat] /\ refillAt' \in [Conns -> Nat]
          /\ since' \in [Conns -> Nat] /\ windowFrom' \in [Conns -> Nat]
      BY <2>2 DEF registerWithPathAuth
    <3> QED BY <2>1, <2>2, <3>1, <3>2, <3>3, <3>4 DEF registerWithPathAuth
  <2>3. ASSUME NEW i \in IDs, NEW a \in Addrs, registerRefused(i, a) PROVE TypeOK'
    BY <2>1, <2>3 DEF registerRefused
  <2>4. ASSUME NEW k \in Conns PROVE Without(ownSources(k), k) \in [Addrs -> Conns \cup {None}]
    BY DEF Without
  <2>5. ASSUME NEW k \in Conns, unregister(k) PROVE TypeOK'
    <3>1. tombstones' \in [IDs -> Nat]
      BY <2>5, TombstoneType DEF unregister, Live
    <3>2. ended' \in [Conns -> BOOLEAN]
      BY <2>5 DEF unregister
    <3> QED BY <2>4, <2>5, <3>1, <3>2 DEF unregister
  <2>6. ASSUME NEW k \in Conns, unregisterOrphan(k) PROVE TypeOK'
    <3>1. ended' \in [Conns -> BOOLEAN]
      BY <2>6 DEF unregisterOrphan
    <3> QED BY <2>4, <2>6, <3>1 DEF unregisterOrphan
  <2>7. CASE close
    <3>1. closed' \in BOOLEAN
      BY <2>7, Zenon DEF close
    <3> QED BY <2>7, <3>1 DEF close
  <2> QED BY <1>2, <2>2, <2>3, <2>5, <2>6, <2>7 DEF Registration
<1>3. CASE PathControl
  <2>1. ASSUME NEW k \in Conns, NEW a \in Addrs, NEW n \in since[k]..clock, requestBegin(k, n, a) PROVE TypeOK'
    <3>1. held' \in Cookies /\ held' # None
      <4>1. since[k] \in Nat /\ n \in Nat
        BY <2>1
      <4>2. held' = [conn |-> k, source |-> a, nonce |-> n, at |-> clock]
        BY <2>1 DEF requestBegin
      <4> QED BY <4>1, <4>2 DEF Cookies
    <3> QED BY <2>1, <3>1 DEF requestBegin
  <2>2. CASE requestStale
    BY <2>2 DEF requestStale
  <2>3. CASE requestThrottled \/ requestChallenged
    <3>1. held.conn \in Conns /\ held \in Cookies
      BY <2>3, HeldType DEF requestThrottled, requestChallenged
    <3>2. refilled(held.conn, readAt) \in Nat
      BY <2>3, RefilledType DEF requestThrottled, requestChallenged
    <3>3. CASE requestThrottled
      <4>1. tokens' \in [Conns -> Nat] /\ refillAt' \in [Conns -> Nat]
        BY <3>1, <3>2, <3>3 DEF requestThrottled
      <4> QED BY <3>3, <4>1 DEF requestThrottled
    <3>4. CASE requestChallenged
      <4>1. refilled(held.conn, readAt) - 1 \in Nat
        BY <3>2, <3>4 DEF requestChallenged
      <4>2. tokens' \in [Conns -> Nat]
        BY <3>1, <3>4, <4>1 DEF requestChallenged
      <4>3. refillAt' \in [Conns -> Nat] /\ granted' \in [Conns -> Nat]
        BY <3>1, <3>4 DEF requestChallenged
      <4>4. challenges' \in SUBSET Cookies
        BY <3>1, <3>4 DEF requestChallenged
      <4> QED BY <3>4, <4>2, <4>3, <4>4 DEF requestChallenged
    <3> QED BY <2>3, <3>3, <3>4
  <2>4. ASSUME NEW k \in Conns, openWindow(k) PROVE TypeOK'
    BY <2>4 DEF openWindow
  <2>5. ASSUME NEW c \in challenges, responseBegin(c) PROVE TypeOK'
    BY <2>5 DEF responseBegin
  <2>6. CASE responseStale
    BY <2>6 DEF responseStale
  <2>7. CASE responseReplayed
    <3>1. held.conn \in Conns
      BY <2>7, HeldType DEF responseReplayed
    <3>2. used' \in [Conns -> SUBSET [cookie : Cookies, until : Nat]]
      BY <2>7, <3>1 DEF responseReplayed, unexpired
    <3> QED BY <2>7, <3>2 DEF responseReplayed
  <2>8. ASSUME stage = "response", NEW gone, complete(held, gone) PROVE TypeOK'
    <3>1. held \in Cookies /\ held.conn \in Conns /\ held.source \in Addrs
      BY <2>8, HeldType
    <3>2. used' \in [Conns -> SUBSET [cookie : Cookies, until : Nat]]
      <4>1. [cookie |-> held, until |-> rememberUntil(readAt)] \in [cookie : Cookies, until : Nat]
        BY <3>1 DEF rememberUntil
      <4> QED BY <2>8, <3>1, <4>1 DEF complete, unexpired
    <3>3. paths' \in [Conns -> SUBSET Addrs]
      BY <2>8, <3>1 DEF complete
    <3>4. lastSeen' \in [Conns -> [Addrs -> Nat]]
      BY <2>8, <3>1 DEF complete
    <3>5. sources' \in [Addrs -> Conns \cup {None}]
      BY <2>8, <3>1 DEF complete, Without
    <3>6. active' \in [Conns -> Addrs \cup {None}] /\ spent' \in SUBSET Cookies
      BY <2>8, <3>1 DEF complete
    <3>7. respent' \in BOOLEAN
      BY <2>8, Zenon DEF complete
    <3> QED BY <2>8, <3>2, <3>3, <3>4, <3>5, <3>6, <3>7 DEF complete
  <2> QED BY <1>3, <2>1, <2>2, <2>3, <2>4, <2>5, <2>6, <2>7, <2>8 DEF PathControl, responseCompletes, responseEvicts
<1>4. CASE Data
  <2>1. ASSUME NEW a \in Addrs, routeData(a) PROVE TypeOK'
    <3>1. sources[a] \in Conns
      BY <2>1 DEF routeData
    <3>2. inbox' \in [Conns -> Seq(Addrs)]
      BY <2>1, <3>1 DEF routeData
    <3> QED BY <2>1, <3>2 DEF routeData
  <2>2. ASSUME NEW k \in Conns, readable(k), Take(k) PROVE inbox' \in [Conns -> Seq(Addrs)] /\ Head(inbox[k]) \in Addrs
    BY <2>2 DEF readable, Take
  <2>3. ASSUME NEW k \in Conns, readFromRemote(k) PROVE TypeOK'
    BY <2>2, <2>3 DEF readFromRemote
  <2>4. ASSUME NEW k \in Conns, purge(k)
        PROVE  /\ paths' \in [Conns -> SUBSET Addrs] /\ lastSeen' \in [Conns -> [Addrs -> Nat]]
               /\ sources' \in [Addrs -> Conns \cup {None}]
    <3>1. kept(k, clock) \subseteq Addrs
      BY DEF kept
    <3>2. paths' \in [Conns -> SUBSET Addrs]
      BY <2>4, <3>1 DEF purge
    <3>3. lastSeen' \in [Conns -> [Addrs -> Nat]]
      BY <2>4 DEF purge
    <3>4. sources' \in [Addrs -> Conns \cup {None}]
      BY <2>4 DEF purge, Without
    <3> QED BY <3>2, <3>3, <3>4
  <2>5. ASSUME NEW k \in Conns, readFromPath(k) PROVE TypeOK'
    <3>1. /\ inbox' \in [Conns -> Seq(Addrs)] /\ Head(inbox[k]) \in Addrs
          /\ paths' \in [Conns -> SUBSET Addrs] /\ lastSeen' \in [Conns -> [Addrs -> Nat]]
          /\ sources' \in [Addrs -> Conns \cup {None}]
      BY <2>2, <2>4, <2>5 DEF readFromPath
    <3> QED BY <2>5, <3>1 DEF readFromPath
  <2>6. ASSUME NEW k \in Conns, readUnauthorized(k) PROVE TypeOK'
    <3>1. /\ inbox' \in [Conns -> Seq(Addrs)]
          /\ paths' \in [Conns -> SUBSET Addrs] /\ lastSeen' \in [Conns -> [Addrs -> Nat]]
          /\ sources' \in [Addrs -> Conns \cup {None}]
      BY <2>2, <2>4, <2>6 DEF readUnauthorized
    <3> QED BY <2>6, <3>1 DEF readUnauthorized
  <2>7. ASSUME NEW k \in Conns, readIgnored(k) PROVE TypeOK'
    BY <2>7 DEF readIgnored
  <2>8. ASSUME NEW k \in Conns, ObserveAuthorizedSource(k) PROVE TypeOK'
    <3>1. lastSeen' \in [Conns -> [Addrs -> Nat]]
      BY <2>8 DEF ObserveAuthorizedSource
    <3> QED BY <2>8, <3>1 DEF ObserveAuthorizedSource, activeAfterData
  <2> QED BY <1>4, <2>1, <2>3, <2>5, <2>6, <2>7, <2>8 DEF Data
<1>5. CASE UNCHANGED vars
  BY <1>5 DEF vars
<1> QED BY <1>1, <1>2, <1>3, <1>4, <1>5 DEF Next

-----------------------------------------------------------------------------
\* RouteInv speaks of these variables only.
LEMMA RouteKept ==
    ASSUME RouteInv, UNCHANGED <<sessions, sources, connID, paths, active, granted>>
    PROVE  RouteInv'
BY DEF RouteInv, SourcesConsistent, ActiveIsAuthorized, Live

\* What the purge of expired paths leaves: the active path, and no path that was
\* not there.
LEMMA KeptPaths ==
    ASSUME Inv, NEW k \in Conns, NEW now
    PROVE  /\ kept(k, now) \subseteq paths[k] /\ IsFiniteSet(kept(k, now))
           /\ Cardinality(kept(k, now)) \in Nat /\ Cardinality(kept(k, now)) <= MaxPaths
           /\ active[k] \in paths[k] => active[k] \in kept(k, now)
<1>1. kept(k, now) \subseteq paths[k] /\ (active[k] \in paths[k] => active[k] \in kept(k, now))
  BY DEF kept
<1>2. IsFiniteSet(paths[k]) /\ Cardinality(paths[k]) <= MaxPaths
  BY DEF Inv, RouteInv
<1>3. /\ IsFiniteSet(kept(k, now)) /\ Cardinality(kept(k, now)) <= Cardinality(paths[k])
      /\ Cardinality(kept(k, now)) \in Nat /\ Cardinality(paths[k]) \in Nat
  BY <1>1, <1>2, FS_Subset, FS_CardinalityType
<1> QED BY <1>1, <1>2, <1>3, LimitsAssumption

\* A purge takes a path from the connection and from the table alike.
LEMMA PurgeKeeps ==
    ASSUME Inv, NEW k \in Conns, purge(k), UNCHANGED <<sessions, connID, active, granted>>
    PROVE  RouteInv'
<1> DEFINE S == kept(k, clock)
<1>1. /\ S \subseteq paths[k] /\ IsFiniteSet(S) /\ Cardinality(S) <= MaxPaths
      /\ active[k] \in paths[k] => active[k] \in S
  BY KeptPaths
<1>2. paths' = [paths EXCEPT ![k] = S] /\ sources' = Without(paths[k] \ S, k)
  BY DEF purge
<1> HIDE DEF S
<1>3. TypeOK /\ RouteInv
  BY DEF Inv
<1>4. paths'[k] = S /\ \A l \in Conns : l # k => paths'[l] = paths[l]
  BY <1>2, <1>3 DEF TypeOK
<1>5. \A a \in Addrs : sources'[a] = IF a \in paths[k] \ S /\ sources[a] = k THEN None ELSE sources[a]
  BY <1>2 DEF Without
<1>6. \A l \in Conns : Live(l)' <=> Live(l)
  BY DEF Live
<1>7. SourcesConsistent'
  <2> SUFFICES ASSUME NEW a \in Addrs, NEW l \in Conns PROVE sources'[a] = l <=> Live(l)' /\ a \in paths'[l]
      BY DEF SourcesConsistent
  <2>1. sources[a] = l <=> Live(l) /\ a \in paths[l]
    BY <1>3 DEF RouteInv, SourcesConsistent
  <2>2. sources[a] = k <=> Live(k) /\ a \in paths[k]
    BY <1>3 DEF RouteInv, SourcesConsistent
  <2> QED BY <1>1, <1>4, <1>5, <1>6, <2>1, <2>2, NoneAssumption
<1>8. ActiveIsAuthorized'
  BY <1>1, <1>3, <1>4, <1>6 DEF RouteInv, ActiveIsAuthorized
<1> QED BY <1>1, <1>3, <1>4, <1>7, <1>8 DEF RouteInv

\* A completed challenge adds the source to the connection and to the table.
LEMMA CompleteKeeps ==
    ASSUME Inv, stage = "response", stillOwnable(held), NEW gone, gone \subseteq paths[held.conn],
           IsFiniteSet((paths[held.conn] \ gone) \cup {held.source}),
           Cardinality((paths[held.conn] \ gone) \cup {held.source}) <= MaxPaths,
           complete(held, gone)
    PROVE  RouteInv'
<1>0. held.conn \in Conns /\ held.source \in Addrs /\ TypeOK /\ RouteInv
  BY HeldType DEF Inv
<1>1. PICK k \in Conns : k = held.conn
  BY <1>0
<1>2. PICK b \in Addrs : b = held.source
  BY <1>0
<1>3. /\ Live(k) /\ sources[b] \in {None, k}
      /\ UNCHANGED <<sessions, connID, granted>>
  BY <1>1, <1>2 DEF stillOwnable, Known, Ownable, complete, identity, bucket, window
<1>4. paths'[k] = (paths[k] \ gone) \cup {b} /\ \A l \in Conns : l # k => paths'[l] = paths[l]
  BY <1>0, <1>1, <1>2 DEF complete, TypeOK
<1>5. active'[k] = b /\ \A l \in Conns : l # k => active'[l] = active[l]
  BY <1>0, <1>1, <1>2 DEF complete, TypeOK
<1>6. \A a \in Addrs : sources'[a] = IF a = b THEN k ELSE IF a \in gone /\ sources[a] = k THEN None ELSE sources[a]
  BY <1>1, <1>2 DEF complete, Without
<1>7. \A l \in Conns : Live(l)' <=> Live(l)
  BY <1>3 DEF Live
<1>8. SourcesConsistent'
  <2> SUFFICES ASSUME NEW a \in Addrs, NEW l \in Conns PROVE sources'[a] = l <=> Live(l)' /\ a \in paths'[l]
      BY DEF SourcesConsistent
  <2>1. sources[a] = l <=> Live(l) /\ a \in paths[l]
    BY <1>0 DEF RouteInv, SourcesConsistent
  <2>2. sources[a] = k <=> Live(k) /\ a \in paths[k]
    BY <1>0 DEF RouteInv, SourcesConsistent
  <2> QED BY <1>3, <1>4, <1>6, <1>7, <2>1, <2>2, NoneAssumption
<1>9. ActiveIsAuthorized'
  BY <1>0, <1>4, <1>5, <1>7 DEF RouteInv, ActiveIsAuthorized
<1>10. connID[k] # None
  BY <1>3 DEF Live
<1>11. \A l \in Conns : IsFiniteSet(paths'[l]) /\ Cardinality(paths'[l]) <= MaxPaths
  BY <1>0, <1>1, <1>2, <1>4 DEF RouteInv
<1>12. \A l \in Conns : connID'[l] = None => active'[l] = None /\ granted'[l] = 0
  BY <1>0, <1>3, <1>5, <1>10 DEF RouteInv
<1> QED BY <1>8, <1>9, <1>11, <1>12 DEF RouteInv

\* Every action keeps the table and the paths together.
LEMMA RouteStep == Inv /\ [Next]_vars => RouteInv'
<1> SUFFICES ASSUME Inv, [Next]_vars PROVE RouteInv'
    OBVIOUS
<1>0. TypeOK /\ RouteInv
  BY DEF Inv
<1> USE NoneAssumption DEF table, identity, routes, window, bucket
<1>1. CASE Tick
  BY <1>0, <1>1, RouteKept DEF Tick
<1>2. CASE Registration
  <2>1. ASSUME NEW k \in Conns, NEW i \in IDs, NEW a \in Addrs, registerWithPathAuth(k, i, a) PROVE RouteInv'
    <3>1. /\ connID[k] = None /\ connID'[k] = i /\ \A l \in Conns : l # k => connID'[l] = connID[l]
          /\ sessions[i] = None /\ sessions'[i] = k /\ \A j \in IDs : j # i => sessions'[j] = sessions[j]
      BY <1>0, <2>1 DEF registerWithPathAuth, mayRegister, TypeOK
    <3>2. /\ sources[a] = None /\ sources'[a] = k /\ \A b \in Addrs : b # a => sources'[b] = sources[b]
          /\ paths'[k] = {a} /\ \A l \in Conns : l # k => paths'[l] = paths[l]
          /\ active'[k] = a /\ \A l \in Conns : l # k => active'[l] = active[l]
          /\ granted' = granted
      BY <1>0, <2>1 DEF registerWithPathAuth, mayRegister, TypeOK
    <3>3. ~Live(k) /\ Live(k)' /\ \A l \in Conns : l # k => (Live(l)' <=> Live(l))
      BY <1>0, <3>1 DEF Live, TypeOK
    <3>4. SourcesConsistent'
      <4> SUFFICES ASSUME NEW b \in Addrs, NEW l \in Conns PROVE sources'[b] = l <=> Live(l)' /\ b \in paths'[l]
          BY DEF SourcesConsistent
      <4>1. sources[b] = l <=> Live(l) /\ b \in paths[l]
        BY <1>0 DEF RouteInv, SourcesConsistent
      <4> QED BY <3>2, <3>3, <4>1
    <3>5. ActiveIsAuthorized'
      BY <1>0, <3>2, <3>3 DEF RouteInv, ActiveIsAuthorized
    <3>6. IsFiniteSet({a}) /\ Cardinality({a}) <= MaxPaths
      <4>1. IsFiniteSet({a}) /\ Cardinality({a}) = 1
        BY FS_Singleton
      <4> QED BY <4>1, LimitsAssumption
    <3>7. \A l \in Conns : IsFiniteSet(paths'[l]) /\ Cardinality(paths'[l]) <= MaxPaths
      BY <1>0, <3>2, <3>6 DEF RouteInv
    <3> QED BY <1>0, <3>1, <3>2, <3>4, <3>5, <3>7 DEF RouteInv
  <2>2. ASSUME NEW i \in IDs, NEW a \in Addrs, registerRefused(i, a) PROVE RouteInv'
    BY <1>0, <2>2, RouteKept DEF registerRefused
  <2>3. ASSUME NEW k \in Conns, unregister(k) \/ unregisterOrphan(k) PROVE RouteInv'
    <3>1. /\ \A a \in Addrs : sources'[a] = IF a \in paths[k] /\ sources[a] = k THEN None ELSE sources[a]
          /\ UNCHANGED <<connID, paths, active, granted>>
      BY <2>3 DEF unregister, unregisterOrphan, Without, ownSources
    <3>2. ~Live(k)' /\ \A l \in Conns : l # k => (Live(l)' <=> Live(l))
      BY <1>0, <2>3, <3>1 DEF unregister, unregisterOrphan, Live, TypeOK
    <3>3. SourcesConsistent'
      <4> SUFFICES ASSUME NEW a \in Addrs, NEW l \in Conns PROVE sources'[a] = l <=> Live(l)' /\ a \in paths'[l]
          BY DEF SourcesConsistent
      <4>1. sources[a] = l <=> Live(l) /\ a \in paths[l]
        BY <1>0 DEF RouteInv, SourcesConsistent
      <4>2. sources[a] = k <=> Live(k) /\ a \in paths[k]
        BY <1>0 DEF RouteInv, SourcesConsistent
      <4> QED BY <3>1, <3>2, <4>1, <4>2
    <3>4. ActiveIsAuthorized'
      BY <1>0, <3>1, <3>2 DEF RouteInv, ActiveIsAuthorized
    <3> QED BY <1>0, <3>1, <3>3, <3>4 DEF RouteInv
  <2>4. CASE close
    <3>1. /\ \A a \in Addrs : sources'[a] = None
          /\ \A k \in Conns : ~Live(k)'
          /\ UNCHANGED <<connID, paths, active, granted>>
      BY <1>0, <2>4 DEF close, Live, TypeOK
    <3> QED BY <1>0, <3>1 DEF RouteInv, SourcesConsistent, ActiveIsAuthorized
  <2> QED BY <1>2, <2>1, <2>2, <2>3, <2>4 DEF Registration
<1>3. CASE PathControl
  <2>1. ASSUME NEW k \in Conns, NEW a \in Addrs, NEW n, requestBegin(k, n, a) PROVE RouteInv'
    BY <1>0, <2>1, RouteKept DEF requestBegin
  <2>2. CASE requestStale \/ requestThrottled
    BY <1>0, <2>2, RouteKept DEF requestStale, requestThrottled
  <2>3. CASE requestChallenged
    <3>1. /\ UNCHANGED <<sessions, sources, connID, paths, active>>
          /\ \A l \in Conns : l # held.conn => granted'[l] = granted[l]
      BY <1>0, <2>3 DEF requestChallenged, TypeOK
    <3>2. connID[held.conn] # None
      BY <2>3 DEF requestChallenged, Inv, RateInv
    <3> QED BY <1>0, <3>1, <3>2 DEF RouteInv, SourcesConsistent, ActiveIsAuthorized, Live
  <2>4. ASSUME NEW k \in Conns, openWindow(k) PROVE RouteInv'
    <3>1. /\ UNCHANGED <<sessions, sources, connID, paths, active>>
          /\ granted'[k] = 0 /\ \A l \in Conns : l # k => granted'[l] = granted[l]
      BY <1>0, <2>4 DEF openWindow, TypeOK
    <3> QED BY <1>0, <3>1 DEF RouteInv, SourcesConsistent, ActiveIsAuthorized, Live
  <2>5. ASSUME NEW c \in challenges, responseBegin(c) PROVE RouteInv'
    BY <1>0, <2>5, RouteKept DEF responseBegin
  <2>6. CASE responseStale \/ responseReplayed
    BY <1>0, <2>6, RouteKept DEF responseStale, responseReplayed
  <2>7. CASE responseCompletes
    <3> DEFINE S == kept(held.conn, readAt)
               gone == paths[held.conn] \ S
    <3>1. held.conn \in Conns /\ stage = "response" /\ stillOwnable(held) /\ ~mustEvict(held, S) /\ complete(held, gone)
      BY <2>7, HeldType DEF responseCompletes
    <3>2. /\ S \subseteq paths[held.conn] /\ IsFiniteSet(S)
          /\ Cardinality(S) \in Nat /\ Cardinality(S) <= MaxPaths
      BY <3>1, KeptPaths
    <3>3. held.source \in S \/ Cardinality(S) < MaxPaths
      BY <3>1, <3>2, LimitsAssumption DEF mustEvict
    <3> HIDE DEF S
    <3>4. paths[held.conn] \ gone = S
      BY <3>2
    <3>5. IsFiniteSet(S \cup {held.source}) /\ Cardinality(S \cup {held.source}) <= MaxPaths
      <4>1. /\ IsFiniteSet(S \cup {held.source})
            /\ Cardinality(S \cup {held.source}) = IF held.source \in S THEN Cardinality(S) ELSE Cardinality(S) + 1
        BY <3>2, FS_AddElement
      <4> QED BY <3>2, <3>3, <4>1, LimitsAssumption
    <3>6. gone \subseteq paths[held.conn]
      OBVIOUS
    <3> HIDE DEF gone
    <3> QED BY <3>1, <3>4, <3>5, <3>6, CompleteKeeps
  <2>8. CASE responseEvicts
    <3> DEFINE S == kept(held.conn, readAt)
    <3>1. held.conn \in Conns /\ stage = "response" /\ stillOwnable(held)
      BY <2>8, HeldType DEF responseEvicts
    <3>2. PICK v \in Evictable(held.conn, S) : complete(held, (paths[held.conn] \ S) \cup {v})
      BY <2>8 DEF responseEvicts
    <3>3. v \in S
      BY <3>2 DEF Evictable
    <3>4. /\ S \subseteq paths[held.conn] /\ IsFiniteSet(S)
          /\ Cardinality(S) \in Nat /\ Cardinality(S) <= MaxPaths
      BY <3>1, KeptPaths
    <3> HIDE DEF S
    <3>5. PICK gone : gone = (paths[held.conn] \ S) \cup {v}
      OBVIOUS
    <3>6. gone \subseteq paths[held.conn] /\ paths[held.conn] \ gone = S \ {v}
      BY <3>3, <3>4, <3>5
    <3>7. IsFiniteSet(S \ {v}) /\ Cardinality(S \ {v}) = Cardinality(S) - 1
      BY <3>3, <3>4, FS_RemoveElement
    <3>8. /\ IsFiniteSet((S \ {v}) \cup {held.source})
          /\ Cardinality((S \ {v}) \cup {held.source}) <= MaxPaths
      <4>1. /\ IsFiniteSet((S \ {v}) \cup {held.source})
            /\ Cardinality((S \ {v}) \cup {held.source}) \in {Cardinality(S \ {v}), Cardinality(S \ {v}) + 1}
        BY <3>7, FS_AddElement
      <4> QED BY <3>4, <3>7, <4>1, LimitsAssumption
    <3> QED BY <3>1, <3>2, <3>5, <3>6, <3>8, CompleteKeeps
  <2> QED BY <1>3, <2>1, <2>2, <2>3, <2>4, <2>5, <2>6, <2>7, <2>8 DEF PathControl
<1>4. CASE Data
  <2>1. ASSUME NEW a \in Addrs, routeData(a) PROVE RouteInv'
    BY <1>0, <2>1, RouteKept DEF routeData
  <2>2. ASSUME NEW k \in Conns, readFromRemote(k) \/ readIgnored(k) PROVE RouteInv'
    BY <1>0, <2>2, RouteKept DEF readFromRemote, readIgnored
  <2>3. ASSUME NEW k \in Conns, readFromPath(k) \/ readUnauthorized(k) PROVE RouteInv'
    BY <2>3, PurgeKeeps DEF readFromPath, readUnauthorized
  <2>4. ASSUME NEW k \in Conns, ObserveAuthorizedSource(k) PROVE RouteInv'
    BY <1>0, <2>4, RouteKept DEF ObserveAuthorizedSource, activeAfterData
  <2> QED BY <1>4, <2>1, <2>2, <2>3, <2>4 DEF Data
<1>5. CASE UNCHANGED vars
  BY <1>0, <1>5, RouteKept DEF vars
<1> QED BY <1>1, <1>2, <1>3, <1>4, <1>5 DEF Next

-----------------------------------------------------------------------------
\* CookieInv speaks of these variables only, and lets the clock go on.
LEMMA CookieKept ==
    ASSUME Inv, UNCHANGED <<used, spent, respent, stage, held, readAt>>, challenges' = challenges,
           clock' \in {clock, clock + 1}
    PROVE  CookieInv'
<1>1. TypeOK /\ CookieInv
  BY DEF Inv
<1>2. \A c \in spent : c.at \in Nat
  BY <1>1 DEF TypeOK, Cookies
<1>3. \A c \in spent' : c.at + CookieLife < clock' \/ Remembered(c)'
  BY <1>1, <1>2, LimitsAssumption DEF CookieInv, Remembered, TypeOK
<1> QED BY <1>1, <1>3 DEF CookieInv, Remembered

\* Purging the replay set at readAt forgets no cookie that is still valid.
LEMMA PurgedCookies ==
    ASSUME Inv, NEW c \in spent, NEW k \in Conns, c.conn = k
    PROVE  \/ c.at + CookieLife < clock
           \/ \E u \in unexpired(k, readAt) : u.cookie = c /\ c.at + CookieLife < u.until
<1>1. c.at \in Nat /\ readAt \in Nat /\ clock \in Nat /\ readAt <= clock
  BY DEF Inv, TypeOK, Cookies, RateInv
<1>2. CASE c.at + CookieLife < clock
  BY <1>2
<1>3. CASE Remembered(c)
  <2>1. PICK u \in used[k] : u.cookie = c /\ c.at + CookieLife < u.until
    BY <1>3 DEF Remembered
  <2>2. u.until \in Nat
    BY <2>1 DEF Inv, TypeOK
  <2>3. CASE readAt < u.until
    BY <2>1, <2>3 DEF unexpired
  <2>4. CASE ~(readAt < u.until)
    BY <1>1, <2>1, <2>2, <2>4, LimitsAssumption
  <2> QED BY <2>3, <2>4
<1> QED BY <1>2, <1>3 DEF Inv, CookieInv

\* A cookie whose response is being handled and that was consumed before is still
\* in the replay set: it is refused.
LEMMA ConsumedIsSeen ==
    ASSUME Inv, stage = "response", mayConsume(held)
    PROVE  held \notin spent
<1> SUFFICES ASSUME held \in spent PROVE FALSE
    OBVIOUS
<1>1. held.conn \in Conns /\ held.at \in Nat
  BY HeldType
<1>2. Remembered(held) /\ readAt <= held.at + CookieLife
  BY DEF Inv, CookieInv
<1>3. PICK u \in used[held.conn] : u.cookie = held /\ held.at + CookieLife < u.until
  BY <1>2 DEF Remembered
<1>4. u.until \in Nat /\ readAt \in Nat
  BY <1>1, <1>3 DEF Inv, TypeOK
<1>5. readAt < u.until
  BY <1>1, <1>2, <1>3, <1>4, LimitsAssumption
<1> QED BY <1>3, <1>5 DEF mayConsume, Consumed, unexpired

\* A step of the read loop that leaves the replay set alone.
LEMMA CookieIdle ==
    ASSUME Inv, UNCHANGED <<clock, used, spent, respent>>, stage' # "response"
    PROVE  CookieInv'
<1>1. CookieInv
  BY DEF Inv
<1>2. \A c \in spent' : c.at + CookieLife < clock' \/ Remembered(c)'
  BY <1>1 DEF CookieInv, Remembered
<1> QED BY <1>1, <1>2 DEF CookieInv

\* A completed challenge puts its cookie into the replay set for longer than the
\* cookie is valid.
LEMMA CompleteCookies ==
    ASSUME Inv, stage = "response", mayConsume(held), NEW gone, complete(held, gone)
    PROVE  CookieInv'
<1>0. held \in Cookies /\ held.conn \in Conns /\ held.at \in Nat /\ held.at < readAt /\ readAt \in Nat
  BY HeldType DEF Inv, CookieInv, TypeOK
<1>1. PICK k \in Conns : k = held.conn
  BY <1>0
<1>2. PICK u : u = [cookie |-> held, until |-> rememberUntil(readAt)]
  OBVIOUS
<1>3. /\ used'[k] = unexpired(k, readAt) \cup {u} /\ \A l \in Conns : l # k => used'[l] = used[l]
      /\ spent' = spent \cup {held} /\ clock' = clock /\ stage' = "idle"
  BY <1>1, <1>2 DEF complete, Inv, TypeOK, Rest
<1>4. u.cookie = held /\ held.at + CookieLife < u.until
  BY <1>0, <1>2, LimitsAssumption DEF rememberUntil
<1>5. \A c \in spent' : c.at + CookieLife < clock' \/ Remembered(c)'
  <2> SUFFICES ASSUME NEW c \in spent', ~(c.at + CookieLife < clock') PROVE Remembered(c)'
      OBVIOUS
  <2>1. CASE c = held
    BY <1>1, <1>3, <1>4, <2>1 DEF Remembered
  <2>2. CASE c # held /\ c.conn = k
    BY <1>3, <2>2, PurgedCookies DEF Remembered
  <2>3. CASE c # held /\ c.conn # k
    <3>1. c \in spent /\ c.conn \in Conns
      BY <1>3, <2>3 DEF Inv, TypeOK, Cookies
    <3> QED BY <1>3, <2>3, <3>1 DEF Inv, CookieInv, Remembered
  <2> QED BY <2>1, <2>2, <2>3
<1>6. respent' = FALSE
  BY ConsumedIsSeen DEF complete, Inv, CookieInv
<1> QED BY <1>3, <1>5, <1>6 DEF CookieInv

\* Every action remembers the consumed cookies that are still valid.
LEMMA CookieStep == Inv /\ [Next]_vars => CookieInv'
<1> SUFFICES ASSUME Inv, [Next]_vars PROVE CookieInv'
    OBVIOUS
<1> USE DEF reader, ledger
<1>1. CASE Tick
  BY <1>1, CookieKept DEF Tick
<1>2. CASE Registration
  BY <1>2, CookieKept DEF Registration, registerWithPathAuth, registerRefused, unregister, unregisterOrphan, close
<1>3. CASE PathControl
  <2>1. ASSUME NEW k \in Conns, NEW a \in Addrs, NEW n, requestBegin(k, n, a) PROVE CookieInv'
    BY <2>1, CookieIdle DEF requestBegin
  <2>2. CASE requestStale \/ requestThrottled \/ requestChallenged \/ responseStale
    BY <2>2, CookieIdle DEF requestStale, requestThrottled, requestChallenged, responseStale, Rest
  <2>3. ASSUME NEW k \in Conns, openWindow(k) PROVE CookieInv'
    BY <2>3, CookieKept DEF openWindow
  <2>4. ASSUME NEW c \in challenges, responseBegin(c) PROVE CookieInv'
    <3>1. /\ UNCHANGED <<clock, used, spent, respent, challenges>>
          /\ stage' = "response" /\ held' = c /\ readAt' = clock
          /\ c.at < clock /\ clock - c.at <= CookieLife
      BY <2>4 DEF responseBegin, freshCookie
    <3>2. c.at \in Nat /\ clock \in Nat
      BY DEF Inv, TypeOK, Cookies
    <3>3. clock <= c.at + CookieLife
      BY <3>1, <3>2, LimitsAssumption
    <3>4. c \in spent => Remembered(c)
      BY <3>2, <3>3, LimitsAssumption DEF Inv, CookieInv
    <3>5. \A d \in spent' : d.at + CookieLife < clock' \/ Remembered(d)'
      BY <3>1 DEF Inv, CookieInv, Remembered
    <3>6. held' \in spent' => Remembered(held)'
      BY <3>1, <3>4 DEF Remembered
    <3> QED BY <3>1, <3>3, <3>5, <3>6 DEF Inv, CookieInv
  <2>5. CASE responseReplayed
    <3>0. held.conn \in Conns
      BY <2>5, HeldType DEF responseReplayed
    <3>1. PICK k \in Conns : k = held.conn
      BY <3>0
    <3>2. /\ used'[k] = unexpired(k, readAt) /\ \A l \in Conns : l # k => used'[l] = used[l]
          /\ UNCHANGED <<clock, spent, respent>> /\ stage' = "idle"
      BY <2>5, <3>1 DEF responseReplayed, Inv, TypeOK, Rest
    <3>3. \A c \in spent' : c.at + CookieLife < clock' \/ Remembered(c)'
      <4> SUFFICES ASSUME NEW c \in spent PROVE c.at + CookieLife < clock \/ Remembered(c)'
          BY <3>2
      <4>1. CASE c.conn = k
        BY <3>2, <4>1, PurgedCookies DEF Remembered
      <4>2. CASE c.conn # k
        <5>1. c.conn \in Conns
          BY DEF Inv, TypeOK, Cookies
        <5> QED BY <3>2, <4>2, <5>1 DEF Inv, CookieInv, Remembered
      <4> QED BY <4>1, <4>2
    <3> QED BY <3>2, <3>3 DEF Inv, CookieInv
  <2>6. CASE responseCompletes \/ responseEvicts
    BY <2>6, CompleteCookies DEF responseCompletes, responseEvicts
  <2> QED BY <1>3, <2>1, <2>2, <2>3, <2>4, <2>5, <2>6 DEF PathControl
<1>4. CASE Data
  BY <1>4, CookieKept DEF Data, routeData, readFromRemote, readFromPath, readUnauthorized, readIgnored,
                          ObserveAuthorizedSource
<1>5. CASE UNCHANGED vars
  BY <1>5, CookieKept DEF vars
<1> QED BY <1>1, <1>2, <1>3, <1>4, <1>5 DEF Next

-----------------------------------------------------------------------------
\* What is refilled in two stretches of time is what is refilled in both together.
LEMMA RefillAdds ==
    ASSUME NEW r \in Nat, NEW a \in Nat, NEW b \in Nat, NEW c \in Nat, a <= b, b <= c
    PROVE  /\ r * (b - a) + (c - b) * r = r * (c - a)
           /\ r * (b - a) \in Nat /\ (c - b) * r \in Nat /\ r * (c - a) \in Nat
<1>1. r * (b - a) \in Nat /\ (c - b) * r \in Nat /\ r * (c - a) \in Nat
  OBVIOUS
<1>2. r * (b - a) + (c - b) * r = r * (c - a)
  OBVIOUS
<1> QED BY <1>1, <1>2

\* A step that leaves the buckets and the message in hand alone.
LEMMA RateKept ==
    ASSUME Inv, UNCHANGED <<tokens, refillAt, windowFrom, granted, stage, held, readAt, connID>>,
           clock' \in {clock, clock + 1}
    PROVE  RateInv'
<1>1. TypeOK /\ RateInv
  BY DEF Inv
<1>2. \A k \in Conns : windowFrom[k] \in Nat /\ refillAt[k] \in Nat
  BY <1>1 DEF TypeOK
<1>3. readAt' <= clock' /\ \A k \in Conns : windowFrom'[k] <= clock' /\ refillAt'[k] <= clock'
  BY <1>1, <1>2 DEF RateInv, TypeOK
<1> QED BY <1>1, <1>3 DEF RateInv

\* The read loop goes to another message or to none.
LEMMA RateIdle ==
    ASSUME Inv, UNCHANGED <<tokens, refillAt, windowFrom, granted, clock>>, stage' # "request", readAt' <= clock
    PROVE  RateInv'
BY DEF Inv, RateInv

\* Every action keeps the account of the token bucket.
LEMMA RateStep == Inv /\ [Next]_vars => RateInv'
<1> SUFFICES ASSUME Inv, [Next]_vars PROVE RateInv'
    OBVIOUS
<1>0. /\ TypeOK /\ RateInv /\ RouteInv
      /\ clock \in Nat /\ readAt \in Nat /\ Burst \in Nat /\ Rate \in Nat
  BY LimitsAssumption DEF Inv, TypeOK
<1> USE DEF identity, bucket, window, reader
<1>1. CASE Tick
  BY <1>1, RateKept DEF Tick
<1>2. CASE Registration
  <2>1. ASSUME NEW k \in Conns, NEW i \in IDs, NEW a \in Addrs, registerWithPathAuth(k, i, a) PROVE RateInv'
    <3>1. /\ tokens'[k] = Burst /\ refillAt'[k] = clock /\ windowFrom'[k] = clock /\ granted' = granted
          /\ \A l \in Conns : l # k => /\ tokens'[l] = tokens[l] /\ refillAt'[l] = refillAt[l]
                                       /\ windowFrom'[l] = windowFrom[l] /\ connID'[l] = connID[l]
          /\ UNCHANGED <<clock, stage, held, readAt>> /\ connID[k] = None
      BY <1>0, <2>1 DEF registerWithPathAuth, TypeOK
    <3>2. granted[k] = 0
      BY <1>0, <3>1 DEF RouteInv
    <3>3. stage = "request" => held.conn \in Conns /\ held.conn # k
      BY <1>0, <3>1, HeldType DEF RateInv
    <3>4. Burst <= Burst /\ clock <= clock
      BY <1>0
    <3> QED BY <1>0, <3>1, <3>2, <3>3, <3>4 DEF RateInv
  <2>2. ASSUME NEW i \in IDs, NEW a \in Addrs, registerRefused(i, a) PROVE RateInv'
    BY <2>2, RateKept DEF registerRefused
  <2>3. ASSUME NEW k \in Conns, unregister(k) \/ unregisterOrphan(k) PROVE RateInv'
    BY <2>3, RateKept DEF unregister, unregisterOrphan
  <2>4. CASE close
    BY <2>4, RateKept DEF close
  <2> QED BY <1>2, <2>1, <2>2, <2>3, <2>4 DEF Registration
<1>3. CASE PathControl
  <2>1. ASSUME NEW k \in Conns, NEW a \in Addrs, NEW n, requestBegin(k, n, a) PROVE RateInv'
    <3>1. /\ UNCHANGED <<tokens, refillAt, windowFrom, granted, clock, connID>>
          /\ stage' = "request" /\ held'.conn = k /\ readAt' = clock /\ connID[k] # None
      BY <2>1 DEF requestBegin, Live
    <3>2. clock <= clock
      BY <1>0
    <3> QED BY <1>0, <3>1, <3>2 DEF RateInv
  <2>2. CASE requestStale \/ responseStale \/ responseReplayed
    BY <1>0, <2>2, RateIdle DEF requestStale, responseStale, responseReplayed, Rest
  <2>3. CASE requestThrottled \/ requestChallenged
    <3>0. stage = "request" /\ held.conn \in Conns
      BY <2>3, HeldType DEF requestThrottled, requestChallenged
    <3>1. PICK k \in Conns : k = held.conn
      BY <3>0
    <3>2. PICK t \in Nat : t = refilled(k, readAt) /\ t <= Burst /\ t <= tokens[k] + (readAt - refillAt[k]) * Rate
      BY <3>0, <3>1, RefilledType
    <3>3. PICK g \in {0, 1} : g <= t /\ tokens'[k] = t - g /\ granted'[k] = granted[k] + g
      <4>1. CASE requestThrottled
        BY <1>0, <3>1, <3>2, <4>1 DEF requestThrottled, TypeOK
      <4>2. CASE requestChallenged
        BY <1>0, <3>1, <3>2, <4>2 DEF requestChallenged, TypeOK
      <4> QED BY <2>3, <4>1, <4>2
    <3>4. /\ refillAt'[k] = readAt /\ windowFrom' = windowFrom /\ clock' = clock
          /\ stage' = "idle" /\ readAt' = 0
          /\ \A l \in Conns : l # k => /\ tokens'[l] = tokens[l] /\ refillAt'[l] = refillAt[l]
                                       /\ granted'[l] = granted[l]
      BY <1>0, <2>3, <3>1 DEF requestThrottled, requestChallenged, TypeOK, Rest
    <3>5. /\ tokens[k] \in Nat /\ granted[k] \in Nat /\ windowFrom[k] \in Nat /\ refillAt[k] \in Nat
          /\ windowFrom[k] <= readAt /\ refillAt[k] <= readAt /\ readAt <= clock
      BY <1>0, <3>0, <3>1 DEF TypeOK, RateInv
    <3>6. granted'[k] + tokens'[k] <= Burst + Rate * (readAt - windowFrom[k])
      <4>1. CASE granted[k] = 0
        <5>1. Rate * (readAt - windowFrom[k]) \in Nat
          BY <1>0, <3>5
        <5> QED BY <1>0, <3>2, <3>3, <3>5, <4>1, <5>1
      <4>2. CASE granted[k] # 0
        <5>1. /\ windowFrom[k] <= refillAt[k]
              /\ granted[k] + tokens[k] <= Burst + Rate * (refillAt[k] - windowFrom[k])
          BY <1>0, <4>2 DEF RateInv
        <5>2. /\ Rate * (refillAt[k] - windowFrom[k]) + (readAt - refillAt[k]) * Rate = Rate * (readAt - windowFrom[k])
              /\ Rate * (refillAt[k] - windowFrom[k]) \in Nat /\ (readAt - refillAt[k]) * Rate \in Nat
              /\ Rate * (readAt - windowFrom[k]) \in Nat
          BY <1>0, <3>5, <5>1, RefillAdds
        <5>3. granted'[k] + tokens'[k] = granted[k] + t
          BY <3>2, <3>3, <3>5
        <5>4. PICK x \in Nat, y \in Nat, z \in Nat :
                 /\ x = Rate * (refillAt[k] - windowFrom[k]) /\ y = (readAt - refillAt[k]) * Rate
                 /\ z = Rate * (readAt - windowFrom[k]) /\ x + y = z
          BY <5>2
        <5>5. t <= tokens[k] + y /\ granted[k] + tokens[k] <= Burst + x
          BY <3>2, <5>1, <5>4
        <5>6. granted[k] + t <= Burst + z
          BY <1>0, <3>5, <5>4, <5>5
        <5> QED BY <5>3, <5>4, <5>6
      <4> QED BY <4>1, <4>2
    <3>7. tokens'[k] <= Burst /\ 0 <= clock
      BY <1>0, <3>2, <3>3
    <3> QED BY <1>0, <3>4, <3>5, <3>6, <3>7 DEF RateInv
  <2>4. ASSUME NEW k \in Conns, openWindow(k) PROVE RateInv'
    <3>1. /\ windowFrom'[k] = clock /\ granted'[k] = 0
          /\ \A l \in Conns : l # k => windowFrom'[l] = windowFrom[l] /\ granted'[l] = granted[l]
          /\ UNCHANGED <<clock, stage, readAt, tokens, refillAt>> /\ stage # "request"
      BY <1>0, <2>4 DEF openWindow, TypeOK
    <3>2. clock <= clock
      BY <1>0
    <3> QED BY <1>0, <3>1, <3>2 DEF RateInv
  <2>5. ASSUME NEW c \in challenges, responseBegin(c) PROVE RateInv'
    BY <1>0, <2>5, RateIdle DEF responseBegin
  <2>6. CASE responseCompletes \/ responseEvicts
    <3>1. PICK gone : complete(held, gone)
      BY <2>6 DEF responseCompletes, responseEvicts
    <3> QED BY <1>0, <3>1, RateIdle DEF complete, Rest
  <2> QED BY <1>3, <2>1, <2>2, <2>3, <2>4, <2>5, <2>6 DEF PathControl
<1>4. CASE Data
  BY <1>4, RateKept DEF Data, routeData, readFromRemote, readFromPath, readUnauthorized, readIgnored,
                        ObserveAuthorizedSource
<1>5. CASE UNCHANGED vars
  BY <1>5, RateKept DEF vars
<1> QED BY <1>1, <1>2, <1>3, <1>4, <1>5 DEF Next

-----------------------------------------------------------------------------
LEMMA InvInit == Init => Inv
<1> SUFFICES ASSUME Init PROVE Inv
    OBVIOUS
<1>1. TypeOK
  <2>1. closed \in BOOLEAN /\ respent \in BOOLEAN
    BY Zenon DEF Init
  <2>2. ended \in [Conns -> BOOLEAN]
    BY DEF Init
  <2> QED BY <2>1, <2>2 DEF Init, TypeOK
<1>2. RouteInv
  <2>1. \A k \in Conns : IsFiniteSet(paths[k]) /\ Cardinality(paths[k]) <= MaxPaths
    BY FS_EmptySet, LimitsAssumption DEF Init
  <2>2. SourcesConsistent /\ ActiveIsAuthorized
    BY NoneAssumption DEF Init, SourcesConsistent, ActiveIsAuthorized, Live
  <2> QED BY <2>1, <2>2 DEF Init, RouteInv
<1>3. CookieInv
  BY DEF Init, CookieInv
<1>4. RateInv
  BY LimitsAssumption DEF Init, RateInv
<1> QED BY <1>1, <1>2, <1>3, <1>4 DEF Inv

LEMMA InvStep == Inv /\ [Next]_vars => Inv'
BY TypeStep, RouteStep, CookieStep, RateStep DEF Inv

\* The inductive invariant: the types, the routes, the replay set and the bucket
\* stay in step through every interleaving of the router's goroutines.
THEOREM InvHolds == Spec => []Inv
BY InvInit, InvStep, PTL DEF Spec

\* The invariant implies what the router promises.
LEMMA InvSound ==
    ASSUME Inv
    PROVE  PathsSound /\ ChallengesBounded
<1>1. ChallengesBounded
  <2>1. CookieOnce
    BY DEF Inv, CookieInv, CookieOnce
  <2>2. ASSUME NEW k \in Conns PROVE granted[k] <= Burst + Rate * (clock - windowFrom[k])
    <3>1. /\ clock \in Nat /\ windowFrom[k] \in Nat /\ refillAt[k] \in Nat
          /\ granted[k] \in Nat /\ tokens[k] \in Nat
          /\ windowFrom[k] <= clock /\ refillAt[k] <= clock /\ Burst \in Nat /\ Rate \in Nat
      BY LimitsAssumption DEF Inv, TypeOK, RateInv
    <3>2. CASE granted[k] = 0
      <4>1. Rate * (clock - windowFrom[k]) \in Nat
        BY <3>1
      <4> QED BY <3>1, <3>2, <4>1
    <3>3. CASE granted[k] # 0
      <4>1. /\ windowFrom[k] <= refillAt[k]
            /\ granted[k] + tokens[k] <= Burst + Rate * (refillAt[k] - windowFrom[k])
        BY <3>3 DEF Inv, RateInv
      <4>2. PICK x \in Nat, y \in Nat, z \in Nat :
               /\ x = Rate * (refillAt[k] - windowFrom[k]) /\ y = (clock - refillAt[k]) * Rate
               /\ z = Rate * (clock - windowFrom[k]) /\ x + y = z
        <5>1. /\ Rate * (refillAt[k] - windowFrom[k]) + (clock - refillAt[k]) * Rate = Rate * (clock - windowFrom[k])
              /\ Rate * (refillAt[k] - windowFrom[k]) \in Nat /\ (clock - refillAt[k]) * Rate \in Nat
              /\ Rate * (clock - windowFrom[k]) \in Nat
          BY <3>1, <4>1, RefillAdds
        <5> QED BY <5>1
      <4>3. granted[k] + tokens[k] <= Burst + x
        BY <4>1, <4>2
      <4>4. granted[k] <= Burst + z
        BY <3>1, <4>2, <4>3
      <4> QED BY <4>2, <4>4
    <3> QED BY <3>2, <3>3
  <2> QED BY <2>1, <2>2 DEF ChallengesBounded, ChallengeRate
<1>2. PathsSound
  BY DEF Inv, RouteInv, PathsSound, PathBound
<1> QED BY <1>1, <1>2

\* relay.go: a source is mapped to a connection exactly when it is a path of that
\* registered connection, a registered connection has an address to answer to, and
\* no session holds more than maxPathsPerSession paths.
THEOREM PathsAreSound == Spec => []PathsSound
<1>1. Inv => PathsSound
  BY InvSound
<1> QED BY <1>1, InvHolds, PTL

\* path_control.go: a cookie completes at most one challenge, and in any window
\* of time a connection is sent no more challenges than the bucket allows.
THEOREM ChallengesAreBounded == Spec => []ChallengesBounded
<1>1. Inv => ChallengesBounded
  BY InvSound
<1> QED BY <1>1, InvHolds, PTL

\* What a completed challenge does to the table and to the return paths.
LEMMA CompleteMoves ==
    ASSUME Inv, stage = "response", stillOwnable(held), NEW gone, complete(held, gone)
    PROVE  /\ \A a \in Addrs : sources'[a] \in {sources[a], None} \/ (sources[a] = None /\ a = held.source)
           /\ active'[held.conn] = held.source
           /\ \A k \in Conns : k # held.conn => active'[k] = active[k]
<1>0. held.conn \in Conns /\ held.source \in Addrs /\ TypeOK
  BY HeldType DEF Inv
<1>1. \A a \in Addrs : sources'[a] = IF a = held.source THEN held.conn
                                     ELSE IF a \in gone /\ sources[a] = held.conn THEN None ELSE sources[a]
  BY <1>0 DEF complete, Without
<1>2. active' = [active EXCEPT ![held.conn] = held.source]
  BY DEF complete
<1>3. sources[held.source] \in {None, held.conn}
  BY DEF stillOwnable, Ownable
<1>4. \A a \in Addrs : sources'[a] \in {sources[a], None} \/ (sources[a] = None /\ a = held.source)
  BY <1>1, <1>3
<1> QED BY <1>0, <1>2, <1>4 DEF TypeOK

\* relay.go: a source that a session owns goes to nobody else before it is
\* released, also when it was free as the response was read.
THEOREM NobodyTakesASource == Spec => NoTheft
<1> DEFINE Kept == \A a \in Addrs : sources[a] # None /\ sources'[a] # sources[a] => sources'[a] = None
<1>1. ASSUME Inv, [Next]_vars PROVE Kept
  <2>0. TypeOK
    BY <1>1 DEF Inv
  <2> USE DEF table
  <2>1. CASE UNCHANGED sources
    BY <2>1
  <2>2. ASSUME NEW k, NEW S, sources' = Without(S, k) PROVE Kept
    BY <2>2 DEF Without
  <2>3. CASE Registration
    <3>1. ASSUME NEW k \in Conns, NEW i \in IDs, NEW a \in Addrs, registerWithPathAuth(k, i, a) PROVE Kept
      BY <2>0, <3>1 DEF registerWithPathAuth, mayRegister, TypeOK
    <3>2. ASSUME NEW i \in IDs, NEW a \in Addrs, registerRefused(i, a) PROVE Kept
      BY <3>2 DEF registerRefused
    <3>3. ASSUME NEW k \in Conns, unregister(k) \/ unregisterOrphan(k) PROVE Kept
      BY <2>2, <3>3 DEF unregister, unregisterOrphan
    <3>4. CASE close
      BY <3>4 DEF close
    <3> QED BY <2>3, <3>1, <3>2, <3>3, <3>4 DEF Registration
  <2>4. CASE PathControl
    <3>1. CASE responseCompletes \/ responseEvicts
      BY <1>1, <3>1, CompleteMoves DEF responseCompletes, responseEvicts
    <3>2. CASE ~(responseCompletes \/ responseEvicts)
      BY <2>1, <2>4, <3>2 DEF PathControl, requestBegin, requestStale, requestThrottled, requestChallenged,
                              openWindow, responseBegin, responseStale, responseReplayed
    <3> QED BY <3>1, <3>2
  <2>5. CASE Data
    <3>1. ASSUME NEW k \in Conns, purge(k) PROVE Kept
      BY <2>2, <3>1 DEF purge
    <3> QED BY <2>1, <2>5, <3>1 DEF Data, routeData, readFromRemote, readFromPath, readUnauthorized, readIgnored,
                                    ObserveAuthorizedSource
  <2> QED BY <1>1, <2>1, <2>3, <2>4, <2>5 DEF Next, Tick, vars
<1> QED BY <1>1, InvHolds, PTL DEF Spec, NoTheft

\* acceptSource and handlePathResponse: the return path of a session moves only to
\* a source that answered, in time and for the first time, a challenge sent there.
THEOREM ReturnPathIsProven == Spec => ReturnPathProven
<1> DEFINE Proven == \A k \in Conns :
              active[k] # None /\ active'[k] # active[k] =>
                 \E c \in challenges \ spent :
                    /\ c.conn = k /\ c.source = active'[k]
                    /\ readAt - c.at <= CookieLife
<1>1. ASSUME Inv, [Next]_vars PROVE Proven
  <2>0. TypeOK /\ RouteInv
    BY <1>1 DEF Inv
  <2> USE DEF routes
  <2>1. CASE UNCHANGED active
    BY <2>1
  <2>2. CASE Registration
    <3>1. ASSUME NEW k \in Conns, NEW i \in IDs, NEW a \in Addrs, registerWithPathAuth(k, i, a) PROVE Proven
      <4>1. active[k] = None /\ \A l \in Conns : l # k => active'[l] = active[l]
        BY <2>0, <3>1 DEF registerWithPathAuth, TypeOK, RouteInv
      <4> QED BY <4>1
    <3> QED BY <2>1, <2>2, <3>1 DEF Registration, registerRefused, unregister, unregisterOrphan, close
  <2>3. CASE PathControl
    <3>1. CASE responseCompletes \/ responseEvicts
      <4>1. stage = "response" /\ stillOwnable(held) /\ mayConsume(held) /\ \E gone : complete(held, gone)
        BY <3>1 DEF responseCompletes, responseEvicts
      <4>2. active'[held.conn] = held.source /\ \A k \in Conns : k # held.conn => active'[k] = active[k]
        BY <1>1, <4>1, CompleteMoves
      <4>3. held \in challenges \ spent /\ readAt <= held.at + CookieLife
        BY <1>1, <4>1, ConsumedIsSeen DEF Inv, CookieInv
      <4>4. readAt \in Nat /\ held.at \in Nat
        BY <1>1, <4>1, HeldType DEF Inv, TypeOK
      <4>5. readAt - held.at <= CookieLife
        BY <4>3, <4>4, LimitsAssumption
      <4> QED BY <4>2, <4>3, <4>5
    <3>2. CASE ~(responseCompletes \/ responseEvicts)
      BY <2>1, <2>3, <3>2 DEF PathControl, requestBegin, requestStale, requestThrottled, requestChallenged,
                              openWindow, responseBegin, responseStale, responseReplayed
    <3> QED BY <3>1, <3>2
  <2>4. CASE Data
    BY <2>1, <2>4 DEF Data, routeData, readFromRemote, readFromPath, readUnauthorized, readIgnored,
                      ObserveAuthorizedSource, activeAfterData
  <2> QED BY <1>1, <2>1, <2>2, <2>3, <2>4 DEF Next, Tick, vars
<1> QED BY <1>1, InvHolds, PTL DEF Spec, ReturnPathProven

-----------------------------------------------------------------------------
(* The relay.                                                              *)

\* No tombstone is ever dropped for want of room.
TombstonesSuffice == IsFiniteSet(IDs) /\ Cardinality(IDs) <= MaxTombstones

\* acceptSession is faster than MaxHandshakeTimeout.
AcceptsInTime == MaxStall < TombLife

Queued == [hello : Hellos, from : Addrs]
CachedAcks == [hello : Hellos, peer : Addrs, remaining : Nat]

\* The accept loop holds a Hello; it holds a connection as well.
Considering == {"admit", "register"}
Answering   == {"ack", "remember", "add"}
Dropping    == {"dropping", "failing"}
Resting     == {"waiting", "stopped", "failed"}

RelayTypes ==
    /\ hellos \subseteq Hellos
    /\ handshakes \in Seq(Queued)
    /\ replays \in [IDs -> CachedAcks \cup {None}]
    /\ accept \in Considering \cup Answering \cup Dropping \cup Resting
    /\ accept \notin Resting => offer \in Offers
    /\ accept \in Answering \cup Dropping => incoming \in Conns
    /\ accept \in Considering \cup Resting => incoming = None
    /\ serving \in [Conns -> {"none", "serving", "closing", "closed"}]
    /\ acks \in [Hellos -> Nat]
    /\ origin \in [Conns -> Hellos \cup {None}]

\* A connection from its registration to its end.
ConnInv ==
    /\ \A k \in Conns :
          /\ connID[k] = None => serving[k] = "none" /\ origin[k] = None /\ ~ended[k]
          /\ connID[k] # None => origin[k] \in Hellos /\ origin[k].id = connID[k]
          /\ serving[k] = "closed" => ended[k]
          /\ ended[k] => ~Live(k)
    /\ \A i \in IDs : sessions[i] # None => connID[sessions[i]] = i
    /\ accept \in Answering =>
          /\ connID[incoming] = offer.hello.id /\ origin[incoming] = offer.hello
          /\ serving[incoming] = "none"
          /\ ~closed => Live(incoming)
    /\ accept \in Dropping => serving[incoming] \in {"closing", "closed"}
    /\ NoOrphanConnection

\* The cached acknowledgments.
CacheInv ==
    /\ CachedAckCurrent
    /\ accept \in {"ack", "remember"} => replays[offer.hello.id] = None
    /\ \A i \in IDs : replays[i] # None => replays[i].hello.id = i

RelayInv == Inv /\ RelayTypes /\ ConnInv /\ CacheInv

\* A Hello that made a connection cannot make another: the session is still
\* registered, its ID is buried for as long as the Hello is fresh, or the Hello
\* has expired; and one that is being accepted is buried for longer than that takes.
HelloInv ==
    /\ \A i \in IDs : /\ tombstones[i] <= clock + TombLife
                      /\ sessions[i] # None => tombstones[i] = 0
    /\ \A k \in Conns : origin[k] # None =>
          /\ origin[k].expires <= clock + TombLife
          /\ ~closed => \/ Live(k)
                        \/ origin[k].expires <= tombstones[origin[k].id]
                        \/ origin[k].expires <= clock
    /\ accept \notin Resting => offer.at <= clock /\ clock <= offer.at + MaxStall
    /\ accept \in Considering =>
          /\ offer.at < offer.hello.expires /\ offer.hello.expires <= offer.at + TombLife
          /\ \A k \in Conns : ~closed /\ origin[k] = offer.hello =>
                Live(k) \/ offer.at + TombLife <= tombstones[offer.hello.id]
    /\ HelloOnce

\* Every acknowledgment of a Hello is the first one or comes out of its cache entry.
AckInv ==
    /\ \A h \in Hellos : (\A k \in Conns : origin[k] # h) => acks[h] = 0
    /\ accept = "ack" => acks[offer.hello] = 0
    /\ accept = "remember" => acks[offer.hello] <= 1
    /\ AckBudget
    /\ \A i \in IDs : replays[i] # None => acks[replays[i].hello] + replays[i].remaining <= 1 + ReplayLimit

-----------------------------------------------------------------------------
\* The path exchange and the data leave the identities of the sessions alone.
LEMMA QuietRouter ==
    ASSUME PathControl \/ Data
    PROVE  UNCHANGED <<clock, closed, sessions, tombstones, connID, ended>>
<1> USE DEF table, identity
<1>1. CASE PathControl
  BY <1>1 DEF PathControl, requestBegin, requestStale, requestThrottled, requestChallenged, openWindow, responseBegin,
              responseStale, responseReplayed, responseCompletes, responseEvicts, complete
<1>2. CASE Data
  BY <1>2 DEF Data, routeData, readFromRemote, readFromPath, readUnauthorized, readIgnored, ObserveAuthorizedSource
<1> QED BY <1>1, <1>2

\* Pruning expired tombstones is invisible to the router's invariant.
LEMMA PruneKeeps ==
    ASSUME Inv, tombstones' = Prune(tombstones),
           UNCHANGED <<clock, closed, sessions, sources, identity, ended, routes, bucket, data, reader,
                       challenges, ledger>>
    PROVE  Inv'
<1> USE DEF identity, routes, bucket, window, data, reader, ledger
<1>1. tombstones' \in [IDs -> Nat]
  BY DEF Inv, TypeOK, Prune
<1>2. TypeOK'
  BY <1>1 DEF Inv, TypeOK
<1>3. RouteInv'
  BY RouteKept DEF Inv
<1>4. CookieInv'
  BY CookieKept DEF Inv
<1>5. RateInv'
  BY RateKept DEF Inv
<1> QED BY <1>2, <1>3, <1>4, <1>5 DEF Inv

\* The Hello in hand has a session ID and a source.
LEMMA OfferType ==
    ASSUME RelayTypes, accept \notin Resting
    PROVE  /\ offer \in Offers /\ offer.hello \in Hellos /\ offer.hello.id \in IDs /\ offer.from \in Addrs
           /\ offer.at \in Nat /\ offer.hello.expires \in Nat
BY LimitsAssumption, RelayAssumption DEF RelayTypes, Offers, Hellos

\* Every step of the relay is one of its router, prunes the tombstones or leaves
\* the router alone.
LEMMA RouterStep ==
    ASSUME Inv, RelayTypes, [RelayNext]_allVars
    PROVE  Inv'
<1>1. ASSUME [Next]_vars PROVE Inv'
  BY <1>1, InvStep
<1>2. CASE RelayTick
  BY <1>1, <1>2 DEF RelayTick, Next
<1>3. CASE Handshake
  BY <1>1, <1>3 DEF Handshake, sendHello, helloReplayed, helloQueued, helloDropped
<1>4. CASE Accept
  <2>1. CASE acceptTake \/ acceptTombstoned
    BY <2>1, PruneKeeps DEF acceptTake, acceptTombstoned
  <2>2. ASSUME NEW k \in Conns, acceptRegister(k) PROVE Inv'
    <3>1. offer.hello.id \in IDs /\ offer.from \in Addrs
      BY <2>2, OfferType DEF acceptRegister, At, Resting
    <3> QED BY <1>1, <2>2, <3>1 DEF acceptRegister, Next, Registration
  <2>3. CASE acceptFails
    <3>1. offer.hello.id \in IDs /\ offer.from \in Addrs
      BY <2>3, OfferType DEF acceptFails, At, Resting
    <3> QED BY <1>1, <2>3, <3>1 DEF acceptFails, Next, Registration
  <2> QED BY <1>1, <1>4, <2>1, <2>2, <2>3
          DEF Accept, acceptStale, acceptAdmit, acceptRefuse, acceptReturns, acceptAck, acceptAckFails, acceptRemember,
              acceptAdd, acceptClose, acceptClosed, acceptStops
<1>5. CASE Shutdown
  BY <1>1, <1>5 DEF Shutdown, Close, closeRouter, closeRouterAgain, readLoopEnds, closeSession, Next, Registration
<1>6. ASSUME NEW k \in Conns, serveEnds(k) \/ SessionEnd(k) PROVE Inv'
  BY <1>1, <1>6 DEF serveEnds, SessionEnd, sessionClose, sessionCloseOrphan, sessionCloseAgain, Next, Registration
<1>7. CASE PathControl \/ Data
  BY <1>1, <1>7 DEF Next
<1>8. CASE UNCHANGED allVars
  BY <1>1, <1>8 DEF allVars
<1> QED BY <1>2, <1>3, <1>4, <1>5, <1>6, <1>7, <1>8 DEF RelayNext

-----------------------------------------------------------------------------
\* What the cache makes of an entry.
LEMMA CachedType ==
    ASSUME RelayTypes, NEW i \in IDs
    PROVE  /\ cached(i) \in {replays[i], None}
           /\ cached(i) # None => replays[i] \in CachedAcks /\ replays[i].remaining > 0
           /\ [replays EXCEPT ![i] = cached(i)] \in [IDs -> CachedAcks \cup {None}]
<1>1. replays[i] \in CachedAcks \cup {None}
  BY DEF RelayTypes
<1>2. cached(i) \in {replays[i], None}
  BY DEF cached
<1>3. cached(i) # None => replays[i] \in CachedAcks /\ replays[i].remaining > 0
  BY <1>1 DEF cached, CachedAcks
<1> QED BY <1>1, <1>2, <1>3 DEF RelayTypes

\* Every action of the relay keeps its types.
LEMMA RelayTypesStep ==
    ASSUME RelayInv, [RelayNext]_allVars
    PROVE  RelayTypes'
<1>0. RelayTypes
  BY DEF RelayInv
<1>a. ASSUME UNCHANGED <<handshake, acceptor, serving>> PROVE RelayTypes'
  BY <1>0, <1>a DEF RelayTypes, handshake, acceptor
<1> USE DEF Considering, Answering, Dropping, Resting, handshake, acceptor, At, GoTo
<1>1. CASE RelayTick \/ ((PathControl \/ Data) /\ UNCHANGED relayVars) \/ UNCHANGED allVars
  BY <1>1, <1>a DEF RelayTick, relayVars, allVars
<1>2. CASE Handshake
  <2>1. ASSUME NEW h \in Hellos, sendHello(h) PROVE RelayTypes'
    BY <1>0, <2>1 DEF sendHello, RelayTypes
  <2>2. ASSUME NEW h \in hellos, NEW a \in Addrs, helloReplayed(h, a) PROVE RelayTypes'
    <3>1. h \in Hellos /\ h.id \in IDs
      BY <1>0 DEF RelayTypes, Hellos
    <3>2. replays[h.id] \in CachedAcks /\ replays[h.id].remaining > 0
      BY <2>2, <3>1, <1>0, CachedType DEF helloReplayed, answered
    <3>3. [replays[h.id] EXCEPT !.remaining = replaysLeft(replays[h.id])] \in CachedAcks
      BY <3>2 DEF CachedAcks, replaysLeft
    <3>4. replays' = [replays EXCEPT ![h.id] = [replays[h.id] EXCEPT !.remaining = replaysLeft(replays[h.id])]]
      BY <2>2 DEF helloReplayed
    <3>5. replays' \in [IDs -> CachedAcks \cup {None}]
      BY <1>0, <3>1, <3>3, <3>4 DEF RelayTypes
    <3>6. acks' \in [Hellos -> Nat]
      BY <1>0, <2>2, <3>1 DEF helloReplayed, RelayTypes
    <3> QED BY <1>0, <2>2, <3>5, <3>6 DEF helloReplayed, RelayTypes
  <2>3. ASSUME NEW h \in hellos, NEW a \in Addrs, helloQueued(h, a) \/ helloDropped(h, a) PROVE RelayTypes'
    <3>1. h \in Hellos /\ h.id \in IDs
      BY <1>0 DEF RelayTypes, Hellos
    <3>2. replays' \in [IDs -> CachedAcks \cup {None}]
      BY <1>0, <2>3, <3>1, CachedType DEF helloQueued, helloDropped
    <3>3. handshakes' \in Seq(Queued)
      <4>1. [hello |-> h, from |-> a] \in Queued
        BY <3>1 DEF Queued
      <4>2. handshakes \in Seq(Queued)
        BY <1>0 DEF RelayTypes
      <4>3. PICK e \in Queued : e = [hello |-> h, from |-> a]
        BY <4>1
      <4>4. handshakes' = Append(handshakes, e) \/ handshakes' = handshakes
        BY <2>3, <4>3 DEF helloQueued, helloDropped
      <4> QED BY <4>2, <4>4
    <3> QED BY <1>0, <2>3, <3>2, <3>3 DEF helloQueued, helloDropped, RelayTypes
  <2> QED BY <1>2, <2>1, <2>2, <2>3 DEF Handshake
<1>3. CASE Accept
  <2>0. ASSUME At("waiting"), handshakes # << >>
        PROVE  Head(handshakes) \in Queued /\ Tail(handshakes) \in Seq(Queued)
    BY <1>0, <2>0 DEF RelayTypes
  <2>1. CASE acceptTake
    <3>1. Head(handshakes) \in Queued /\ Tail(handshakes) \in Seq(Queued)
      BY <2>0, <2>1 DEF acceptTake
    <3>2. clock \in Nat
      BY DEF RelayInv, Inv, TypeOK
    <3>3. offer' \in Offers
      BY <2>1, <3>1, <3>2 DEF acceptTake, Offers, Queued
    <3> QED BY <1>0, <2>1, <3>1, <3>3 DEF acceptTake, RelayTypes
  <2>2. CASE acceptStale \/ acceptTombstoned
    BY <1>0, <2>0, <2>2 DEF acceptStale, acceptTombstoned, RelayTypes
  <2>3. CASE acceptAdmit \/ acceptRefuse \/ acceptReturns \/ acceptFails \/ acceptStops
    BY <1>0, <2>3 DEF acceptAdmit, acceptRefuse, acceptReturns, acceptFails, acceptStops, RelayTypes
  <2>4. ASSUME NEW k \in Conns, acceptRegister(k) PROVE RelayTypes'
    <3>1. offer.hello \in Hellos
      BY <1>0, <2>4, OfferType DEF acceptRegister
    <3>2. origin' \in [Conns -> Hellos \cup {None}]
      BY <1>0, <2>4, <3>1 DEF acceptRegister, RelayTypes
    <3> QED BY <1>0, <2>4, <3>2 DEF acceptRegister, RelayTypes
  <2>5. CASE acceptAck
    <3>1. offer.hello \in Hellos
      BY <1>0, <2>5, OfferType DEF acceptAck
    <3>2. acks' \in [Hellos -> Nat]
      BY <1>0, <2>5, <3>1 DEF acceptAck, RelayTypes
    <3> QED BY <1>0, <2>5, <3>2 DEF acceptAck, RelayTypes
  <2>6. CASE acceptRemember
    <3>1. offer.hello \in Hellos /\ offer.hello.id \in IDs /\ offer.from \in Addrs
      BY <1>0, <2>6, OfferType DEF acceptRemember
    <3>2. [hello |-> offer.hello, peer |-> offer.from, remaining |-> ReplayLimit] \in CachedAcks
      BY <3>1, RelayAssumption DEF CachedAcks
    <3>3. replays' \in [IDs -> CachedAcks \cup {None}]
      BY <1>0, <2>6, <3>1, <3>2 DEF acceptRemember, RelayTypes
    <3> QED BY <1>0, <2>6, <3>3 DEF acceptRemember, RelayTypes
  <2>7. CASE acceptAdd \/ acceptClose \/ acceptAckFails \/ acceptClosed
    <3>1. serving' \in [Conns -> {"none", "serving", "closing", "closed"}]
      BY <1>0, <2>7 DEF acceptAdd, acceptClose, acceptAckFails, acceptClosed, RelayTypes
    <3> QED BY <1>0, <2>7, <3>1 DEF acceptAdd, acceptClose, acceptAckFails, acceptClosed, RelayTypes
  <2> QED BY <1>3, <2>1, <2>2, <2>3, <2>4, <2>5, <2>6, <2>7 DEF Accept
<1>4. CASE Shutdown
  BY <1>4, <1>a DEF Shutdown, Close, closeRouter, closeRouterAgain, readLoopEnds, closeSession, relayVars
<1>5. ASSUME NEW k \in Conns, serveEnds(k) \/ SessionEnd(k) PROVE RelayTypes'
  <2>1. serving' \in [Conns -> {"none", "serving", "closing", "closed"}]
    BY <1>0, <1>5 DEF serveEnds, SessionEnd, sessionClose, sessionCloseOrphan, sessionCloseAgain, afterServing, RelayTypes
  <2>2. replays' \in [IDs -> CachedAcks \cup {None}]
    BY <1>0, <1>5 DEF serveEnds, SessionEnd, sessionClose, sessionCloseOrphan, sessionCloseAgain, forgotten, RelayTypes
  <2> QED BY <1>0, <1>5, <2>1, <2>2
          DEF serveEnds, SessionEnd, sessionClose, sessionCloseOrphan, sessionCloseAgain, RelayTypes
<1> QED BY <1>1, <1>2, <1>3, <1>4, <1>5 DEF RelayNext

-----------------------------------------------------------------------------
\* ConnInv speaks of these variables only.
LEMMA ConnKept ==
    ASSUME ConnInv, UNCHANGED <<closed, sessions, connID, ended, accept, offer, incoming, serving, origin>>
    PROVE  ConnInv'
BY DEF ConnInv, NoOrphanConnection, Live

\* A registration makes a connection that the accept loop holds.
LEMMA RegisterConn ==
    ASSUME RelayInv, NEW k \in Conns, acceptRegister(k)
    PROVE  ConnInv'
<1>0. /\ RelayTypes /\ ConnInv /\ TypeOK
      /\ accept = "register" /\ incoming = None /\ offer.hello \in Hellos /\ offer.hello.id \in IDs
  BY OfferType DEF RelayInv, Inv, acceptRegister, At, Resting, RelayTypes, Considering
<1>1. PICK h \in Hellos : h = offer.hello
  BY <1>0
<1>2. PICK i \in IDs : i = offer.hello.id /\ i = h.id
  BY <1>0, <1>1
<1>3. /\ connID[k] = None /\ sessions[i] = None
      /\ sessions'[i] = k /\ (\A j \in IDs : j # i => sessions'[j] = sessions[j])
      /\ connID'[k] = i /\ (\A l \in Conns : l # k => connID'[l] = connID[l])
      /\ origin'[k] = h /\ (\A l \in Conns : l # k => origin'[l] = origin[l])
      /\ ended' = ended /\ serving' = serving /\ closed' = closed /\ offer' = offer
      /\ accept' = "ack" /\ incoming' = k
  BY <1>0, <1>1, <1>2 DEF acceptRegister, registerWithPathAuth, mayRegister, GoTo, TypeOK, RelayTypes
<1>4. connID'[k] # None /\ k # None /\ Live(k)'
  BY <1>3, NoneAssumption DEF Live
<1>5. \A l \in Conns : l # k => (Live(l)' <=> Live(l))
  BY <1>0, <1>3, NoneAssumption DEF Live, TypeOK
<1>6. serving[k] = "none" /\ ~ended[k]
  BY <1>0, <1>3 DEF ConnInv
<1>7. \A l \in Conns : /\ connID'[l] = None => serving'[l] = "none" /\ origin'[l] = None /\ ~ended'[l]
                       /\ connID'[l] # None => origin'[l] \in Hellos /\ origin'[l].id = connID'[l]
                       /\ serving'[l] = "closed" => ended'[l]
                       /\ ended'[l] => ~Live(l)'
  BY <1>0, <1>2, <1>3, <1>4, <1>5, <1>6 DEF ConnInv
<1>8. \A j \in IDs : sessions'[j] # None => connID'[sessions'[j]] = j
  <2> SUFFICES ASSUME NEW j \in IDs, j # i, sessions[j] # None PROVE connID'[sessions[j]] = j
      BY <1>3
  <2>1. sessions[j] \in Conns /\ connID[sessions[j]] = j /\ j # None
    BY <1>0, NoneAssumption DEF ConnInv, TypeOK
  <2> QED BY <1>3, <2>1
<1>9. NoOrphanConnection'
  BY <1>0, <1>3, <1>5, NoneAssumption DEF ConnInv, NoOrphanConnection
<1> QED BY <1>1, <1>2, <1>3, <1>4, <1>6, <1>7, <1>8, <1>9 DEF ConnInv, Answering, Dropping

\* A connection is unregistered: whoever does it, nobody serves it any more.
LEMMA UnregisterConn ==
    ASSUME RelayInv, NEW k \in Conns, unregister(k) \/ unregisterOrphan(k),
           serving' \in {serving, [serving EXCEPT ![k] = "closed"]},
           serving' = serving => closed, serving' # serving => serving[k] = "closing",
           UNCHANGED acceptor
    PROVE  ConnInv'
<1>0. RelayTypes /\ ConnInv /\ TypeOK
  BY DEF RelayInv, Inv
<1>1. /\ connID[k] # None /\ connID[k] \in IDs /\ ~ended[k]
      /\ connID' = connID /\ closed' = closed
      /\ UNCHANGED <<accept, offer, incoming, origin>>
  BY <1>0 DEF unregister, unregisterOrphan, Live, identity, acceptor, TypeOK
<1>2. ended'[k] = TRUE /\ \A l \in Conns : l # k => ended'[l] = ended[l]
  BY <1>0 DEF unregister, unregisterOrphan, TypeOK
<1>3. ~Live(k)' /\ \A l \in Conns : l # k => (Live(l)' <=> Live(l))
  <2>1. CASE unregister(k)
    <3>1. /\ sessions'[connID[k]] = None /\ sessions[connID[k]] = k
          /\ \A j \in IDs : j # connID[k] => sessions'[j] = sessions[j]
      BY <1>0, <1>1, <2>1 DEF unregister, Live, TypeOK
    <3> QED BY <1>0, <1>1, <3>1, NoneAssumption DEF Live, TypeOK
  <2>2. CASE unregisterOrphan(k)
    BY <1>1, <2>2 DEF unregisterOrphan, Live
  <2> QED BY <2>1, <2>2
<1>4. \A j \in IDs : sessions'[j] \in {sessions[j], None}
  BY <1>0, <1>1 DEF unregister, unregisterOrphan, TypeOK
<1>5. /\ serving'[k] \in {serving[k], "closed"}
      /\ serving'[k] = serving[k] => closed
      /\ serving'[k] # serving[k] => serving[k] = "closing"
      /\ \A l \in Conns : l # k => serving'[l] = serving[l]
  BY <1>0 DEF RelayTypes
<1>6. \A l \in Conns : /\ connID'[l] = None => serving'[l] = "none" /\ origin'[l] = None /\ ~ended'[l]
                       /\ connID'[l] # None => origin'[l] \in Hellos /\ origin'[l].id = connID'[l]
                       /\ serving'[l] = "closed" => ended'[l]
                       /\ ended'[l] => ~Live(l)'
  BY <1>0, <1>1, <1>2, <1>3, <1>5 DEF ConnInv
<1>7. \A j \in IDs : sessions'[j] # None => connID'[sessions'[j]] = j
  BY <1>0, <1>1, <1>4 DEF ConnInv
<1>8. accept' \in Answering => /\ connID'[incoming'] = offer'.hello.id /\ origin'[incoming'] = offer'.hello
                               /\ serving'[incoming'] = "none"
                               /\ ~closed' => Live(incoming)'
  <2> SUFFICES ASSUME accept \in Answering
               PROVE  /\ connID[incoming] = offer.hello.id /\ origin[incoming] = offer.hello
                      /\ serving'[incoming] = "none"
                      /\ ~closed => Live(incoming)'
      BY <1>1
  <2>1. /\ incoming \in Conns /\ connID[incoming] = offer.hello.id /\ origin[incoming] = offer.hello
        /\ serving[incoming] = "none"
        /\ ~closed => Live(incoming)
    BY <1>0 DEF RelayTypes, ConnInv
  <2>2. CASE incoming = k
    BY <1>0, <1>5, <2>1, <2>2 DEF RelayTypes
  <2>3. CASE incoming # k
    BY <1>1, <1>3, <1>5, <2>1, <2>3 DEF Live
  <2> QED BY <2>1, <2>2, <2>3
<1>9. accept' \in Dropping => serving'[incoming'] \in {"closing", "closed"}
  BY <1>0, <1>1, <1>5 DEF RelayTypes, ConnInv
<1>10. NoOrphanConnection'
  BY <1>0, <1>1, <1>3, <1>5 DEF ConnInv, NoOrphanConnection
<1> QED BY <1>6, <1>7, <1>8, <1>9, <1>10 DEF ConnInv

\* The router is closed: no session is registered any more.
LEMMA CloseConn ==
    ASSUME RelayInv, close, UNCHANGED <<acceptor, serving>>
    PROVE  ConnInv'
<1>0. ConnInv /\ TypeOK
  BY DEF RelayInv, Inv
<1>1. /\ closed' /\ UNCHANGED <<connID, ended, accept, offer, incoming, origin, serving>>
      /\ \A i \in IDs : sessions'[i] = None
  BY DEF close, identity, acceptor
<1>2. \A k \in Conns : ~Live(k)'
  BY <1>0, <1>1, NoneAssumption DEF Live, TypeOK
<1> QED BY <1>0, <1>1, <1>2 DEF ConnInv, NoOrphanConnection

\* The accept loop gives its connection to a goroutine, or closes it.
LEMMA HandOver ==
    ASSUME RelayInv, acceptAdd \/ acceptClose \/ acceptAckFails \/ acceptClosed
    PROVE  ConnInv'
<1>0. RelayTypes /\ ConnInv /\ incoming \in Conns /\ accept \in Answering \cup Dropping
  BY DEF RelayInv, RelayTypes, acceptAdd, acceptClose, acceptAckFails, acceptClosed, At, Answering, Dropping
<1>1. PICK k \in Conns : k = incoming
  BY <1>0
<1>2. UNCHANGED <<closed, sessions, connID, ended, origin>>
  BY DEF acceptAdd, acceptClose, acceptAckFails, acceptClosed, vars, table, identity
<1>3. \A l \in Conns : Live(l)' <=> Live(l)
  BY <1>2 DEF Live
<1>4. CASE acceptAdd \/ acceptClose \/ acceptAckFails
  <2>1. /\ accept \in Answering /\ serving'[k] \in {"serving", "closing"}
        /\ \A l \in Conns : l # k => serving'[l] = serving[l]
    BY <1>0, <1>1, <1>4 DEF acceptAdd, acceptClose, acceptAckFails, At, Answering, RelayTypes
  <2>2. \/ accept' \in Dropping /\ incoming' = k /\ serving'[k] = "closing"
        \/ accept' = "waiting"
    BY <1>0, <1>1, <1>4 DEF acceptAdd, acceptClose, acceptAckFails, GoTo, Dropping, RelayTypes
  <2>3. connID[k] # None
    <3>1. connID[k] = offer.hello.id /\ offer.hello.id \in IDs
      BY <1>0, <1>1, <2>1, OfferType DEF ConnInv, Answering, Resting
    <3> QED BY <3>1, NoneAssumption
  <2>4. NoOrphanConnection'
    BY <1>0, <1>1, <1>3, <2>1 DEF ConnInv, NoOrphanConnection
  <2>5. accept' \notin Answering /\ (accept' \in Dropping => serving'[incoming'] = "closing")
    BY <2>2 DEF Answering, Dropping
  <2>6. \A l \in Conns : /\ connID'[l] = None => serving'[l] = "none" /\ origin'[l] = None /\ ~ended'[l]
                         /\ connID'[l] # None => origin'[l] \in Hellos /\ origin'[l].id = connID'[l]
                         /\ serving'[l] = "closed" => ended'[l]
                         /\ ended'[l] => ~Live(l)'
    BY <1>0, <1>2, <1>3, <2>1, <2>3 DEF ConnInv
  <2> QED BY <1>0, <1>2, <2>4, <2>5, <2>6 DEF ConnInv
<1>5. CASE acceptClosed
  <2>1. serving[k] = "closed" /\ serving' = serving /\ accept' \in {"waiting", "failed"}
    BY <1>1, <1>5 DEF acceptClosed, GoTo
  <2>2. NoOrphanConnection'
    BY <1>0, <1>1, <1>3, <2>1 DEF ConnInv, NoOrphanConnection
  <2> QED BY <1>0, <1>2, <1>3, <2>1, <2>2 DEF ConnInv, Answering, Dropping
<1> QED BY <1>4, <1>5

\* Every connection keeps somebody who closes it.
LEMMA ConnStep ==
    ASSUME RelayInv, [RelayNext]_allVars
    PROVE  ConnInv'
<1>0. RelayTypes /\ ConnInv
  BY DEF RelayInv
<1> USE DEF table, identity, acceptor
<1>1. CASE RelayTick \/ ((PathControl \/ Data) /\ UNCHANGED relayVars) \/ UNCHANGED allVars
  BY <1>0, <1>1, ConnKept, QuietRouter DEF RelayTick, Tick, relayVars, allVars, vars
<1>2. CASE Handshake
  BY <1>0, <1>2, ConnKept DEF Handshake, sendHello, helloReplayed, helloQueued, helloDropped, vars
<1>3. CASE Accept
  <2>1. ASSUME UNCHANGED <<closed, sessions, connID, ended, incoming, serving, origin>>,
               accept' \notin Answering \cup Dropping
        PROVE  ConnInv'
    BY <1>0, <2>1 DEF ConnInv, NoOrphanConnection, Live
  <2>2. CASE acceptTake \/ acceptAdmit \/ acceptRefuse \/ acceptReturns \/ acceptFails \/ acceptStops
    BY <2>1, <2>2 DEF acceptTake, acceptAdmit, acceptRefuse, acceptReturns, acceptFails, acceptStops, registerRefused,
                      GoTo, Answering, Dropping, vars
  <2>3. CASE acceptStale \/ acceptTombstoned
    BY <1>0, <2>3, ConnKept DEF acceptStale, acceptTombstoned, vars
  <2>4. CASE acceptAck \/ acceptRemember
    <3>1. /\ UNCHANGED <<closed, sessions, connID, ended, incoming, serving, origin, offer>>
          /\ accept \in Answering /\ accept' \in Answering
      BY <2>4 DEF acceptAck, acceptRemember, At, GoTo, Answering, vars
    <3> QED BY <1>0, <3>1 DEF ConnInv, NoOrphanConnection, Live, Answering, Dropping
  <2> QED BY <1>3, <2>2, <2>3, <2>4, RegisterConn, HandOver DEF Accept
<1>4. CASE Shutdown
  <2>1. CASE Close \/ closeRouterAgain
    BY <1>0, <2>1, ConnKept DEF Close, closeRouterAgain, vars
  <2>2. CASE closeRouter \/ readLoopEnds
    BY <2>2, CloseConn DEF closeRouter, readLoopEnds, relayVars
  <2>3. ASSUME NEW k \in Conns, closeSession(k) PROVE ConnInv'
    BY <2>3, UnregisterConn DEF closeSession
  <2> QED BY <1>4, <2>1, <2>2, <2>3 DEF Shutdown
<1>5. ASSUME NEW k \in Conns, serveEnds(k) PROVE ConnInv'
  <2>1. /\ UNCHANGED <<closed, sessions, connID, ended, accept, incoming, offer, origin>>
        /\ serving[k] = "serving" /\ serving'[k] = "closing" /\ \A l \in Conns : l # k => serving'[l] = serving[l]
    BY <1>0, <1>5 DEF serveEnds, afterServing, vars, RelayTypes
  <2>2. \A l \in Conns : Live(l)' <=> Live(l)
    BY <2>1 DEF Live
  <2>3. NoOrphanConnection'
    BY <1>0, <2>1, <2>2 DEF ConnInv, NoOrphanConnection
  <2>4. accept \in Answering => incoming \in Conns /\ serving'[incoming] = "none" /\ (~closed => Live(incoming)')
    BY <1>0, <2>1, <2>2 DEF ConnInv, RelayTypes
  <2>5. accept \in Dropping => serving'[incoming] \in {"closing", "closed"}
    BY <1>0, <2>1 DEF ConnInv, RelayTypes
  <2>6. \A l \in Conns : /\ connID'[l] = None => serving'[l] = "none" /\ origin'[l] = None /\ ~ended'[l]
                         /\ connID'[l] # None => origin'[l] \in Hellos /\ origin'[l].id = connID'[l]
                         /\ serving'[l] = "closed" => ended'[l]
                         /\ ended'[l] => ~Live(l)'
    BY <1>0, <2>1, <2>2 DEF ConnInv
  <2> QED BY <1>0, <2>1, <2>3, <2>4, <2>5, <2>6 DEF ConnInv
<1>6. ASSUME NEW k \in Conns, sessionClose(k) \/ sessionCloseOrphan(k) PROVE ConnInv'
  <2>1. /\ serving[k] = "closing" /\ serving' = [serving EXCEPT ![k] = "closed"]
        /\ unregister(k) \/ unregisterOrphan(k)
        /\ UNCHANGED acceptor
    BY <1>6 DEF sessionClose, sessionCloseOrphan
  <2>2. serving' # serving
    BY <1>0, <2>1 DEF RelayTypes
  <2> QED BY <2>1, <2>2, UnregisterConn
<1>7. ASSUME NEW k \in Conns, sessionCloseAgain(k) PROVE ConnInv'
  <2>1. /\ UNCHANGED <<closed, sessions, connID, ended, accept, incoming, offer, origin>>
        /\ serving[k] = "closing" /\ ended[k]
        /\ serving'[k] = "closed" /\ \A l \in Conns : l # k => serving'[l] = serving[l]
    BY <1>0, <1>7 DEF sessionCloseAgain, vars, RelayTypes
  <2>2. \A l \in Conns : Live(l)' <=> Live(l)
    BY <2>1 DEF Live
  <2>3. NoOrphanConnection'
    BY <1>0, <2>1, <2>2 DEF ConnInv, NoOrphanConnection
  <2>4. accept \in Answering => incoming \in Conns /\ serving'[incoming] = "none" /\ (~closed => Live(incoming)')
    BY <1>0, <2>1, <2>2 DEF ConnInv, RelayTypes
  <2>5. accept \in Dropping => serving'[incoming] \in {"closing", "closed"}
    BY <1>0, <2>1 DEF ConnInv, RelayTypes
  <2>6. \A l \in Conns : /\ connID'[l] = None => serving'[l] = "none" /\ origin'[l] = None /\ ~ended'[l]
                         /\ connID'[l] # None => origin'[l] \in Hellos /\ origin'[l].id = connID'[l]
                         /\ serving'[l] = "closed" => ended'[l]
                         /\ ended'[l] => ~Live(l)'
    BY <1>0, <2>1, <2>2 DEF ConnInv
  <2> QED BY <1>0, <2>1, <2>3, <2>4, <2>5, <2>6 DEF ConnInv
<1> QED BY <1>1, <1>2, <1>3, <1>4, <1>5, <1>6, <1>7 DEF RelayNext, SessionEnd

-----------------------------------------------------------------------------
\* CacheInv speaks of these variables only.
LEMMA CacheKept ==
    ASSUME CacheInv, UNCHANGED <<closed, sessions, replays, origin>>,
           accept' \in {"ack", "remember"} => accept \in {"ack", "remember"} /\ offer' = offer
    PROVE  CacheInv'
BY DEF CacheInv, CachedAckCurrent

\* A session ends: its cached acknowledgment is dropped with it.
LEMMA ForgetCache ==
    ASSUME RelayInv, NEW k \in Conns, unregister(k), replays' = forgotten(connID[k]), UNCHANGED acceptor
    PROVE  CacheInv'
<1>0. TypeOK /\ RelayTypes /\ CacheInv
  BY DEF RelayInv, Inv
<1>1. PICK i \in IDs : i = connID[k]
  BY <1>0 DEF unregister, Live, TypeOK
<1>2. /\ replays'[i] = None /\ (\A j \in IDs : j # i => replays'[j] = replays[j])
      /\ (\A j \in IDs : j # i => sessions'[j] = sessions[j])
      /\ closed' = closed /\ UNCHANGED <<accept, offer, incoming, origin>>
  BY <1>0, <1>1 DEF unregister, forgotten, acceptor, TypeOK, RelayTypes
<1>3. CachedAckCurrent'
  BY <1>0, <1>2 DEF CacheInv, CachedAckCurrent
<1>4. accept \in {"ack", "remember"} => offer.hello.id \in IDs
  BY <1>0, OfferType DEF Resting
<1> QED BY <1>0, <1>2, <1>3, <1>4 DEF CacheInv

\* The cached acknowledgment is always the one of the registered session.
LEMMA CacheStep ==
    ASSUME RelayInv, [RelayNext]_allVars
    PROVE  CacheInv'
<1>0. RelayTypes /\ CacheInv /\ ConnInv /\ TypeOK
  BY DEF RelayInv, Inv
<1> USE DEF table, identity, acceptor, handshake
<1>1. CASE RelayTick \/ ((PathControl \/ Data) /\ UNCHANGED relayVars) \/ UNCHANGED allVars
  BY <1>0, <1>1, CacheKept, QuietRouter DEF RelayTick, Tick, relayVars, allVars, vars
<1>2. CASE Handshake
  <2>1. ASSUME NEW h \in Hellos, sendHello(h) PROVE CacheInv'
    BY <1>0, <2>1, CacheKept DEF sendHello, vars
  <2>2. ASSUME NEW h \in hellos, NEW a \in Addrs, helloReplayed(h, a) \/ helloQueued(h, a) \/ helloDropped(h, a)
        PROVE  CacheInv'
    <3>1. PICK i \in IDs : i = h.id
      BY <1>0 DEF RelayTypes, Hellos
    <3>2. replays'[i] # None => replays[i] # None /\ replays'[i].hello = replays[i].hello
      <4>1. CASE helloReplayed(h, a)
        <5>1. replays[i] \in CachedAcks /\ replays[i] # None
          BY <1>0, <3>1, <4>1, CachedType DEF helloReplayed, answered
        <5>2. replays'[i] = [replays[i] EXCEPT !.remaining = replaysLeft(replays[i])]
          BY <1>0, <3>1, <4>1 DEF helloReplayed, RelayTypes
        <5> QED BY <5>1, <5>2 DEF CachedAcks
      <4>2. CASE ~helloReplayed(h, a)
        <5>1. replays'[i] = cached(i)
          BY <1>0, <2>2, <3>1, <4>2 DEF helloQueued, helloDropped, RelayTypes
        <5> QED BY <1>0, <5>1, CachedType
      <4> QED BY <4>1, <4>2
    <3>3. /\ UNCHANGED <<closed, sessions, origin, accept, offer>>
          /\ \A j \in IDs : j # i => replays'[j] = replays[j]
      BY <1>0, <2>2, <3>1 DEF helloReplayed, helloQueued, helloDropped, vars, RelayTypes
    <3>4. accept \in {"ack", "remember"} => offer.hello.id \in IDs
      BY <1>0, OfferType DEF Resting
    <3>5. CachedAckCurrent'
      BY <1>0, <3>2, <3>3 DEF CacheInv, CachedAckCurrent
    <3> QED BY <1>0, <3>2, <3>3, <3>4, <3>5 DEF CacheInv
  <2> QED BY <1>2, <2>1, <2>2 DEF Handshake
<1>3. CASE Accept
  <2>1. ASSUME NEW k \in Conns, acceptRegister(k) PROVE CacheInv'
    <3>1. PICK i \in IDs : i = offer.hello.id
      BY <1>0, <2>1, OfferType DEF acceptRegister, At, Resting
    <3>2. /\ ~closed /\ sessions[i] = None /\ connID[k] = None
          /\ \A j \in IDs : j # i => sessions'[j] = sessions[j]
          /\ \A l \in Conns : l # k => origin'[l] = origin[l]
          /\ UNCHANGED <<closed, replays, offer>>
      BY <1>0, <2>1, <3>1 DEF acceptRegister, registerWithPathAuth, mayRegister, TypeOK, RelayTypes
    <3>3. replays[i] = None
      BY <1>0, <3>2 DEF CacheInv, CachedAckCurrent
    <3>4. \A j \in IDs : sessions[j] # None => sessions[j] # k /\ sessions[j] \in Conns
      BY <1>0, <3>2, NoneAssumption DEF ConnInv, TypeOK
    <3>5. CachedAckCurrent'
      BY <1>0, <3>2, <3>3, <3>4 DEF CacheInv, CachedAckCurrent
    <3> QED BY <1>0, <3>1, <3>2, <3>3, <3>5 DEF CacheInv
  <2>2. CASE acceptRemember
    <3>1. /\ accept = "remember" /\ offer.hello.id \in IDs /\ offer.hello \in Hellos
          /\ UNCHANGED <<closed, sessions, origin, offer>> /\ accept' = "add"
      BY <1>0, <2>2, OfferType DEF acceptRemember, At, GoTo, Resting, vars
    <3>2. CASE closed
      BY <1>0, <2>2, <3>1, <3>2 DEF acceptRemember, CacheInv, CachedAckCurrent
    <3>3. CASE ~closed
      <4>1. PICK i \in IDs : i = offer.hello.id
        BY <3>1
      <4>2. replays'[i].hello = offer.hello /\ \A j \in IDs : j # i => replays'[j] = replays[j]
        BY <1>0, <2>2, <3>3, <4>1 DEF acceptRemember, RelayTypes
      <4>3. incoming \in Conns /\ connID[incoming] = i /\ origin[incoming] = offer.hello /\ sessions[i] = incoming
        BY <1>0, <3>1, <3>3, <4>1 DEF ConnInv, RelayTypes, Answering, Live
      <4>4. CachedAckCurrent'
        BY <1>0, <3>1, <4>2, <4>3, NoneAssumption DEF CacheInv, CachedAckCurrent
      <4> QED BY <1>0, <3>1, <4>1, <4>2, <4>4 DEF CacheInv
    <3> QED BY <3>2, <3>3
  <2>3. CASE acceptTake \/ acceptStale \/ acceptTombstoned \/ acceptAdmit \/ acceptRefuse
    BY <1>0, <2>3, CacheKept DEF acceptTake, acceptStale, acceptTombstoned, acceptAdmit, acceptRefuse, GoTo, vars
  <2>4. CASE acceptReturns \/ acceptFails \/ acceptAck \/ acceptAckFails
    BY <1>0, <2>4, CacheKept DEF acceptReturns, acceptFails, registerRefused, acceptAck, acceptAckFails, At, GoTo, vars
  <2>5. CASE acceptAdd \/ acceptClose \/ acceptClosed \/ acceptStops
    BY <1>0, <2>5, CacheKept DEF acceptAdd, acceptClose, acceptClosed, acceptStops, GoTo, vars
  <2> QED BY <1>3, <2>1, <2>2, <2>3, <2>4, <2>5 DEF Accept
<1>4. CASE Shutdown
  <2>1. CASE Close \/ closeRouterAgain
    BY <1>0, <2>1, CacheKept DEF Close, closeRouterAgain, vars
  <2>2. CASE closeRouter \/ readLoopEnds
    BY <1>0, <2>2 DEF closeRouter, readLoopEnds, close, relayVars, CacheInv, CachedAckCurrent
  <2>3. ASSUME NEW k \in Conns, closeSession(k) PROVE CacheInv'
    BY <1>0, <2>3, CacheKept DEF closeSession, unregisterOrphan
  <2> QED BY <1>4, <2>1, <2>2, <2>3 DEF Shutdown
<1>5. ASSUME NEW k \in Conns, serveEnds(k) \/ sessionCloseOrphan(k) \/ sessionCloseAgain(k) PROVE CacheInv'
  BY <1>0, <1>5, CacheKept DEF serveEnds, sessionCloseOrphan, unregisterOrphan, sessionCloseAgain, vars
<1>6. ASSUME NEW k \in Conns, sessionClose(k) PROVE CacheInv'
  BY <1>6, ForgetCache DEF sessionClose
<1> QED BY <1>1, <1>2, <1>3, <1>4, <1>5, <1>6 DEF RelayNext, SessionEnd

-----------------------------------------------------------------------------
\* The numbers that HelloInv compares are numbers.
LEMMA HelloTypes ==
    ASSUME RelayInv
    PROVE  /\ clock \in Nat /\ TombLife \in Nat /\ MaxStall \in Nat
           /\ \A i \in IDs : tombstones[i] \in Nat
           /\ \A k \in Conns : origin[k] # None => /\ origin[k] \in Hellos /\ origin[k].expires \in Nat
                                                   /\ origin[k].id \in IDs /\ connID[k] = origin[k].id
           /\ accept \notin Resting => /\ offer.at \in Nat /\ offer.hello.expires \in Nat
                                       /\ offer.hello \in Hellos /\ offer.hello.id \in IDs
<1>1. \A h \in Hellos : h.expires \in Nat /\ h.id \in IDs
  BY LimitsAssumption, RelayAssumption DEF Hellos
<1>2. \A k \in Conns : origin[k] # None => origin[k] \in Hellos /\ connID[k] = origin[k].id
  BY DEF RelayInv, RelayTypes, ConnInv
<1> QED BY <1>1, <1>2, OfferType, LimitsAssumption, RelayAssumption DEF RelayInv, Inv, TypeOK

\* HelloInv speaks of these variables only.
LEMMA HelloKept ==
    ASSUME HelloInv, UNCHANGED <<clock, closed, sessions, tombstones, connID, origin>>,
           accept' \notin Resting => accept \notin Resting /\ offer' = offer,
           accept' \in Considering => accept \in Considering
    PROVE  HelloInv'
<1>1. \A k \in Conns : Live(k)' <=> Live(k)
  BY DEF Live
<1>2. accept' \in Considering => accept' \notin Resting
  BY DEF Considering, Resting
<1>3. accept' \in Considering =>
          /\ offer'.at < offer'.hello.expires /\ offer'.hello.expires <= offer'.at + TombLife
          /\ \A k \in Conns : ~closed' /\ origin'[k] = offer'.hello =>
                Live(k)' \/ offer'.at + TombLife <= tombstones'[offer'.hello.id]
  BY <1>1, <1>2 DEF HelloInv
<1> QED BY <1>1, <1>3 DEF HelloInv, HelloOnce

\* Pruning drops no tombstone that still protects: not of a Hello that is fresh,
\* nor of one that is being accepted.
LEMMA HelloPruned ==
    ASSUME RelayInv, HelloInv, AcceptsInTime, NEW t, t = Prune(tombstones)
    PROVE  /\ \A i \in IDs : /\ t[i] \in Nat /\ t[i] <= tombstones[i] /\ (tombstones[i] = 0 => t[i] = 0)
                             /\ (t[i] # tombstones[i] => tombstones[i] <= clock)
           /\ \A k \in Conns : origin[k] # None /\ origin[k].expires <= tombstones[origin[k].id] =>
                 origin[k].expires <= t[origin[k].id] \/ origin[k].expires <= clock
           /\ accept \in Considering /\ offer.at + TombLife <= tombstones[offer.hello.id] =>
                 offer.at + TombLife <= t[offer.hello.id]
<1>0. clock \in Nat /\ \A i \in IDs : tombstones[i] \in Nat
  BY HelloTypes
<1>1. \A i \in IDs : t[i] = IF clock < tombstones[i] THEN tombstones[i] ELSE 0
  BY DEF Prune
<1>2. \A i \in IDs : /\ t[i] \in Nat /\ t[i] <= tombstones[i] /\ (tombstones[i] = 0 => t[i] = 0)
                     /\ (t[i] # tombstones[i] => tombstones[i] <= clock)
  BY <1>0, <1>1
<1>3. ASSUME NEW k \in Conns, origin[k] # None, origin[k].expires <= tombstones[origin[k].id]
      PROVE  origin[k].expires <= t[origin[k].id] \/ origin[k].expires <= clock
  <2>1. origin[k].id \in IDs /\ origin[k].expires \in Nat
    BY <1>3, HelloTypes
  <2>2. CASE t[origin[k].id] = tombstones[origin[k].id]
    BY <1>3, <2>2
  <2>3. CASE t[origin[k].id] # tombstones[origin[k].id]
    BY <1>0, <1>2, <1>3, <2>1, <2>3
  <2> QED BY <2>2, <2>3
<1>4. ASSUME accept \in Considering, offer.at + TombLife <= tombstones[offer.hello.id]
      PROVE  offer.at + TombLife <= t[offer.hello.id]
  <2>1. /\ offer.hello.id \in IDs /\ offer.at \in Nat /\ clock <= offer.at + MaxStall
        /\ TombLife \in Nat /\ MaxStall \in Nat
    BY <1>4, HelloTypes DEF HelloInv, Considering, Resting
  <2>2. clock < tombstones[offer.hello.id]
    BY <1>0, <1>4, <2>1 DEF AcceptsInTime
  <2> QED BY <1>1, <1>4, <2>1, <2>2
<1> QED BY <1>2, <1>3, <1>4

\* A step that only prunes, and perhaps lets the Hello in hand go.
LEMMA HelloPruneKeeps ==
    ASSUME RelayInv, HelloInv, AcceptsInTime, tombstones' = Prune(tombstones),
           UNCHANGED <<clock, closed, sessions, connID, origin>>,
           accept' \notin Resting => accept \notin Resting /\ offer' = offer,
           accept' \in Considering => accept \in Considering
    PROVE  HelloInv'
<1>1. PICK t : t = Prune(tombstones)
  OBVIOUS
<1>2. tombstones' = t
  BY <1>1
<1>3. /\ \A i \in IDs : t[i] \in Nat /\ t[i] <= tombstones[i] /\ (tombstones[i] = 0 => t[i] = 0)
      /\ \A k \in Conns : origin[k] # None /\ origin[k].expires <= tombstones[origin[k].id] =>
            origin[k].expires <= t[origin[k].id] \/ origin[k].expires <= clock
      /\ accept \in Considering /\ offer.at + TombLife <= tombstones[offer.hello.id] =>
            offer.at + TombLife <= t[offer.hello.id]
  BY <1>1, HelloPruned
<1>4. \A k \in Conns : Live(k)' <=> Live(k)
  BY DEF Live
<1>5. \A i \in IDs : tombstones'[i] <= clock' + TombLife /\ (sessions'[i] # None => tombstones'[i] = 0)
  BY <1>2, <1>3, HelloTypes DEF HelloInv
<1>6. \A k \in Conns : origin'[k] # None =>
          /\ origin'[k].expires <= clock' + TombLife
          /\ ~closed' => \/ Live(k)'
                         \/ origin'[k].expires <= tombstones'[origin'[k].id]
                         \/ origin'[k].expires <= clock'
  BY <1>2, <1>3, <1>4 DEF HelloInv
<1>7. accept' \in Considering => accept' \notin Resting
  BY DEF Considering, Resting
<1>8. accept' \in Considering =>
          /\ offer'.at < offer'.hello.expires /\ offer'.hello.expires <= offer'.at + TombLife
          /\ \A k \in Conns : ~closed' /\ origin'[k] = offer'.hello =>
                Live(k)' \/ offer'.at + TombLife <= tombstones'[offer'.hello.id]
  BY <1>2, <1>3, <1>4, <1>7 DEF HelloInv
<1> QED BY <1>5, <1>6, <1>8 DEF HelloInv, HelloOnce

\* Time passes.
LEMMA HelloTick ==
    ASSUME RelayInv, HelloInv, RelayTick
    PROVE  HelloInv'
<1>1. /\ clock' = clock + 1 /\ UNCHANGED <<closed, sessions, tombstones, connID, origin, accept, offer>>
      /\ offer # None => clock < offer.at + MaxStall
  BY DEF RelayTick, Tick, table, identity, relayVars, acceptor
<1>2. \A k \in Conns : Live(k)' <=> Live(k)
  BY <1>1 DEF Live
<1>3. \A i \in IDs : tombstones'[i] <= clock' + TombLife /\ (sessions'[i] # None => tombstones'[i] = 0)
  BY <1>1, HelloTypes DEF HelloInv
<1>4. \A k \in Conns : origin'[k] # None =>
          /\ origin'[k].expires <= clock' + TombLife
          /\ ~closed' => \/ Live(k)'
                         \/ origin'[k].expires <= tombstones'[origin'[k].id]
                         \/ origin'[k].expires <= clock'
  BY <1>1, <1>2, HelloTypes DEF HelloInv
<1>5. accept' \notin Resting => offer'.at <= clock' /\ clock' <= offer'.at + MaxStall
  <2> SUFFICES ASSUME accept \notin Resting PROVE offer.at <= clock + 1 /\ clock + 1 <= offer.at + MaxStall
      BY <1>1
  <2>1. offer # None /\ offer.at \in Nat
    BY OfferType, RelayAssumption DEF RelayInv
  <2> QED BY <1>1, <2>1, HelloTypes DEF HelloInv
<1> QED BY <1>1, <1>2, <1>3, <1>4, <1>5 DEF HelloInv, HelloOnce

\* A fresh Hello whose session ID is not buried, if it made a connection at all,
\* made one that is still registered.
LEMMA HelloTake ==
    ASSUME RelayInv, HelloInv, AcceptsInTime, acceptTake
    PROVE  HelloInv'
<1>0. Head(handshakes) \in Queued
  BY DEF RelayInv, RelayTypes, acceptTake
<1>1. PICK h \in Hellos : h = Head(handshakes).hello
  BY <1>0 DEF Queued
<1>2. h.id \in IDs /\ h.expires \in Nat
  BY LimitsAssumption, RelayAssumption DEF Hellos
<1>3. /\ accept = "waiting" /\ accept' = "admit" /\ offer'.hello = h /\ offer'.at = clock
      /\ tombstones' = Prune(tombstones) /\ UNCHANGED <<clock, closed, sessions, connID, origin>>
      /\ clock < h.expires /\ h.expires <= clock + TombLife /\ ~(clock < tombstones[h.id])
  BY <1>1 DEF acceptTake, At, GoTo, fresh, tombstoned, identity
<1>4. PICK t : t = Prune(tombstones)
  OBVIOUS
<1>5. /\ \A i \in IDs : t[i] \in Nat /\ t[i] <= tombstones[i] /\ (tombstones[i] = 0 => t[i] = 0)
      /\ \A k \in Conns : origin[k] # None /\ origin[k].expires <= tombstones[origin[k].id] =>
            origin[k].expires <= t[origin[k].id] \/ origin[k].expires <= clock
  BY <1>4, HelloPruned
<1>6. \A k \in Conns : Live(k)' <=> Live(k)
  BY <1>3 DEF Live
<1>7. \A i \in IDs : tombstones'[i] <= clock' + TombLife /\ (sessions'[i] # None => tombstones'[i] = 0)
  BY <1>3, <1>4, <1>5, HelloTypes DEF HelloInv
<1>8. \A k \in Conns : origin'[k] # None =>
          /\ origin'[k].expires <= clock' + TombLife
          /\ ~closed' => \/ Live(k)'
                         \/ origin'[k].expires <= tombstones'[origin'[k].id]
                         \/ origin'[k].expires <= clock'
  BY <1>3, <1>4, <1>5, <1>6 DEF HelloInv
<1>9. ASSUME NEW k \in Conns, ~closed, origin[k] = h PROVE Live(k)
  <2>1. origin[k] # None
    BY <1>9, RelayAssumption
  <2>2. Live(k) \/ h.expires <= tombstones[h.id] \/ h.expires <= clock
    BY <1>9, <2>1 DEF HelloInv
  <2> QED BY <1>2, <1>3, <2>2, HelloTypes
<1>10. clock <= clock /\ clock <= clock + MaxStall
  BY HelloTypes
<1> QED BY <1>3, <1>6, <1>7, <1>8, <1>9, <1>10 DEF HelloInv, HelloOnce

\* Whoever registers is the first to do so with its Hello.
LEMMA FreshHello ==
    ASSUME RelayInv, HelloInv, AcceptsInTime, NEW k \in Conns, acceptRegister(k), NEW l \in Conns
    PROVE  origin[l] # offer.hello
<1> SUFFICES ASSUME origin[l] = offer.hello PROVE FALSE
    OBVIOUS
<1>1. /\ accept = "register" /\ ~closed /\ ~(clock < tombstones[offer.hello.id]) /\ sessions[offer.hello.id] = None
  BY DEF acceptRegister, At, registerWithPathAuth, mayRegister
<1>2. accept \in Considering /\ accept \notin Resting
  BY <1>1 DEF Considering, Resting
<1>3. /\ offer.at \in Nat /\ offer.hello.id \in IDs /\ offer.hello \in Hellos /\ clock <= offer.at + MaxStall
      /\ clock \in Nat /\ TombLife \in Nat /\ MaxStall \in Nat /\ tombstones[offer.hello.id] \in Nat
  BY <1>2, HelloTypes DEF HelloInv
<1>4. origin[l] # None
  BY <1>3, RelayAssumption
<1>5. connID[l] = offer.hello.id
  BY <1>4, HelloTypes
<1>6. ~Live(l)
  BY <1>1, <1>5, NoneAssumption DEF Live
<1>7. offer.at + TombLife <= tombstones[offer.hello.id]
  BY <1>1, <1>2, <1>6 DEF HelloInv
<1> QED BY <1>1, <1>3, <1>7 DEF AcceptsInTime

\* The new connection is registered, and the first one of its Hello.
LEMMA HelloRegister ==
    ASSUME RelayInv, HelloInv, AcceptsInTime, NEW k \in Conns, acceptRegister(k)
    PROVE  HelloInv'
<1>0. RelayTypes /\ ConnInv /\ TypeOK /\ accept = "register" /\ accept \in Considering /\ accept \notin Resting
  BY DEF RelayInv, Inv, acceptRegister, At, Considering, Resting
<1>1. PICK h \in Hellos : h = offer.hello
  BY <1>0, OfferType
<1>2. PICK i \in IDs : i = h.id
  BY <1>0, <1>1, OfferType
<1>3. PICK t : t = Prune(tombstones)
  OBVIOUS
<1>4. /\ connID[k] = None /\ sessions[i] = None /\ ~(clock < tombstones[i])
      /\ sessions'[i] = k /\ (\A j \in IDs : j # i => sessions'[j] = sessions[j])
      /\ connID'[k] = i /\ (\A l \in Conns : l # k => connID'[l] = connID[l])
      /\ origin'[k] = h /\ (\A l \in Conns : l # k => origin'[l] = origin[l])
      /\ tombstones' = t /\ clock' = clock /\ closed' = closed /\ offer' = offer /\ accept' = "ack"
  BY <1>0, <1>1, <1>2, <1>3 DEF acceptRegister, registerWithPathAuth, mayRegister, GoTo, TypeOK, RelayTypes
<1>5. /\ \A j \in IDs : t[j] \in Nat /\ t[j] <= tombstones[j] /\ (tombstones[j] = 0 => t[j] = 0)
      /\ \A l \in Conns : origin[l] # None /\ origin[l].expires <= tombstones[origin[l].id] =>
            origin[l].expires <= t[origin[l].id] \/ origin[l].expires <= clock
  BY <1>3, HelloPruned
<1>6. t[i] = 0
  BY <1>3, <1>4 DEF Prune
<1>7. Live(k)' /\ \A l \in Conns : l # k => (Live(l)' <=> Live(l))
  BY <1>0, <1>4, NoneAssumption DEF Live, TypeOK
<1>8. \A j \in IDs : tombstones'[j] <= clock' + TombLife /\ (sessions'[j] # None => tombstones'[j] = 0)
  BY <1>4, <1>5, <1>6, HelloTypes DEF HelloInv
<1>9. /\ offer.at \in Nat /\ offer.at <= clock /\ clock <= offer.at + MaxStall
      /\ offer.hello.expires <= offer.at + TombLife /\ offer.hello.expires \in Nat
  BY <1>0, HelloTypes DEF HelloInv
<1>10. h.expires <= clock + TombLife
  BY <1>1, <1>9, HelloTypes
<1>11. \A l \in Conns : origin'[l] # None =>
          /\ origin'[l].expires <= clock' + TombLife
          /\ ~closed' => \/ Live(l)'
                         \/ origin'[l].expires <= tombstones'[origin'[l].id]
                         \/ origin'[l].expires <= clock'
  <2> SUFFICES ASSUME NEW l \in Conns, l # k, origin[l] # None
               PROVE  /\ origin[l].expires <= clock + TombLife
                      /\ ~closed => \/ Live(l)' \/ origin[l].expires <= t[origin[l].id]
                                    \/ origin[l].expires <= clock
      BY <1>4, <1>7, <1>10
  <2> QED BY <1>5, <1>7 DEF HelloInv
<1>12. HelloOnce'
  <2>1. \A l \in Conns : origin[l] # h
    BY <1>1, FreshHello
  <2> QED BY <1>4, <2>1 DEF HelloInv, HelloOnce
<1> QED BY <1>4, <1>8, <1>9, <1>11, <1>12 DEF HelloInv, Considering, Resting

\* A session that ends is buried, and room for it is made at no other's expense.
LEMMA BuriedRoom ==
    ASSUME TombstonesSuffice, RelayInv, HelloInv, NEW k \in Conns, unregister(k)
    PROVE  /\ tombstones'[connID[k]] = clock + TombLife
           /\ \A j \in IDs : j # connID[k] => tombstones'[j] = Prune(tombstones)[j]
<1>0. TypeOK /\ connID[k] \in IDs /\ sessions[connID[k]] = k /\ k # None
  BY NoneAssumption DEF RelayInv, Inv, TypeOK, unregister, Live
<1>1. PICK i \in IDs : i = connID[k]
  BY <1>0
<1>2. PICK t \in [IDs -> Nat] : t = Prune(tombstones)
  <2>1. Prune(tombstones) \in [IDs -> Nat]
    BY <1>0 DEF TypeOK, Prune
  <2> QED BY <2>1
<1>3. t[i] = 0
  BY <1>0, <1>1, <1>2 DEF HelloInv, Prune
<1>4. Buried(t) \subseteq IDs \ {i}
  BY <1>3 DEF Buried
<1>5. IsFiniteSet(IDs \ {i}) /\ Cardinality(IDs \ {i}) = Cardinality(IDs) - 1 /\ Cardinality(IDs) \in Nat
  BY FS_RemoveElement, FS_CardinalityType DEF TombstonesSuffice
<1>6. Cardinality(Buried(t)) \in Nat /\ Cardinality(Buried(t)) <= Cardinality(IDs \ {i})
  BY <1>4, <1>5, FS_Subset, FS_CardinalityType
<1>7. Cardinality(Buried(t)) < MaxTombstones
  BY <1>5, <1>6, LimitsAssumption DEF TombstonesSuffice
<1>8. ~(Cardinality(Buried(t)) >= MaxTombstones)
  BY <1>6, <1>7, LimitsAssumption
<1>9. AddTombstone(i)
  BY <1>1 DEF unregister
<1>10. tombstones' = [t EXCEPT ![i] = clock + TombLife]
  BY <1>2, <1>8, <1>9 DEF AddTombstone
<1> QED BY <1>1, <1>2, <1>10

\* A session ends.
LEMMA HelloEnd ==
    ASSUME TombstonesSuffice, AcceptsInTime, RelayInv, HelloInv, NEW k \in Conns, unregister(k), UNCHANGED acceptor
    PROVE  HelloInv'
<1>0. TypeOK /\ ConnInv
  BY DEF RelayInv, Inv
<1>1. PICK i \in IDs : i = connID[k]
  BY <1>0 DEF unregister, Live, TypeOK
<1>2. PICK t : t = Prune(tombstones)
  OBVIOUS
<1>3. /\ tombstones'[i] = clock + TombLife /\ \A j \in IDs : j # i => tombstones'[j] = t[j]
      /\ sessions[i] = k /\ sessions'[i] = None /\ \A j \in IDs : j # i => sessions'[j] = sessions[j]
      /\ UNCHANGED <<clock, closed, connID, origin, accept, offer>>
  BY <1>0, <1>1, <1>2, BuriedRoom DEF unregister, Live, TypeOK, identity, acceptor
<1>4. /\ \A j \in IDs : t[j] \in Nat /\ t[j] <= tombstones[j] /\ (tombstones[j] = 0 => t[j] = 0)
      /\ \A l \in Conns : origin[l] # None /\ origin[l].expires <= tombstones[origin[l].id] =>
            origin[l].expires <= t[origin[l].id] \/ origin[l].expires <= clock
      /\ accept \in Considering /\ offer.at + TombLife <= tombstones[offer.hello.id] =>
            offer.at + TombLife <= t[offer.hello.id]
  BY <1>2, HelloPruned
<1>5. \A l \in Conns : connID[l] # i => (Live(l)' <=> Live(l))
  BY <1>0, <1>3 DEF Live, TypeOK
<1>6. \A j \in IDs : tombstones'[j] <= clock' + TombLife /\ (sessions'[j] # None => tombstones'[j] = 0)
  <2>1. clock + TombLife <= clock + TombLife
    BY HelloTypes
  <2> QED BY <1>3, <1>4, <2>1, HelloTypes DEF HelloInv
<1>7. ASSUME NEW l \in Conns, origin[l] # None
      PROVE  /\ origin[l].expires <= clock + TombLife
             /\ ~closed => \/ Live(l)' \/ origin[l].expires <= tombstones'[origin[l].id] \/ origin[l].expires <= clock
  <2>1. origin[l].id \in IDs /\ connID[l] = origin[l].id
    BY <1>7, HelloTypes
  <2>2. origin[l].expires <= clock + TombLife
    BY <1>7 DEF HelloInv
  <2>3. CASE connID[l] = i
    BY <1>3, <2>1, <2>2, <2>3
  <2>4. CASE connID[l] # i
    BY <1>3, <1>4, <1>5, <1>7, <2>1, <2>4 DEF HelloInv
  <2> QED BY <2>2, <2>3, <2>4
<1>8. ASSUME accept \in Considering, NEW l \in Conns, ~closed, origin[l] = offer.hello
      PROVE  Live(l)' \/ offer.at + TombLife <= tombstones'[offer.hello.id]
  <2>1. /\ offer.hello \in Hellos /\ offer.hello.id \in IDs /\ offer.at \in Nat /\ offer.at <= clock
        /\ clock \in Nat /\ TombLife \in Nat
    BY <1>8, HelloTypes DEF HelloInv, Considering, Resting
  <2>2. connID[l] = offer.hello.id
    BY <1>8, <2>1, HelloTypes, RelayAssumption
  <2>3. CASE connID[l] = i
    BY <1>3, <2>1, <2>2, <2>3
  <2>4. CASE connID[l] # i
    BY <1>3, <1>4, <1>5, <1>8, <2>1, <2>2, <2>4 DEF HelloInv
  <2> QED BY <2>3, <2>4
<1> QED BY <1>3, <1>6, <1>7, <1>8 DEF HelloInv, HelloOnce

\* However it is repeated, a Hello makes one session.
LEMMA HelloStep ==
    ASSUME TombstonesSuffice, AcceptsInTime, RelayInv, HelloInv, [RelayNext]_allVars
    PROVE  HelloInv'
<1> USE DEF table, identity, acceptor
<1>1. CASE RelayTick
  BY <1>1, HelloTick
<1>2. CASE ((PathControl \/ Data) /\ UNCHANGED relayVars) \/ UNCHANGED allVars
  BY <1>2, HelloKept, QuietRouter DEF relayVars, allVars, vars
<1>3. CASE Handshake
  BY <1>3, HelloKept DEF Handshake, sendHello, helloReplayed, helloQueued, helloDropped, vars
<1>4. CASE Accept
  <2> USE DEF At, GoTo, Considering, Resting
  <2>1. CASE acceptTombstoned
    BY <2>1, HelloPruneKeeps DEF acceptTombstoned
  <2>2. CASE acceptFails
    BY <2>2, HelloPruneKeeps DEF acceptFails, registerRefused
  <2>3. CASE acceptStale \/ acceptAdmit \/ acceptRefuse \/ acceptReturns \/ acceptAck
    BY <2>3, HelloKept DEF acceptStale, acceptAdmit, acceptRefuse, acceptReturns, acceptAck, vars
  <2>4. CASE acceptAckFails \/ acceptRemember \/ acceptAdd \/ acceptClose \/ acceptClosed \/ acceptStops
    BY <2>4, HelloKept DEF acceptAckFails, acceptRemember, acceptAdd, acceptClose, acceptClosed, acceptStops, vars
  <2> QED BY <1>4, <2>1, <2>2, <2>3, <2>4, HelloTake, HelloRegister DEF Accept
<1>5. CASE Shutdown
  <2>1. CASE Close \/ closeRouterAgain
    BY <2>1, HelloKept DEF Close, closeRouterAgain, vars
  <2>2. CASE closeRouter \/ readLoopEnds
    <3>1. /\ closed' /\ UNCHANGED <<clock, tombstones, connID, origin, accept, offer>>
          /\ \A j \in IDs : sessions'[j] = None
      BY <2>2 DEF closeRouter, readLoopEnds, close, relayVars
    <3> QED BY <3>1 DEF HelloInv, HelloOnce
  <2>3. ASSUME NEW k \in Conns, closeSession(k) PROVE HelloInv'
    BY <2>3, HelloKept DEF closeSession, unregisterOrphan
  <2> QED BY <1>5, <2>1, <2>2, <2>3 DEF Shutdown
<1>6. ASSUME NEW k \in Conns, serveEnds(k) \/ sessionCloseOrphan(k) \/ sessionCloseAgain(k) PROVE HelloInv'
  BY <1>6, HelloKept DEF serveEnds, sessionCloseOrphan, unregisterOrphan, sessionCloseAgain, vars
<1>7. ASSUME NEW k \in Conns, sessionClose(k) PROVE HelloInv'
  BY <1>7, HelloEnd DEF sessionClose
<1> QED BY <1>1, <1>2, <1>3, <1>4, <1>5, <1>6, <1>7 DEF RelayNext, SessionEnd

-----------------------------------------------------------------------------
\* AckInv speaks of these variables only.
LEMMA AckKept ==
    ASSUME AckInv, UNCHANGED <<replays, acks, origin>>,
           accept' \in {"ack", "remember"} => accept' = accept /\ offer' = offer
    PROVE  AckInv'
BY DEF AckInv, AckBudget

\* A cache entry goes, or stays with fewer replays left than acknowledgments were added.
LEMMA AckStep ==
    ASSUME AcceptsInTime, RelayInv, HelloInv, AckInv, [RelayNext]_allVars
    PROVE  AckInv'
<1>0. RelayTypes /\ ConnInv /\ CacheInv
  BY DEF RelayInv
<1>a. \A h \in Hellos : acks[h] \in Nat
  BY <1>0 DEF RelayTypes
<1>b. \A i \in IDs : replays[i] # None => /\ replays[i].hello \in Hellos /\ replays[i].hello.id = i
                                          /\ replays[i].remaining \in Nat
  BY <1>0 DEF RelayTypes, CacheInv, CachedAcks
<1> USE DEF acceptor, handshake
<1>1. CASE RelayTick \/ ((PathControl \/ Data) /\ UNCHANGED relayVars) \/ UNCHANGED allVars
  BY <1>1, AckKept DEF RelayTick, relayVars, allVars
<1>2. CASE Handshake
  <2>1. ASSUME NEW h \in Hellos, sendHello(h) PROVE AckInv'
    BY <2>1, AckKept DEF sendHello
  <2>2. ASSUME NEW h \in hellos, NEW a \in Addrs, helloReplayed(h, a) PROVE AckInv'
    <3>1. h \in Hellos /\ h.id \in IDs
      BY <1>0 DEF RelayTypes, Hellos
    <3>2. PICK i \in IDs : i = h.id
      BY <3>1
    <3>3. /\ replays[i] # None /\ replays[i].hello = h /\ replays[i].remaining > 0 /\ ~closed /\ replays[i] \in CachedAcks
      BY <1>0, <2>2, <3>2, CachedType DEF helloReplayed, answered, reading
    <3>4. /\ replays'[i].hello = h /\ replays'[i].remaining = replays[i].remaining - 1
          /\ \A j \in IDs : j # i => replays'[j] = replays[j]
      <4>1. replays' = [replays EXCEPT ![i] = [replays[i] EXCEPT !.remaining = replays[i].remaining - 1]]
        BY <2>2, <3>2 DEF helloReplayed, replaysLeft
      <4> QED BY <1>0, <3>3, <4>1 DEF RelayTypes, CachedAcks
    <3>5. acks'[h] = acks[h] + 1 /\ \A g \in Hellos : g # h => acks'[g] = acks[g]
      BY <1>0, <2>2, <3>1 DEF helloReplayed, RelayTypes
    <3>6. UNCHANGED <<origin, accept, offer>>
      BY <2>2 DEF helloReplayed
    <3>7. acks[h] + replays[i].remaining <= 1 + ReplayLimit
      BY <3>3 DEF AckInv
    <3>8. acks'[h] <= 1 + ReplayLimit /\ acks'[h] + replays'[i].remaining <= 1 + ReplayLimit
      BY <1>a, <1>b, <3>1, <3>3, <3>4, <3>5, <3>7, RelayAssumption
    <3>9. \E k \in Conns : origin[k] = h
      <4>1. sessions[i] # None /\ origin[sessions[i]] = h
        BY <1>0, <3>3 DEF CacheInv, CachedAckCurrent
      <4>2. sessions[i] \in Conns
        BY <4>1 DEF RelayInv, Inv, TypeOK
      <4> QED BY <4>1, <4>2
    <3>10. \A g \in Hellos : (\A k \in Conns : origin'[k] # g) => acks'[g] = 0
      BY <3>5, <3>6, <3>9 DEF AckInv
    <3>11. AckBudget'
      BY <3>5, <3>8 DEF AckInv, AckBudget
    <3>12. accept \in {"ack", "remember"} => offer.hello # h /\ offer.hello \in Hellos
      BY <1>0, <3>2, <3>3, OfferType DEF CacheInv, Resting
    <3>13. \A j \in IDs : replays'[j] # None => acks'[replays'[j].hello] + replays'[j].remaining <= 1 + ReplayLimit
      <4> SUFFICES ASSUME NEW j \in IDs, j # i, replays[j] # None
                   PROVE  acks'[replays[j].hello] + replays[j].remaining <= 1 + ReplayLimit
          BY <3>4, <3>8
      <4>1. replays[j].hello \in Hellos /\ replays[j].hello # h
        BY <1>b, <3>2
      <4> QED BY <3>5, <4>1 DEF AckInv
    <3>14. (accept' = "ack" => acks'[offer'.hello] = 0) /\ (accept' = "remember" => acks'[offer'.hello] <= 1)
      BY <3>5, <3>6, <3>12 DEF AckInv
    <3> QED BY <3>10, <3>11, <3>13, <3>14 DEF AckInv
  <2>3. ASSUME NEW h \in hellos, NEW a \in Addrs, helloQueued(h, a) \/ helloDropped(h, a) PROVE AckInv'
    <3>1. PICK i \in IDs : i = h.id
      BY <1>0 DEF RelayTypes, Hellos
    <3>2. /\ replays'[i] = cached(i) /\ \A j \in IDs : j # i => replays'[j] = replays[j]
          /\ UNCHANGED <<acks, origin, accept, offer>>
      BY <1>0, <2>3, <3>1 DEF helloQueued, helloDropped, RelayTypes
    <3>3. cached(i) \in {replays[i], None}
      BY <1>0, CachedType
    <3> QED BY <3>2, <3>3 DEF AckInv, AckBudget
  <2> QED BY <1>2, <2>1, <2>2, <2>3 DEF Handshake
<1>3. CASE Accept
  <2> USE DEF At, GoTo
  <2>1. ASSUME NEW k \in Conns, acceptRegister(k) PROVE AckInv'
    <3>1. /\ accept' = "ack" /\ UNCHANGED <<replays, acks, offer>> /\ connID[k] = None
          /\ offer.hello \in Hellos
          /\ origin'[k] = offer.hello /\ \A l \in Conns : l # k => origin'[l] = origin[l]
      BY <1>0, <2>1, OfferType DEF acceptRegister, registerWithPathAuth, RelayTypes, Resting
    <3>2. acks[offer.hello] = 0
      BY <2>1, <3>1, FreshHello DEF AckInv
    <3>3. ASSUME NEW h \in Hellos, \A l \in Conns : origin'[l] # h PROVE acks[h] = 0
      <4>1. origin[k] = None /\ None # h
        BY <1>0, <3>1, RelayAssumption DEF ConnInv
      <4>2. \A l \in Conns : origin[l] # h
        BY <3>1, <3>3, <4>1
      <4> QED BY <4>2 DEF AckInv
    <3> QED BY <3>1, <3>2, <3>3 DEF AckInv, AckBudget
  <2>2. CASE acceptAck
    <3>1. /\ accept = "ack" /\ accept' = "remember" /\ UNCHANGED <<replays, offer, origin>>
          /\ offer.hello \in Hellos /\ offer.hello.id \in IDs /\ replays[offer.hello.id] = None
      BY <1>0, <2>2, OfferType DEF acceptAck, Resting, CacheInv
    <3>2. PICK h \in Hellos : h = offer.hello
      BY <3>1
    <3>3. /\ acks[h] = 0 /\ acks'[h] = 1 /\ \A g \in Hellos : g # h => acks'[g] = acks[g]
      BY <1>0, <2>2, <3>1, <3>2 DEF acceptAck, RelayTypes, AckInv
    <3>4. \E k \in Conns : origin[k] = h
      BY <1>0, <3>1, <3>2 DEF ConnInv, RelayTypes, Answering
    <3>5. \A j \in IDs : replays[j] # None => replays[j].hello \in Hellos /\ replays[j].hello # h
      BY <1>b, <3>1, <3>2
    <3>6. 1 <= 1 + ReplayLimit /\ 1 <= 1
      BY RelayAssumption
    <3>7. AckBudget'
      BY <3>3, <3>6 DEF AckInv, AckBudget
    <3>8. \A j \in IDs : replays'[j] # None => acks'[replays'[j].hello] + replays'[j].remaining <= 1 + ReplayLimit
      BY <3>1, <3>3, <3>5 DEF AckInv
    <3>9. \A g \in Hellos : (\A k \in Conns : origin'[k] # g) => acks'[g] = 0
      BY <3>1, <3>3, <3>4 DEF AckInv
    <3> QED BY <3>1, <3>2, <3>3, <3>6, <3>7, <3>8, <3>9 DEF AckInv
  <2>3. CASE acceptRemember
    <3>1. /\ accept = "remember" /\ accept' = "add" /\ UNCHANGED <<acks, origin>>
          /\ offer.hello \in Hellos /\ offer.hello.id \in IDs /\ acks[offer.hello] <= 1
      BY <1>0, <2>3, OfferType DEF acceptRemember, Resting, AckInv
    <3>2. CASE closed
      BY <2>3, <3>1, <3>2 DEF acceptRemember, AckInv, AckBudget
    <3>3. CASE ~closed
      <4>1. PICK i \in IDs : i = offer.hello.id
        BY <3>1
      <4>2. /\ replays'[i].hello = offer.hello /\ replays'[i].remaining = ReplayLimit
            /\ \A j \in IDs : j # i => replays'[j] = replays[j]
        BY <1>0, <2>3, <3>3, <4>1 DEF acceptRemember, RelayTypes
      <4>3. acks[offer.hello] + ReplayLimit <= 1 + ReplayLimit
        BY <1>a, <3>1, RelayAssumption
      <4> QED BY <3>1, <4>2, <4>3 DEF AckInv, AckBudget
    <3> QED BY <3>2, <3>3
  <2>4. CASE acceptTake \/ acceptStale \/ acceptTombstoned \/ acceptAdmit \/ acceptRefuse
    BY <2>4, AckKept DEF acceptTake, acceptStale, acceptTombstoned, acceptAdmit, acceptRefuse
  <2>5. CASE acceptReturns \/ acceptFails \/ acceptAckFails
    BY <2>5, AckKept DEF acceptReturns, acceptFails, acceptAckFails
  <2>6. CASE acceptAdd \/ acceptClose \/ acceptClosed \/ acceptStops
    BY <2>6, AckKept DEF acceptAdd, acceptClose, acceptClosed, acceptStops
  <2> QED BY <1>3, <2>1, <2>2, <2>3, <2>4, <2>5, <2>6 DEF Accept
<1>4. CASE Shutdown
  BY <1>4, AckKept DEF Shutdown, Close, closeRouter, closeRouterAgain, readLoopEnds, closeSession, relayVars
<1>5. ASSUME NEW k \in Conns, serveEnds(k) \/ sessionCloseOrphan(k) \/ sessionCloseAgain(k) PROVE AckInv'
  BY <1>5, AckKept DEF serveEnds, sessionCloseOrphan, sessionCloseAgain
<1>6. ASSUME NEW k \in Conns, sessionClose(k) PROVE AckInv'
  <2>1. /\ \A j \in IDs : replays'[j] \in {replays[j], None}
        /\ UNCHANGED <<acks, origin, accept, offer>>
    BY <1>0, <1>6 DEF sessionClose, forgotten, RelayTypes
  <2> QED BY <2>1 DEF AckInv, AckBudget
<1> QED BY <1>1, <1>2, <1>3, <1>4, <1>5, <1>6 DEF RelayNext, SessionEnd

-----------------------------------------------------------------------------
LEMMA RelayInvInit == RelayInit => RelayInv /\ HelloInv /\ AckInv
<1> SUFFICES ASSUME RelayInit PROVE RelayInv /\ HelloInv /\ AckInv
    OBVIOUS
<1>1. Inv
  BY InvInit DEF RelayInit
<1>2. RelayTypes
  BY DEF RelayInit, RelayTypes, Considering, Answering, Dropping, Resting
<1>3. \A k \in Conns : ~Live(k)
  BY DEF RelayInit, Init, Live
<1>4. ConnInv
  BY <1>3 DEF RelayInit, Init, ConnInv, Answering, Dropping, NoOrphanConnection
<1>5. CacheInv
  BY DEF RelayInit, CacheInv, CachedAckCurrent
<1>6. HelloInv
  BY LimitsAssumption DEF RelayInit, Init, HelloInv, HelloOnce, Considering, Resting
<1>7. AckInv
  BY RelayAssumption, NoneAssumption DEF RelayInit, AckInv, AckBudget
<1> QED BY <1>1, <1>2, <1>4, <1>5, <1>6, <1>7 DEF RelayInv

\* The inductive invariant of the relay.  It contains the router's: what is proved
\* of the router alone holds under the accept loop, the serving goroutines and Close.
THEOREM RelayInvHolds == RelaySpec => []RelayInv
<1>1. RelayInv /\ [RelayNext]_allVars => RelayInv'
  BY RouterStep, RelayTypesStep, ConnStep, CacheStep DEF RelayInv
<1> QED BY RelayInvInit, <1>1, PTL DEF RelaySpec

\* ListenAndServe, serveSession and Close: a connection that the router knows is
\* held by the accept loop or by a goroutine that closes it, wherever a failed
\* acknowledgment, a refused session or a shutdown comes in between.
THEOREM NoConnectionIsOrphaned == RelaySpec => []NoOrphanConnection
<1>1. RelayInv => NoOrphanConnection
  BY DEF RelayInv, ConnInv
<1> QED BY <1>1, RelayInvHolds, PTL

\* relay.go with its router: the routes of the sessions and the use of challenges
\* are as sound under the relay as they are for the router alone.
THEOREM RouterStaysSound == RelaySpec => [](PathsSound /\ ChallengesBounded)
<1>1. RelayInv => PathsSound /\ ChallengesBounded
  BY InvSound DEF RelayInv
<1> QED BY <1>1, RelayInvHolds, PTL

\* acceptSession, the handshake tombstones and the replay cache: while no tombstone
\* is dropped for want of room and the accept loop keeps up, a Hello makes one
\* session however it is repeated, is acknowledged at most 1 + ReplayLimit times,
\* and only with the keys of the session in force.
THEOREM HelloIsSound ==
    ASSUME TombstonesSuffice, AcceptsInTime
    PROVE  RelaySpec => []HelloSound
<1>1. RelayInv /\ HelloInv /\ AckInv /\ [RelayNext]_allVars => (HelloInv /\ AckInv)'
  BY HelloStep, AckStep
<1>2. RelayInv /\ HelloInv /\ AckInv => HelloSound
  BY DEF RelayInv, CacheInv, HelloInv, AckInv, HelloSound
<1> QED BY <1>1, <1>2, RelayInvInit, RelayInvHolds, PTL DEF RelaySpec
==============================================================================
