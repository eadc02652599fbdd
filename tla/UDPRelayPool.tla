---------------------------- MODULE UDPRelayPool ----------------------------
(***************************************************************************)
(* The server's pool of UDP flows to game servers: the relay handler checks *)
(* the target, ForwardUDP finds or dials the flow of a datagram, a reader  *)
(* per flow sends answers back until the flow is idle or fails, Close ends *)
(* everything.  A dial runs outside the pool's mutex; the reservation made *)
(* before it holds its place under the limits.                             *)
(*                                                                         *)
(* A flow object is a slot; a slot is used again once its flow is gone.    *)
(***************************************************************************)
EXTENDS Naturals, FiniteSets

CONSTANTS
    Callers,            \* goroutines of the relay's receive workers
    Keys,               \* (session, identity, local, remote) of a datagram
    SessionOf,          \* the session of a key
    RemoteOf,           \* the target of a key: address and port
    Rules,              \* the compiled ACL: sets of addresses and port ranges
    MaxFlows,
    MaxFlowsPerSession,
    MaxSlots            \* bound on the flow objects that exist at once

ASSUME PoolAssumption ==
    /\ IsFiniteSet(Callers) /\ IsFiniteSet(Keys)
    /\ MaxFlows \in Nat \ {0}
    /\ MaxFlowsPerSession \in Nat \ {0}
    /\ MaxSlots \in Nat

Slots == 1..MaxSlots
Sessions == {SessionOf[k] : k \in Keys}
NoFlow == 0

VARIABLES
    flows,              \* the map from keys to flows
    flowCounts,         \* per session; 0 stands for an absent entry
    pendingFlows,
    pendingFlowCounts,
    closed,
    closing,            \* the flows Close has collected and not closed yet
    socket,             \* per slot: key, connection and reader of the flow
    caller              \* per caller: where ForwardUDP is, key and flow

pool == <<flows, flowCounts, pendingFlows, pendingFlowCounts, closed>>
vars == <<pool, closing, socket, caller>>

Idle == [at |-> "idle", key |-> "none", flow |-> NoFlow]
Free == [key |-> "none", conn |-> "none", reader |-> "none"]
Held(s) == \E c \in Callers : caller[c].flow = s
Reusable == {s \in Slots : socket[s] = Free /\ ~Held(s) /\ s \notin closing}

Init ==
    /\ flows = [k \in Keys |-> NoFlow]
    /\ flowCounts = [s \in Sessions |-> 0]
    /\ pendingFlows = 0
    /\ pendingFlowCounts = [s \in Sessions |-> 0]
    /\ closed = FALSE /\ closing = {}
    /\ socket = [s \in Slots |-> Free]
    /\ caller = [c \in Callers |-> Idle]

-----------------------------------------------------------------------------
(* The target ACL and the limits                                            *)

portAllowed(rule, port) == \E range \in rule.ports : port >= range.start /\ port <= range.end
Allows(target) == \E rule \in Rules : portAllowed(rule, target.port) /\ target.addr \in rule.prefixes

Open == {k \in Keys : flows[k] # NoFlow}

flowLimitAllowsWithPendingLocked(s) ==
    /\ Cardinality(Open) + pendingFlows < MaxFlows
    /\ flowCounts[s] + pendingFlowCounts[s] < MaxFlowsPerSession

flowLimitAllowsLocked(s) ==
    /\ Cardinality(Open) < MaxFlows
    /\ flowCounts[s] < MaxFlowsPerSession

Decremented(counts, s) == [counts EXCEPT ![s] = IF @ <= 1 THEN 0 ELSE @ - 1]

releaseReservedFlowLocked(s) ==
    /\ pendingFlows' = IF pendingFlows > 0 THEN pendingFlows - 1 ELSE 0
    /\ pendingFlowCounts' = Decremented(pendingFlowCounts, s)

-----------------------------------------------------------------------------
(* HandleRelayPacket, ForwardUDP and flow                                   *)

at(c, p) == caller' = [caller EXCEPT ![c].at = p]
end(c) == caller' = [caller EXCEPT ![c] = Idle]
quiet == UNCHANGED <<pool, closing, socket>>

\* The datagram of key k is denied, or flow() refuses it.
refuse(c, k) ==
    /\ caller[c].at = "idle"
    /\ \/ ~Allows(RemoteOf[k])
       \/ closed
       \/ flows[k] = NoFlow /\ ~flowLimitAllowsWithPendingLocked(SessionOf[k])
    /\ UNCHANGED caller /\ quiet

reuse(c, k) ==
    /\ caller[c].at = "idle" /\ Allows(RemoteOf[k])
    /\ ~closed /\ flows[k] # NoFlow
    /\ caller' = [caller EXCEPT ![c] = [at |-> "writing", key |-> k, flow |-> flows[k]]]
    /\ quiet

reserve(c, k) ==
    /\ caller[c].at = "idle" /\ Allows(RemoteOf[k])
    /\ ~closed /\ flows[k] = NoFlow
    /\ flowLimitAllowsWithPendingLocked(SessionOf[k])
    /\ pendingFlows' = pendingFlows + 1
    /\ pendingFlowCounts' = [pendingFlowCounts EXCEPT ![SessionOf[k]] = @ + 1]
    /\ caller' = [caller EXCEPT ![c] = [at |-> "dialing", key |-> k, flow |-> NoFlow]]
    /\ UNCHANGED <<flows, flowCounts, closed, closing, socket>>

\* DialContext fails or times out: the deferred release gives the place back.
releases_NotOnError(s) == UNCHANGED <<pendingFlows, pendingFlowCounts>>
releases(s) == releaseReservedFlowLocked(s)

dialFails(c) ==
    /\ caller[c].at = "dialing" /\ end(c)
    /\ releases(SessionOf[caller[c].key])
    /\ UNCHANGED <<flows, flowCounts, closed, closing, socket>>

dialed(c) ==
    /\ caller[c].at = "dialing"
    /\ \E s \in Reusable :
          /\ \A r \in Reusable : s <= r
          /\ socket' = [socket EXCEPT ![s] = [key |-> caller[c].key, conn |-> "open", reader |-> "none"]]
          /\ caller' = [caller EXCEPT ![c].at = "dialed", ![c].flow = s]
    /\ UNCHANGED <<pool, closing>>

\* Under the mutex again: the pool was closed, or another caller was faster,
\* and the new connection is closed at once.
lostRace(s) == socket' = [socket EXCEPT ![s] = Free]

dialedTooLate(c) ==
    /\ caller[c].at = "dialed" /\ closed /\ end(c)
    /\ releaseReservedFlowLocked(SessionOf[caller[c].key])
    /\ lostRace(caller[c].flow)
    /\ UNCHANGED <<flows, flowCounts, closed, closing>>

useExisting(c) ==
    /\ caller[c].at = "dialed" /\ ~closed
    /\ flows[caller[c].key] # NoFlow
    /\ releaseReservedFlowLocked(SessionOf[caller[c].key])
    /\ lostRace(caller[c].flow)
    /\ caller' = [caller EXCEPT ![c].at = "writing", ![c].flow = flows[caller[c].key]]
    /\ UNCHANGED <<flows, flowCounts, closed, closing>>

\* What a caller does with the flow it dialled.  That the second check of the
\* limits never fails here is AdmittedIsKept.
absent_Unchecked(k) == TRUE
absent(k) == flows[k] = NoFlow

publish(c) ==
    LET k == caller[c].key
        s == SessionOf[k] IN
    /\ caller[c].at = "dialed" /\ ~closed /\ absent(k)
    /\ flowLimitAllowsLocked(s)
    /\ releaseReservedFlowLocked(s)
    /\ flows' = [flows EXCEPT ![k] = caller[c].flow]
    /\ flowCounts' = [flowCounts EXCEPT ![s] = @ + 1]
    /\ socket' = [socket EXCEPT ![caller[c].flow].reader = "reading"]
    /\ at(c, "writing")
    /\ UNCHANGED <<closed, closing>>

\* The payload is written, or the write fails, for instance because the flow
\* was closed meanwhile; either way the datagram is done with.
write(c) == caller[c].at = "writing" /\ end(c) /\ quiet

-----------------------------------------------------------------------------
(* readLoop and Close                                                       *)

\* The loop ends: idle for too long, closed under it, or an answer that the
\* session does not take.  The flow leaves the map before its connection is
\* closed.
readEnds(s) ==
    /\ socket[s].reader = "reading"
    /\ socket' = [socket EXCEPT ![s].reader = "removing"]
    /\ UNCHANGED <<pool, closing, caller>>

mine(s) == flows[socket[s].key] = s
forget(s) ==
    \/ /\ mine(s)
       /\ flows' = [flows EXCEPT ![socket[s].key] = NoFlow]
       /\ flowCounts' = Decremented(flowCounts, SessionOf[socket[s].key])
    \/ ~mine(s) /\ UNCHANGED <<flows, flowCounts>>

remove(s) ==
    /\ socket[s].reader = "removing"
    /\ socket' = [socket EXCEPT ![s].reader = "removed"]
    /\ forget(s)
    /\ UNCHANGED <<pendingFlows, pendingFlowCounts, closed, closing, caller>>

readerCloses(s) ==
    /\ socket[s].reader = "removed"
    /\ socket' = [socket EXCEPT ![s] = Free]
    /\ UNCHANGED <<pool, closing, caller>>

collected_None == {}
collected == {flows[k] : k \in Open}

\* A second Close finds an empty map.
Close ==
    /\ closing' = closing \cup collected
    /\ flows' = [k \in Keys |-> NoFlow]
    /\ flowCounts' = [s \in Sessions |-> 0]
    /\ pendingFlows' = 0
    /\ pendingFlowCounts' = [s \in Sessions |-> 0]
    /\ closed' = TRUE
    /\ UNCHANGED <<socket, caller>>

closeFlow(s) ==
    /\ s \in closing /\ closing' = closing \ {s}
    /\ socket' = IF socket[s] = Free THEN socket ELSE [socket EXCEPT ![s].conn = "closed"]
    /\ UNCHANGED <<pool, caller>>

-----------------------------------------------------------------------------
CallerSteps == \E c \in Callers : dialFails(c) \/ dialed(c) \/ dialedTooLate(c) \/ useExisting(c)
                                    \/ publish(c) \/ write(c)
FlowSteps == \E s \in Slots : remove(s) \/ readerCloses(s) \/ closeFlow(s)
                                \/ (readEnds(s) /\ socket[s].conn = "closed")

Next ==
    \/ \E c \in Callers, k \in Keys : refuse(c, k) \/ reuse(c, k) \/ reserve(c, k)
    \/ CallerSteps \/ FlowSteps
    \/ \E s \in Slots : readEnds(s)
    \/ ~closed /\ Close

Spec == Init /\ [][Next]_vars

(***************************************************************************)
(* A call that is under way goes on, a dial ends by its timeout, and the   *)
(* reader of a closed connection gets an error.  No idle timeout, no new   *)
(* datagram and no Close is assumed.                                       *)
(***************************************************************************)
FairSpec == Spec /\ WF_vars(CallerSteps) /\ WF_vars(FlowSteps)

-----------------------------------------------------------------------------
\* Type invariant of the pool and its flows.
TypeOK ==
    /\ flows \in [Keys -> Slots \cup {NoFlow}]
    /\ flowCounts \in [Sessions -> Nat] /\ pendingFlows \in Nat /\ pendingFlowCounts \in [Sessions -> Nat]
    /\ closed \in BOOLEAN /\ closing \subseteq Slots
    /\ socket \in [Slots -> [key : Keys \cup {"none"}, conn : {"none", "open", "closed"},
                             reader : {"none", "reading", "removing", "removed"}]]
    /\ caller \in [Callers -> [at : {"idle", "dialing", "dialed", "writing"}, key : Keys \cup {"none"},
                               flow : Slots \cup {NoFlow}]]
    /\ \A k \in Open : socket[flows[k]].key = k

Waiting(s) == {c \in Callers : /\ caller[c].at \in {"dialing", "dialed"}
                               /\ SessionOf[caller[c].key] = s}

(***************************************************************************)
(* The counters the limits are checked against are exact: per session the  *)
(* flows of the map, and the calls between their reservation and the end   *)
(* of their dial, until Close (which counts nothing any more).             *)
(***************************************************************************)
CountersExact ==
    /\ \A s \in Sessions :
          /\ flowCounts[s] = Cardinality({k \in Open : SessionOf[k] = s})
          /\ ~closed => pendingFlowCounts[s] = Cardinality(Waiting(s))
    /\ ~closed => pendingFlows = Cardinality(UNION {Waiting(s) : s \in Sessions})

(***************************************************************************)
(* Connections are bounded, whatever dials race: no more are open than     *)
(* MaxFlows, not counting those whose reader has given up its place and is *)
(* about to close them, and, after Close, those Close still has to close.  *)
(***************************************************************************)
SocketBound ==
    Cardinality({s \in Slots : /\ socket[s].conn = "open" /\ socket[s].reader # "removed"
                               /\ ~closed}) <= MaxFlows

(***************************************************************************)
(* A dial that was admitted is not refused for the limit when it succeeds: *)
(* the reservation keeps the second check of flow from failing.            *)
(***************************************************************************)
AdmittedIsKept ==
    \A c \in Callers : caller[c].at = "dialed" /\ ~closed /\ flows[caller[c].key] = NoFlow =>
        flowLimitAllowsLocked(SessionOf[caller[c].key])

(***************************************************************************)
(* A flow that is being read is the one the map names, or Close has it on  *)
(* its list or has closed it: no reader is lost to a race of two dials or  *)
(* of a removal with a new flow for the same key.                          *)
(***************************************************************************)
ReaderReachable ==
    \A s \in Slots : socket[s].reader = "reading" =>
        \/ flows[socket[s].key] = s
        \/ closed /\ (s \in closing \/ socket[s].conn = "closed")

(***************************************************************************)
(* After Close every connection is closed in the end and stays closed,     *)
(* also one whose dial was under way when Close ran.                       *)
(***************************************************************************)
CloseDrains == closed ~> [](\A s \in Slots : socket[s].conn # "open")

\* The limits of the pool hold: the counters are exact, connections are bounded
\* and a reservation is worth a flow.
PoolSound == TypeOK /\ CountersExact /\ SocketBound /\ AdmittedIsKept
=============================================================================
