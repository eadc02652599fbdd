-------------------------- MODULE UDPRelayPoolProofs --------------------------
(***************************************************************************)
(* Proofs about the server's UDP relay pool for any finite sets of callers *)
(* and keys and any limits.  The inductive invariant says who owns a flow  *)
(* object (the call that has dialled it, the map, its reader or Close),    *)
(* that the counters count the map and the calls that hold a reservation,  *)
(* and that both together stay within the limits.                          *)
(***************************************************************************)
EXTENDS UDPRelayPool, TLAPS, FiniteSetTheorems

Dialing == {"dialing", "dialed"}

\* The calls between their reservation and the end of their dial.
Pending == {c \in Callers : caller[c].at \in Dialing}
OpenOf(s) == {k \in Open : SessionOf[k] = s}

\* A dialled flow belongs to its call alone until it is published or closed.
CallerInv ==
    /\ \A c \in Callers : caller[c].at # "idle" => caller[c].key \in Keys
    /\ \A c \in Callers : caller[c].at = "dialed" =>
          /\ caller[c].flow \in Slots \ closing
          /\ socket[caller[c].flow].key = caller[c].key
          /\ socket[caller[c].flow].conn = "open" /\ socket[caller[c].flow].reader = "none"
    /\ \A c, d \in Callers :
          caller[c].at = "dialed" /\ caller[d].at = "dialed" /\ caller[c].flow = caller[d].flow => c = d

\* A flow of the map has a reader, and until Close a reader has its flow in the map.
FlowInv ==
    /\ closed => Open = {}
    /\ ~closed => closing = {}
    /\ \A k \in Open : socket[flows[k]].reader \in {"reading", "removing"}
    /\ \A s \in Slots : socket[s].reader # "none" => socket[s].key \in Keys
    /\ \A s \in Slots : ~closed /\ socket[s].reader \in {"reading", "removing"} => flows[socket[s].key] = s
    /\ \A s \in Slots : socket[s].conn = "open" /\ socket[s].reader = "none" =>
          \E c \in Callers : caller[c].at = "dialed" /\ caller[c].flow = s

FlowsCounted == \A s \in Sessions : flowCounts[s] = Cardinality(OpenOf(s))

PendingCounted ==
    ~closed => /\ pendingFlows = Cardinality(Pending)
               /\ \A s \in Sessions : pendingFlowCounts[s] = Cardinality(Waiting(s))

Limits ==
    ~closed => /\ Cardinality(Open) + pendingFlows <= MaxFlows
               /\ \A s \in Sessions : flowCounts[s] + pendingFlowCounts[s] <= MaxFlowsPerSession

Inv == TypeOK /\ CallerInv /\ FlowInv /\ ReaderReachable /\ FlowsCounted /\ PendingCounted /\ Limits

-----------------------------------------------------------------------------
\* The sets that are counted are finite.
LEMMA Finite ==
    /\ IsFiniteSet(Open) /\ IsFiniteSet(Pending)
    /\ \A s : IsFiniteSet(OpenOf(s)) /\ IsFiniteSet(Waiting(s))
<1>1. IsFiniteSet(Open) /\ IsFiniteSet(Pending)
  BY PoolAssumption, FS_Subset DEF Open, Pending
<1>2. ASSUME NEW s PROVE IsFiniteSet(OpenOf(s)) /\ IsFiniteSet(Waiting(s))
  <2>1. OpenOf(s) \subseteq Keys /\ Waiting(s) \subseteq Callers
    BY DEF OpenOf, Open, Waiting
  <2> QED BY <2>1, PoolAssumption, FS_Subset
<1> QED BY <1>1, <1>2

\* The session of a key is a session.
LEMMA SessionType == \A k \in Keys : SessionOf[k] \in Sessions
BY DEF Sessions

\* No flow object stands for the absent flow.
LEMMA NoFlowIsNoSlot == NoFlow \notin Slots
BY PoolAssumption DEF NoFlow, Slots

SocketType == [key : Keys \cup {"none"}, conn : {"none", "open", "closed"},
               reader : {"none", "reading", "removing", "removed"}]
CallerType == [at : {"idle", "dialing", "dialed", "writing"}, key : Keys \cup {"none"},
               flow : Slots \cup {NoFlow}]

\* A call that goes on with another flow.
LEMMA AtFlow ==
    ASSUME NEW r \in CallerType, NEW p \in {"dialed", "writing"}, NEW s \in Slots
    PROVE  [r EXCEPT !.at = p, !.flow = s] \in CallerType
BY DEF CallerType

\* What a call that has dialled has in hand.
LEMMA Dialed ==
    ASSUME Inv, NEW c \in Callers, caller[c].at = "dialed"
    PROVE  /\ caller[c].key \in Keys /\ caller[c].flow \in Slots /\ caller[c].flow \notin closing
           /\ socket[caller[c].flow].key = caller[c].key
           /\ socket[caller[c].flow].conn = "open"
           /\ socket[caller[c].flow].reader = "none"
BY DEF Inv, CallerInv

\* Every action keeps the types.
LEMMA TypeStep == Inv /\ [Next]_vars => TypeOK'
<1> SUFFICES ASSUME Inv, [Next]_vars PROVE TypeOK'
    OBVIOUS
<1> USE NoFlowIsNoSlot, SessionType DEF Inv, TypeOK, Open, SocketType, CallerType
<1>1. ASSUME NEW c \in Callers, NEW k \in Keys, refuse(c, k) PROVE TypeOK'
  BY <1>1 DEF refuse, quiet, pool
<1>2. ASSUME NEW c \in Callers, NEW k \in Keys, reuse(c, k) PROVE TypeOK'
  BY <1>2 DEF reuse, quiet, pool
<1>3. ASSUME NEW c \in Callers, NEW k \in Keys, reserve(c, k) PROVE TypeOK'
  BY <1>3 DEF reserve
<1>4. ASSUME NEW c \in Callers, dialFails(c) PROVE TypeOK'
  BY <1>4 DEF dialFails, end, Idle, releases, releaseReservedFlowLocked, Decremented, CallerInv
<1>5. ASSUME NEW c \in Callers, dialed(c) PROVE TypeOK'
  <2>1. PICK s \in Slots : /\ socket[s] = Free
                           /\ socket' = [socket EXCEPT ![s] = [key |-> caller[c].key, conn |-> "open", reader |-> "none"]]
                           /\ caller' = [caller EXCEPT ![c].at = "dialed", ![c].flow = s]
    BY <1>5 DEF dialed, Reusable
  <2>2. socket' \in [Slots -> SocketType]
    <3>1. caller[c].key \in Keys
      BY <1>5 DEF dialed, CallerInv
    <3> QED BY <2>1, <3>1
  <2>4. caller' \in [Callers -> CallerType]
    <3>1. caller' = [caller EXCEPT ![c] = [@ EXCEPT !.at = "dialed", !.flow = s]]
      BY <2>1
    <3>2. [caller[c] EXCEPT !.at = "dialed", !.flow = s] \in CallerType
      BY AtFlow
    <3> QED BY <3>1, <3>2
  <2>3. \A k \in Open : flows[k] # s
    BY <2>1 DEF FlowInv, Free
  <2> QED BY <1>5, <2>1, <2>2, <2>3, <2>4 DEF dialed, pool
<1>6. ASSUME NEW c \in Callers, dialedTooLate(c) \/ useExisting(c) PROVE TypeOK'
  <2> DEFINE s == caller[c].flow
  <2>1. s \in Slots /\ socket[s].reader = "none" /\ socket' = [socket EXCEPT ![s] = Free]
    BY <1>6, Dialed DEF dialedTooLate, useExisting, lostRace
  <2>2. socket' \in [Slots -> SocketType]
    BY <2>1 DEF Free
  <2>3. caller' \in [Callers -> CallerType]
    BY <1>6 DEF dialedTooLate, useExisting, end, Idle, CallerInv
  <2>4. \A k \in Open : flows[k] # s
    BY <2>1 DEF FlowInv
  <2>5. pendingFlows' \in Nat /\ pendingFlowCounts' \in [Sessions -> Nat]
    BY <1>6 DEF dialedTooLate, useExisting, releaseReservedFlowLocked, Decremented
  <2> QED BY <1>6, <2>1, <2>2, <2>3, <2>4, <2>5 DEF dialedTooLate, useExisting
<1>7. ASSUME NEW c \in Callers, publish(c) PROVE TypeOK'
  <2>1. /\ caller[c].key \in Keys /\ caller[c].flow \in Slots
        /\ socket[caller[c].flow].key = caller[c].key
    BY <1>7, Dialed DEF publish
  <2>2. socket' \in [Slots -> SocketType] /\ caller' \in [Callers -> CallerType]
    BY <1>7, <2>1 DEF publish, at
  <2>3. \A r \in Slots : socket'[r].key = socket[r].key
    BY <1>7, <2>1 DEF publish
  <2>4. pendingFlows' \in Nat /\ pendingFlowCounts' \in [Sessions -> Nat] /\ flowCounts' \in [Sessions -> Nat]
    BY <1>7, <2>1 DEF publish, releaseReservedFlowLocked, Decremented
  <2> QED BY <1>7, <2>1, <2>2, <2>3, <2>4 DEF publish
<1>8. ASSUME NEW c \in Callers, write(c) PROVE TypeOK'
  BY <1>8 DEF write, end, Idle, quiet, pool
<1>9. ASSUME NEW s \in Slots, readEnds(s) PROVE TypeOK'
  <2>1. socket' \in [Slots -> SocketType] /\ \A r \in Slots : socket'[r].key = socket[r].key
    BY <1>9 DEF readEnds
  <2> QED BY <1>9, <2>1 DEF readEnds, pool
<1>10. ASSUME NEW s \in Slots, remove(s) PROVE TypeOK'
  <2>1. socket' \in [Slots -> SocketType] /\ \A r \in Slots : socket'[r].key = socket[r].key
    BY <1>10 DEF remove
  <2>2. socket[s].key \in Keys
    BY <1>10 DEF remove, FlowInv
  <2>3. flowCounts' \in [Sessions -> Nat] /\ flows' \in [Keys -> Slots \cup {NoFlow}]
    BY <1>10, <2>2 DEF remove, forget, Decremented
  <2>4. \A k \in Keys : flows'[k] \in {flows[k], NoFlow}
    BY <1>10, <2>2 DEF remove, forget
  <2> QED BY <1>10, <2>1, <2>2, <2>3, <2>4 DEF remove
<1>11. ASSUME NEW s \in Slots, readerCloses(s) PROVE TypeOK'
  BY <1>11 DEF readerCloses, pool, Free, FlowInv
<1>12. ASSUME NEW s \in Slots, closeFlow(s) PROVE TypeOK'
  <2>1. socket' \in [Slots -> SocketType] /\ \A r \in Slots : socket'[r].key = socket[r].key
    BY <1>12 DEF closeFlow
  <2> QED BY <1>12, <2>1 DEF closeFlow, pool
<1>13. CASE Close
  <2>1. closed' \in BOOLEAN
    BY <1>13, Zenon DEF Close
  <2>2. closing' \subseteq Slots
    BY <1>13 DEF Close, collected
  <2> QED BY <1>13, <2>1, <2>2 DEF Close
<1>14. CASE UNCHANGED vars
  BY <1>14 DEF vars, pool
<1> QED BY <1>1, <1>2, <1>3, <1>4, <1>5, <1>6, <1>7, <1>8, <1>9, <1>10, <1>11, <1>12, <1>13, <1>14
        DEF Next, CallerSteps, FlowSteps

-----------------------------------------------------------------------------
\* A call that goes elsewhere leaves the flows of the other calls alone.
LEMMA CallerKept ==
    ASSUME CallerInv, NEW c \in Callers,
           caller'[c].at # "dialed", caller'[c].at # "idle" => caller'[c].key \in Keys,
           \A d \in Callers : d # c => caller'[d] = caller[d],
           closing' = closing,
           \A d \in Callers : d # c /\ caller[d].at = "dialed" => socket'[caller[d].flow] = socket[caller[d].flow]
    PROVE  CallerInv'
<1>1. \A d \in Callers : caller'[d].at # "idle" => caller'[d].key \in Keys
  BY DEF CallerInv
<1>2. \A d \in Callers : caller'[d].at = "dialed" => d # c /\ caller'[d] = caller[d]
  OBVIOUS
<1> QED BY <1>1, <1>2 DEF CallerInv

\* Every action keeps a dialled flow with the one call that has dialled it.
LEMMA CallerStep == Inv /\ [Next]_vars => CallerInv'
<1> SUFFICES ASSUME Inv, [Next]_vars PROVE CallerInv'
    OBVIOUS
<1> USE NoFlowIsNoSlot DEF Inv, TypeOK, CallerInv
<1>1. ASSUME NEW c \in Callers, NEW k \in Keys, refuse(c, k) PROVE CallerInv'
  BY <1>1 DEF refuse, quiet, pool
<1>2. ASSUME NEW c \in Callers, NEW k \in Keys, reuse(c, k) \/ reserve(c, k) PROVE CallerInv'
  <2>1. /\ caller'[c].at \in {"writing", "dialing"} /\ caller'[c].key = k
        /\ \A d \in Callers : d # c => caller'[d] = caller[d]
    BY <1>2 DEF reuse, reserve
  <2>2. UNCHANGED <<closing, socket>>
    BY <1>2 DEF reuse, reserve, quiet
  <2> QED BY <2>1, <2>2, CallerKept
<1>3. ASSUME NEW c \in Callers, dialFails(c) \/ write(c) PROVE CallerInv'
  <2>1. caller'[c].at = "idle" /\ \A d \in Callers : d # c => caller'[d] = caller[d]
    BY <1>3 DEF dialFails, write, end, Idle
  <2>2. UNCHANGED <<closing, socket>>
    BY <1>3 DEF dialFails, write, quiet
  <2> QED BY <2>1, <2>2, CallerKept
<1>4. ASSUME NEW c \in Callers, dialed(c) PROVE CallerInv'
  <2>1. PICK s \in Slots : /\ socket[s] = Free /\ ~Held(s) /\ s \notin closing
                           /\ socket' = [socket EXCEPT ![s] = [key |-> caller[c].key, conn |-> "open", reader |-> "none"]]
                           /\ caller' = [caller EXCEPT ![c].at = "dialed", ![c].flow = s]
    BY <1>4 DEF dialed, Reusable
  <2>2. /\ \A d \in Callers : d # c => caller'[d] = caller[d] /\ caller[d].flow # s
        /\ caller'[c].at = "dialed" /\ caller'[c].key = caller[c].key /\ caller'[c].flow = s
        /\ caller[c].key \in Keys
    BY <1>4, <2>1 DEF dialed, Held
  <2> QED BY <1>4, <2>1, <2>2 DEF dialed
<1>5. ASSUME NEW c \in Callers, dialedTooLate(c) \/ useExisting(c) PROVE CallerInv'
  <2>1. caller[c].at = "dialed" /\ caller[c].flow \in Slots /\ caller[c].key \in Keys
    BY <1>5, Dialed DEF dialedTooLate, useExisting
  <2>2. socket' = [socket EXCEPT ![caller[c].flow] = Free] /\ closing' = closing
    BY <1>5 DEF dialedTooLate, useExisting, lostRace
  <2>3. /\ caller'[c].at # "dialed" /\ (caller'[c].at # "idle" => caller'[c].key \in Keys)
        /\ \A d \in Callers : d # c => caller'[d] = caller[d]
    BY <1>5, <2>1 DEF dialedTooLate, useExisting, end, Idle
  <2>4. \A d \in Callers : d # c /\ caller[d].at = "dialed" => socket'[caller[d].flow] = socket[caller[d].flow]
    BY <2>1, <2>2
  <2> QED BY <2>2, <2>3, <2>4, CallerKept
<1>6. ASSUME NEW c \in Callers, publish(c) PROVE CallerInv'
  <2>1. caller[c].at = "dialed" /\ caller[c].flow \in Slots /\ caller[c].key \in Keys
    BY <1>6, Dialed DEF publish
  <2>2. \A r \in Slots : r # caller[c].flow => socket'[r] = socket[r]
    BY <1>6, <2>1 DEF publish
  <2>3. /\ caller'[c].at = "writing" /\ caller'[c].key \in Keys
        /\ \A d \in Callers : d # c => caller'[d] = caller[d]
    BY <1>6, <2>1 DEF publish, at
  <2>4. \A d \in Callers : d # c /\ caller[d].at = "dialed" => socket'[caller[d].flow] = socket[caller[d].flow]
    BY <2>1, <2>2
  <2> QED BY <1>6, <2>3, <2>4, CallerKept DEF publish
<1>7. ASSUME NEW s \in Slots, readEnds(s) \/ remove(s) \/ readerCloses(s) PROVE CallerInv'
  <2>1. /\ socket[s].reader # "none" /\ UNCHANGED <<caller, closing>>
        /\ \A r \in Slots : r # s => socket'[r] = socket[r]
    BY <1>7 DEF readEnds, remove, readerCloses
  <2>2. \A c \in Callers : caller[c].at = "dialed" => caller[c].flow # s
    BY <2>1, Dialed
  <2> QED BY <2>1, <2>2
<1>8. ASSUME NEW s \in Slots, closeFlow(s) PROVE CallerInv'
  <2>1. /\ s \in closing /\ closing' = closing \ {s} /\ caller' = caller
        /\ \A r \in Slots : r # s => socket'[r] = socket[r]
    BY <1>8 DEF closeFlow
  <2>2. \A c \in Callers : caller[c].at = "dialed" => caller[c].flow # s
    BY <2>1, Dialed
  <2> QED BY <2>1, <2>2
<1>9. CASE Close
  <2>1. \A c \in Callers : caller[c].at = "dialed" => caller[c].flow \notin collected
    BY Dialed DEF collected, FlowInv
  <2> QED BY <1>9, <2>1 DEF Close
<1>10. CASE UNCHANGED vars
  BY <1>10 DEF vars, pool
<1> QED BY <1>1, <1>2, <1>3, <1>4, <1>5, <1>6, <1>7, <1>8, <1>9, <1>10 DEF Next, CallerSteps, FlowSteps

-----------------------------------------------------------------------------
\* Every action keeps readers and map together, and a connection without a reader
\* with the call that has dialled it.
LEMMA FlowStep == Inv /\ [Next]_vars => FlowInv' /\ ReaderReachable'
<1> SUFFICES ASSUME Inv, [Next]_vars PROVE FlowInv' /\ ReaderReachable'
    OBVIOUS
<1> USE NoFlowIsNoSlot DEF FlowInv, ReaderReachable, Open
<1>0. FlowInv /\ ReaderReachable /\ TypeOK
  BY DEF Inv
<1>1. ASSUME NEW c \in Callers, NEW k \in Keys, refuse(c, k) \/ reuse(c, k) \/ reserve(c, k)
      PROVE FlowInv' /\ ReaderReachable'
  <2>1. UNCHANGED <<flows, closed, closing, socket>>
    BY <1>1 DEF refuse, reuse, reserve, quiet, pool
  <2>2. \A d \in Callers : caller[d].at = "dialed" => caller'[d] = caller[d]
    BY <1>0, <1>1 DEF refuse, reuse, reserve, TypeOK
  <2> QED BY <1>0, <2>1, <2>2
<1>2. ASSUME NEW c \in Callers, dialFails(c) \/ write(c) PROVE FlowInv' /\ ReaderReachable'
  <2>1. UNCHANGED <<flows, closed, closing, socket>>
    BY <1>2 DEF dialFails, write, quiet, pool
  <2>2. \A d \in Callers : caller[d].at = "dialed" => caller'[d] = caller[d]
    BY <1>0, <1>2 DEF dialFails, write, end, TypeOK
  <2> QED BY <1>0, <2>1, <2>2
<1>3. ASSUME NEW c \in Callers, dialed(c) PROVE FlowInv' /\ ReaderReachable'
  <2>1. PICK s \in Slots : /\ socket[s] = Free
                           /\ socket' = [socket EXCEPT ![s] = [key |-> caller[c].key, conn |-> "open", reader |-> "none"]]
                           /\ caller' = [caller EXCEPT ![c].at = "dialed", ![c].flow = s]
    BY <1>3 DEF dialed, Reusable
  <2>2. /\ caller'[c].at = "dialed" /\ caller'[c].flow = s
        /\ \A d \in Callers : caller[d].at = "dialed" => caller'[d] = caller[d]
    BY <1>0, <1>3, <2>1 DEF dialed, TypeOK
  <2>3. /\ socket'[s].reader = "none" /\ socket[s].reader = "none"
        /\ \A r \in Slots : r # s => socket'[r] = socket[r]
    BY <1>0, <2>1 DEF TypeOK, Free
  <2>4. UNCHANGED <<flows, closed, closing>>
    BY <1>3 DEF dialed, pool
  <2>5. \A k \in Keys : flows[k] # NoFlow => flows[k] \in Slots /\ flows[k] # s
    BY <1>0, <2>3 DEF TypeOK
  <2> QED BY <1>0, <2>2, <2>3, <2>4, <2>5
<1>4. ASSUME NEW c \in Callers, dialedTooLate(c) \/ useExisting(c) PROVE FlowInv' /\ ReaderReachable'
  <2> DEFINE s == caller[c].flow
  <2>1. s \in Slots /\ socket[s].reader = "none" /\ socket' = [socket EXCEPT ![s] = Free]
    BY <1>4, Dialed DEF dialedTooLate, useExisting, lostRace
  <2>2. \A d \in Callers : d # c => caller'[d] = caller[d]
    BY <1>0, <1>4 DEF dialedTooLate, useExisting, end, TypeOK
  <2>3. /\ socket'[s].reader = "none" /\ socket'[s].conn = "none"
        /\ \A r \in Slots : r # s => socket'[r] = socket[r]
    BY <1>0, <2>1 DEF TypeOK, Free
  <2>4. UNCHANGED <<flows, closed, closing>>
    BY <1>4 DEF dialedTooLate, useExisting
  <2>5. \A k \in Keys : flows[k] # NoFlow => flows[k] \in Slots /\ flows[k] # s
    BY <1>0, <2>1 DEF TypeOK
  <2> HIDE DEF s
  <2>6. \A r \in Slots : socket'[r].conn = "open" /\ socket'[r].reader = "none" =>
          \E d \in Callers : caller'[d].at = "dialed" /\ caller'[d].flow = r
    <3> SUFFICES ASSUME NEW r \in Slots, socket'[r].conn = "open", socket'[r].reader = "none"
                 PROVE  \E d \in Callers : caller'[d].at = "dialed" /\ caller'[d].flow = r
        OBVIOUS
    <3>1. r # s
      BY <2>3
    <3>2. PICK d \in Callers : caller[d].at = "dialed" /\ caller[d].flow = r
      BY <1>0, <2>3, <3>1
    <3>3. d # c
      BY <3>1, <3>2 DEF s
    <3> QED BY <2>2, <3>2, <3>3
  <2> QED BY <1>0, <2>1, <2>3, <2>4, <2>5, <2>6
<1>5. ASSUME NEW c \in Callers, publish(c) PROVE FlowInv' /\ ReaderReachable'
  <2> DEFINE s == caller[c].flow
             k == caller[c].key
  <2>1. /\ s \in Slots /\ k \in Keys /\ socket[s].key = k /\ socket[s].reader = "none" /\ flows[k] = NoFlow
        /\ caller[c].at = "dialed" /\ ~closed
    BY <1>5, Dialed DEF publish, absent
  <2>2. /\ \A d \in Callers : d # c => caller'[d] = caller[d]
        /\ UNCHANGED <<closed, closing>>
    BY <1>0, <1>5 DEF publish, at, TypeOK
  <2>3. /\ socket'[s].reader = "reading" /\ socket'[s].key = k
        /\ \A r \in Slots : r # s => socket'[r] = socket[r]
    BY <1>0, <1>5, <2>1 DEF publish, TypeOK
  <2>4. /\ flows'[k] = s
        /\ \A j \in Keys : j # k => flows'[j] = flows[j]
    BY <1>0, <1>5, <2>1 DEF publish, TypeOK
  <2>5. \A j \in Keys : flows[j] # NoFlow => flows[j] \in Slots /\ flows[j] # s
    BY <1>0, <2>1 DEF TypeOK
  <2>7. \A d \in Callers : caller[d].at = "dialed" /\ caller[d].flow # s => d # c
    OBVIOUS
  <2> HIDE DEF s, k
  <2>6. \A r \in Slots : socket'[r].conn = "open" /\ socket'[r].reader = "none" =>
          \E d \in Callers : caller'[d].at = "dialed" /\ caller'[d].flow = r
    <3> SUFFICES ASSUME NEW r \in Slots, socket'[r].conn = "open", socket'[r].reader = "none"
                 PROVE  \E d \in Callers : caller'[d].at = "dialed" /\ caller'[d].flow = r
        OBVIOUS
    <3>1. PICK d \in Callers : caller[d].at = "dialed" /\ caller[d].flow = r
      BY <1>0, <2>3
    <3> QED BY <2>2, <2>3, <2>7, <3>1
  <2>8. \A r \in Slots : socket'[r].reader \in {"reading", "removing"} => flows'[socket'[r].key] = r
    <3> SUFFICES ASSUME NEW r \in Slots, socket'[r].reader \in {"reading", "removing"}, r # s
                 PROVE  flows'[socket'[r].key] = r
        BY <2>3, <2>4
    <3>1. flows[socket[r].key] = r /\ socket[r].key \in Keys /\ socket'[r] = socket[r]
      BY <1>0, <2>1, <2>3
    <3> QED BY <2>1, <2>4, <3>1
  <2>9. \A j \in Keys : flows'[j] # NoFlow => socket'[flows'[j]].reader \in {"reading", "removing"}
    BY <1>0, <2>3, <2>4, <2>5
  <2> QED BY <1>0, <2>1, <2>2, <2>3, <2>6, <2>8, <2>9
<1>6. ASSUME NEW s \in Slots, readEnds(s) PROVE FlowInv' /\ ReaderReachable'
  <2>1. /\ socket[s].reader = "reading" /\ socket'[s].reader = "removing"
        /\ socket'[s].key = socket[s].key
        /\ \A r \in Slots : r # s => socket'[r] = socket[r]
        /\ UNCHANGED <<flows, closed, closing, caller>>
    BY <1>0, <1>6 DEF readEnds, pool, TypeOK
  <2>2. \A j \in Keys : flows[j] # NoFlow => flows[j] \in Slots
    BY <1>0 DEF TypeOK
  <2> QED BY <1>0, <2>1, <2>2
<1>7. ASSUME NEW s \in Slots, remove(s) PROVE FlowInv' /\ ReaderReachable'
  <2> DEFINE k == socket[s].key
  <2>1. /\ socket[s].reader = "removing" /\ socket'[s].reader = "removed"
        /\ socket'[s].key = k
        /\ \A r \in Slots : r # s => socket'[r] = socket[r]
        /\ UNCHANGED <<closed, closing, caller>>
    BY <1>0, <1>7 DEF remove, TypeOK
  <2>2. /\ k \in Keys
        /\ \A j \in Keys : flows'[j] \in {flows[j], NoFlow} /\ (flows[j] # s => flows'[j] = flows[j])
        /\ \A j \in Keys : flows[j] = s => flows'[j] = NoFlow
    <3>1. k \in Keys
      BY <1>0, <2>1
    <3>2. \A j \in Keys : flows[j] = s => j = k
      BY <1>0 DEF TypeOK
    <3> QED BY <1>0, <1>7, <3>1, <3>2 DEF remove, forget, mine, TypeOK
  <2> HIDE DEF k
  <2>3. \A r \in Slots : r # s /\ socket[r].reader \in {"reading", "removing"} /\ flows[socket[r].key] = r =>
            flows'[socket'[r].key] = r
    BY <1>0, <2>1, <2>2
  <2>4. \A j \in Keys : flows'[j] # NoFlow => flows'[j] = flows[j] /\ flows[j] # s /\ flows[j] \in Slots
    BY <1>0, <2>2 DEF TypeOK
  <2>5. FlowInv'
    BY <1>0, <2>1, <2>2, <2>3, <2>4
  <2>6. ReaderReachable'
    BY <1>0, <2>1, <2>3
  <2> QED BY <2>5, <2>6
<1>8. ASSUME NEW s \in Slots, readerCloses(s) PROVE FlowInv' /\ ReaderReachable'
  <2>1. /\ socket[s].reader = "removed" /\ socket'[s].reader = "none" /\ socket'[s].conn = "none"
        /\ \A r \in Slots : r # s => socket'[r] = socket[r]
        /\ UNCHANGED <<flows, closed, closing, caller>>
    BY <1>0, <1>8 DEF readerCloses, Free, pool, TypeOK
  <2>2. \A j \in Keys : flows[j] # NoFlow => flows[j] # s /\ flows[j] \in Slots
    BY <1>0, <2>1 DEF TypeOK
  <2> QED BY <1>0, <2>1, <2>2
<1>9. ASSUME NEW s \in Slots, closeFlow(s) PROVE FlowInv' /\ ReaderReachable'
  <2>1. /\ closed /\ s \in closing /\ closing' = closing \ {s}
        /\ UNCHANGED <<flows, closed, caller>>
        /\ \A r \in Slots : r # s => socket'[r] = socket[r]
    BY <1>0, <1>9 DEF closeFlow, pool
  <2>2. /\ socket'[s].reader = socket[s].reader /\ socket'[s].key = socket[s].key
        /\ socket'[s].reader = "reading" => socket'[s].conn = "closed"
        /\ socket'[s].conn # "open"
    BY <1>0, <1>9 DEF closeFlow, Free, TypeOK
  <2> QED BY <1>0, <2>1, <2>2 DEF TypeOK
<1>10. CASE ~closed /\ Close
  <2>1. closed' = TRUE /\ (\A k \in Keys : flows'[k] = NoFlow) /\ UNCHANGED <<socket, caller>>
    BY <1>10 DEF Close
  <2>2. \A s \in Slots : socket[s].reader = "reading" => s \in closing'
    <3> SUFFICES ASSUME NEW s \in Slots, socket[s].reader = "reading" PROVE s \in collected
        BY <1>10 DEF Close
    <3>1. flows[socket[s].key] = s /\ socket[s].key \in Keys
      BY <1>0, <1>10
    <3> QED BY <3>1 DEF collected
  <2> QED BY <1>0, <2>1, <2>2
<1>11. CASE UNCHANGED vars
  BY <1>0, <1>11 DEF vars, pool
<1> QED BY <1>1, <1>2, <1>3, <1>4, <1>5, <1>6, <1>7, <1>8, <1>9, <1>10, <1>11 DEF Next, CallerSteps, FlowSteps

-----------------------------------------------------------------------------
\* One element more or less in a finite set.
LEMMA OneMore ==
    ASSUME NEW S, NEW x, IsFiniteSet(S), x \notin S
    PROVE  Cardinality(S) \in Nat /\ Cardinality(S \cup {x}) = Cardinality(S) + 1
BY FS_AddElement, FS_CardinalityType

LEMMA OneLess ==
    ASSUME NEW S, NEW x, IsFiniteSet(S), x \in S
    PROVE  /\ Cardinality(S) \in Nat /\ Cardinality(S) >= 1
           /\ Cardinality(S \ {x}) = Cardinality(S) - 1
<1>1. Cardinality(S) \in Nat /\ Cardinality(S) # 0
  BY FS_CardinalityType, FS_EmptySet
<1> QED BY <1>1, FS_RemoveElement

\* A release takes exactly the call's own place out of the counters: they are not
\* zero, and the guard against an underflow is not what keeps them right.
LEMMA Released ==
    ASSUME Inv, ~closed, NEW c \in Callers, caller[c].at \in Dialing, caller'[c].at \notin Dialing,
           \A d \in Callers : d # c => caller'[d] = caller[d],
           releaseReservedFlowLocked(SessionOf[caller[c].key])
    PROVE  /\ pendingFlows >= 1 /\ pendingFlows' = pendingFlows - 1
           /\ pendingFlows' = Cardinality(Pending')
           /\ pendingFlowCounts[SessionOf[caller[c].key]] >= 1
           /\ \A s \in Sessions :
                 /\ pendingFlowCounts'[s] = Cardinality(Waiting(s)')
                 /\ pendingFlowCounts'[s] = IF s = SessionOf[caller[c].key] THEN pendingFlowCounts[s] - 1
                                            ELSE pendingFlowCounts[s]
<1>0. SessionOf[caller[c].key] \in Sessions
  BY SessionType DEF Inv, CallerInv, Dialing
<1>1. PICK t \in Sessions : t = SessionOf[caller[c].key]
  BY <1>0
<1>2. PendingCounted /\ TypeOK
  BY DEF Inv
<1>3. c \in Pending /\ Pending' = Pending \ {c}
  BY DEF Pending
<1>4. pendingFlows >= 1 /\ pendingFlows' = pendingFlows - 1 /\ pendingFlows' = Cardinality(Pending')
  <2>1. Cardinality(Pending) \in Nat /\ Cardinality(Pending) >= 1 /\ Cardinality(Pending') = Cardinality(Pending) - 1
    BY <1>3, Finite, OneLess
  <2> QED BY <1>2, <2>1 DEF PendingCounted, releaseReservedFlowLocked
<1>5. c \in Waiting(t) /\ Waiting(t)' = Waiting(t) \ {c}
  BY <1>1 DEF Waiting, Dialing
<1>6. Cardinality(Waiting(t)) \in Nat /\ Cardinality(Waiting(t)) >= 1
      /\ Cardinality(Waiting(t)') = Cardinality(Waiting(t)) - 1
  <2>1. IsFiniteSet(Waiting(t))
    BY Finite
  <2> QED BY <1>5, <2>1, OneLess
<1>7. ASSUME NEW s \in Sessions, s # t PROVE Cardinality(Waiting(s)') = Cardinality(Waiting(s))
  <2>1. \A d \in Callers : d \in Waiting(s)' <=> d \in Waiting(s)
    BY <1>1, <1>7 DEF Waiting, Dialing
  <2>2. Waiting(s)' = Waiting(s)
    BY <2>1 DEF Waiting
  <2> QED BY <2>2
<1>8. pendingFlowCounts' = Decremented(pendingFlowCounts, t)
  BY <1>1 DEF releaseReservedFlowLocked
<1>9. pendingFlowCounts[t] = Cardinality(Waiting(t)) /\ \A s \in Sessions : pendingFlowCounts[s] = Cardinality(Waiting(s))
  BY <1>1, <1>2 DEF PendingCounted
<1>10. \A s \in Sessions : pendingFlowCounts'[s] = IF s = t THEN pendingFlowCounts[s] - 1 ELSE pendingFlowCounts[s]
  BY <1>1, <1>2, <1>6, <1>8, <1>9 DEF Decremented, TypeOK
<1>11. \A s \in Sessions : pendingFlowCounts'[s] = Cardinality(Waiting(s)')
  <2> TAKE s \in Sessions
  <2>1. CASE s = t
    BY <1>6, <1>9, <1>10, <2>1
  <2>2. CASE s # t
    BY <1>7, <1>9, <1>10, <2>2
  <2> QED BY <2>1, <2>2
<1> QED BY <1>1, <1>4, <1>6, <1>9, <1>10, <1>11

\* The counters are about these sets and nothing else.
LEMMA CountsKept ==
    ASSUME Inv, UNCHANGED <<flows, flowCounts, pendingFlows, pendingFlowCounts, closed>>,
           \A c \in Callers : /\ caller'[c].at \in Dialing <=> caller[c].at \in Dialing
                              /\ caller[c].at \in Dialing => caller'[c].key = caller[c].key
    PROVE  FlowsCounted' /\ PendingCounted' /\ Limits'
<1>1. Open' = Open /\ Pending' = Pending /\ \A s : OpenOf(s)' = OpenOf(s)
  BY DEF Open, Pending, OpenOf
<1>2. \A s : Waiting(s)' = Waiting(s)
  BY DEF Waiting, Dialing
<1> QED BY <1>1, <1>2 DEF Inv, FlowsCounted, PendingCounted, Limits

\* A flow that enters the map adds one to the map and to its session's count.
LEMMA FlowAdded ==
    ASSUME Inv, NEW k \in Keys, flows[k] = NoFlow, NEW f \in Slots, flows' = [flows EXCEPT ![k] = f],
           flowCounts' = [flowCounts EXCEPT ![SessionOf[k]] = @ + 1]
    PROVE  FlowsCounted' /\ Cardinality(Open') = Cardinality(Open) + 1
<1>1. TypeOK /\ FlowsCounted
  BY DEF Inv
<1>2. Open' = Open \cup {k} /\ k \notin Open
  BY <1>1, NoFlowIsNoSlot DEF TypeOK, Open
<1>3. ASSUME NEW s \in Sessions PROVE flowCounts'[s] = Cardinality(OpenOf(s)')
  <2>1. flowCounts[s] = Cardinality(OpenOf(s)) /\ IsFiniteSet(OpenOf(s)) /\ flowCounts[s] \in Nat
    BY <1>1, Finite DEF FlowsCounted, TypeOK
  <2>2. CASE s = SessionOf[k]
    <3>1. OpenOf(s)' = OpenOf(s) \cup {k} /\ k \notin OpenOf(s)
      BY <1>2, <2>2 DEF OpenOf
    <3> QED BY <1>1, <2>1, <2>2, <3>1, OneMore DEF TypeOK
  <2>3. CASE s # SessionOf[k]
    <3>1. OpenOf(s)' = OpenOf(s)
      BY <1>2, <2>3 DEF OpenOf
    <3> QED BY <1>1, <2>1, <2>3, <3>1 DEF TypeOK
  <2> QED BY <2>2, <2>3
<1> QED BY <1>2, <1>3, Finite, OneMore DEF FlowsCounted

\* A flow that leaves the map takes one from both.
LEMMA FlowDropped ==
    ASSUME Inv, NEW k \in Keys, flows[k] # NoFlow, flows' = [flows EXCEPT ![k] = NoFlow],
           flowCounts' = Decremented(flowCounts, SessionOf[k])
    PROVE  /\ FlowsCounted' /\ Cardinality(Open') = Cardinality(Open) - 1
           /\ \A s \in Sessions : flowCounts'[s] <= flowCounts[s]
<1>1. TypeOK /\ FlowsCounted
  BY DEF Inv
<1>2. Open' = Open \ {k} /\ k \in Open
  BY <1>1 DEF TypeOK, Open
<1>3. ASSUME NEW s \in Sessions PROVE flowCounts'[s] = Cardinality(OpenOf(s)') /\ flowCounts'[s] <= flowCounts[s]
  <2>1. flowCounts[s] = Cardinality(OpenOf(s)) /\ IsFiniteSet(OpenOf(s)) /\ flowCounts[s] \in Nat
    BY <1>1, Finite DEF FlowsCounted, TypeOK
  <2>2. CASE s = SessionOf[k]
    <3>1. OpenOf(s)' = OpenOf(s) \ {k} /\ k \in OpenOf(s)
      BY <1>2, <2>2 DEF OpenOf
    <3>2. Cardinality(OpenOf(s)') = Cardinality(OpenOf(s)) - 1 /\ Cardinality(OpenOf(s)) >= 1
      BY <2>1, <3>1, OneLess
    <3> QED BY <1>1, <2>1, <2>2, <3>2 DEF TypeOK, Decremented
  <2>3. CASE s # SessionOf[k]
    <3>1. OpenOf(s)' = OpenOf(s)
      BY <1>2, <2>3 DEF OpenOf
    <3> QED BY <1>1, <2>1, <2>3, <3>1 DEF TypeOK, Decremented
  <2> QED BY <2>2, <2>3
<1> QED BY <1>2, <1>3, Finite, OneLess DEF FlowsCounted

\* Every action keeps the counters exact and within the limits.
LEMMA CountStep == Inv /\ [Next]_vars => FlowsCounted' /\ PendingCounted' /\ Limits'
<1> SUFFICES ASSUME Inv, [Next]_vars PROVE FlowsCounted' /\ PendingCounted' /\ Limits'
    OBVIOUS
<1> USE DEF Dialing
<1>0. /\ TypeOK /\ FlowsCounted /\ PendingCounted /\ Limits
      /\ Cardinality(Open) \in Nat /\ PoolAssumption
  BY PoolAssumption, Finite, FS_CardinalityType DEF Inv
<1>1. ASSUME NEW c \in Callers, NEW k \in Keys, refuse(c, k) \/ reuse(c, k) PROVE FlowsCounted' /\ PendingCounted' /\ Limits'
  BY <1>0, <1>1, CountsKept DEF refuse, reuse, quiet, pool, TypeOK
<1>2. ASSUME NEW c \in Callers, NEW k \in Keys, reserve(c, k) PROVE FlowsCounted' /\ PendingCounted' /\ Limits'
  <2>1. /\ caller'[c].at = "dialing" /\ caller'[c].key = k /\ caller[c].at = "idle"
        /\ \A d \in Callers : d # c => caller'[d] = caller[d]
        /\ UNCHANGED <<flows, flowCounts, closed>> /\ ~closed
    BY <1>0, <1>2 DEF reserve, TypeOK
  <2>2. Open' = Open /\ FlowsCounted'
    BY <1>0, <2>1 DEF Open, FlowsCounted, OpenOf
  <2>3. Pending' = Pending \cup {c} /\ c \notin Pending
    BY <2>1 DEF Pending
  <2>4. pendingFlows' = pendingFlows + 1 /\ pendingFlows' = Cardinality(Pending')
    BY <1>0, <1>2, <2>1, <2>3, Finite, OneMore DEF PendingCounted, reserve
  <2>5. ASSUME NEW s \in Sessions
        PROVE  /\ pendingFlowCounts'[s] = Cardinality(Waiting(s)')
               /\ flowCounts'[s] + pendingFlowCounts'[s] <= MaxFlowsPerSession
    <3>1. /\ pendingFlowCounts[s] = Cardinality(Waiting(s)) /\ IsFiniteSet(Waiting(s))
          /\ pendingFlowCounts[s] \in Nat /\ flowCounts[s] \in Nat /\ flowCounts'[s] = flowCounts[s]
          /\ flowCounts[s] + pendingFlowCounts[s] <= MaxFlowsPerSession
      BY <1>0, <2>1, Finite DEF PendingCounted, TypeOK, Limits
    <3>2. CASE s = SessionOf[k]
      <4>1. Waiting(s)' = Waiting(s) \cup {c} /\ c \notin Waiting(s)
        BY <2>1, <3>2 DEF Waiting
      <4>2. pendingFlowCounts'[s] = pendingFlowCounts[s] + 1
        BY <1>0, <1>2, <3>2 DEF reserve, TypeOK
      <4>3. flowCounts[s] + pendingFlowCounts[s] < MaxFlowsPerSession
        BY <1>2, <3>2 DEF reserve, flowLimitAllowsWithPendingLocked
      <4> QED BY <1>0, <3>1, <4>1, <4>2, <4>3, OneMore DEF PoolAssumption
    <3>3. CASE s # SessionOf[k]
      <4>1. \A d \in Callers : d \in Waiting(s)' <=> d \in Waiting(s)
        BY <2>1, <3>3 DEF Waiting
      <4>2. Waiting(s)' = Waiting(s)
        BY <4>1 DEF Waiting
      <4> QED BY <1>0, <1>2, <3>1, <3>3, <4>2 DEF reserve, TypeOK
    <3> QED BY <3>2, <3>3
  <2>6. Cardinality(Open) + pendingFlows < MaxFlows
    BY <1>2 DEF reserve, flowLimitAllowsWithPendingLocked
  <2>7. Cardinality(Open') + pendingFlows' <= MaxFlows
    BY <1>0, <2>2, <2>4, <2>6 DEF TypeOK, PoolAssumption
  <2> QED BY <2>2, <2>4, <2>5, <2>7 DEF PendingCounted, Limits
<1>3. ASSUME NEW c \in Callers, dialFails(c) \/ dialedTooLate(c) \/ useExisting(c)
      PROVE FlowsCounted' /\ PendingCounted' /\ Limits'
  <2>1. /\ caller'[c].at \in {"idle", "writing"} /\ caller[c].at \in Dialing
        /\ \A d \in Callers : d # c => caller'[d] = caller[d]
        /\ UNCHANGED <<flows, flowCounts, closed>>
        /\ releaseReservedFlowLocked(SessionOf[caller[c].key])
    BY <1>0, <1>3 DEF dialFails, dialedTooLate, useExisting, end, Idle, releases, TypeOK
  <2>2. Open' = Open /\ FlowsCounted'
    BY <1>0, <2>1 DEF Open, FlowsCounted, OpenOf
  <2>3. CASE closed
    BY <2>1, <2>2, <2>3 DEF PendingCounted, Limits
  <2>4. CASE ~closed
    <3>1. caller'[c].at \notin Dialing
      BY <2>1
    <3>2. /\ pendingFlows' = pendingFlows - 1 /\ pendingFlows' = Cardinality(Pending')
          /\ \A s \in Sessions : /\ pendingFlowCounts'[s] = Cardinality(Waiting(s)')
                                 /\ pendingFlowCounts'[s] \in {pendingFlowCounts[s] - 1, pendingFlowCounts[s]}
      BY <2>1, <2>4, <3>1, Released
    <3> QED BY <1>0, <2>1, <2>2, <2>4, <3>2 DEF PendingCounted, Limits, TypeOK, PoolAssumption
  <2> QED BY <2>3, <2>4
<1>4. ASSUME NEW c \in Callers, dialed(c) PROVE FlowsCounted' /\ PendingCounted' /\ Limits'
  <2>1. /\ caller[c].at = "dialing" /\ caller'[c].at = "dialed" /\ caller'[c].key = caller[c].key
        /\ \A d \in Callers : d # c => caller'[d] = caller[d]
    BY <1>0, <1>4 DEF dialed, TypeOK
  <2> QED BY <1>4, <2>1, CountsKept DEF dialed, pool
<1>5. ASSUME NEW c \in Callers, publish(c) PROVE FlowsCounted' /\ PendingCounted' /\ Limits'
  <2>1. PICK k \in Keys : k = caller[c].key
    BY <1>5, Dialed DEF publish
  <2>2. /\ caller'[c].at = "writing" /\ caller[c].at \in Dialing
        /\ \A d \in Callers : d # c => caller'[d] = caller[d]
        /\ closed' = closed /\ ~closed
        /\ releaseReservedFlowLocked(SessionOf[caller[c].key])
    BY <1>0, <1>5 DEF publish, at, TypeOK
  <2>3. /\ FlowsCounted' /\ Cardinality(Open') = Cardinality(Open) + 1
        /\ flowCounts' = [flowCounts EXCEPT ![SessionOf[k]] = @ + 1]
    BY <1>5, <2>1, FlowAdded, Dialed DEF publish, absent
  <2>4. caller'[c].at \notin Dialing
    BY <2>2
  <2>5. /\ pendingFlows' = pendingFlows - 1 /\ pendingFlows' = Cardinality(Pending')
        /\ \A s \in Sessions : /\ pendingFlowCounts'[s] = Cardinality(Waiting(s)')
                               /\ pendingFlowCounts'[s] = IF s = SessionOf[k] THEN pendingFlowCounts[s] - 1
                                                          ELSE pendingFlowCounts[s]
    BY <2>1, <2>2, <2>4, Released
  <2>6. Cardinality(Open') + pendingFlows' <= MaxFlows
    BY <1>0, <2>2, <2>3, <2>5 DEF Limits, TypeOK, PoolAssumption
  <2>7. \A s \in Sessions : flowCounts'[s] + pendingFlowCounts'[s] = flowCounts[s] + pendingFlowCounts[s]
    BY <1>0, <2>3, <2>5 DEF TypeOK
  <2> QED BY <1>0, <2>2, <2>3, <2>5, <2>6, <2>7 DEF PendingCounted, Limits
<1>6. ASSUME NEW c \in Callers, write(c) PROVE FlowsCounted' /\ PendingCounted' /\ Limits'
  <2>1. /\ caller[c].at = "writing" /\ caller'[c].at = "idle"
        /\ \A d \in Callers : d # c => caller'[d] = caller[d]
    BY <1>0, <1>6 DEF write, end, Idle, TypeOK
  <2> QED BY <1>6, <2>1, CountsKept DEF write, quiet, pool
<1>7. ASSUME NEW s \in Slots, readEnds(s) \/ readerCloses(s) \/ closeFlow(s)
      PROVE FlowsCounted' /\ PendingCounted' /\ Limits'
  BY <1>7, CountsKept DEF readEnds, readerCloses, closeFlow, pool
<1>8. ASSUME NEW s \in Slots, remove(s) PROVE FlowsCounted' /\ PendingCounted' /\ Limits'
  <2>1. PICK k \in Keys : k = socket[s].key
    BY <1>8 DEF Inv, FlowInv, remove
  <2>2. CASE ~mine(s)
    BY <1>8, <2>2, CountsKept DEF remove, forget
  <2>3. CASE mine(s)
    <3>1. flows[k] # NoFlow
      BY <2>1, <2>3, NoFlowIsNoSlot DEF mine
    <3>2. /\ FlowsCounted' /\ Cardinality(Open') = Cardinality(Open) - 1
          /\ \A t \in Sessions : flowCounts'[t] <= flowCounts[t]
      BY <1>8, <2>1, <2>3, <3>1, FlowDropped DEF remove, forget
    <3>3. UNCHANGED <<pendingFlows, pendingFlowCounts, closed, caller>>
      BY <1>8 DEF remove
    <3>4. PendingCounted'
      BY <1>0, <3>3 DEF PendingCounted, Pending, Waiting
    <3>5. flowCounts' \in [Sessions -> Nat]
      BY TypeStep DEF TypeOK
    <3> QED BY <1>0, <3>2, <3>3, <3>4, <3>5 DEF Limits, TypeOK, PoolAssumption
  <2> QED BY <2>2, <2>3
<1>9. CASE Close
  <2>1. Open' = {} /\ \A s : OpenOf(s)' = {}
    BY <1>9 DEF Close, Open, OpenOf
  <2>2. FlowsCounted'
    BY <1>9, <2>1, FS_EmptySet DEF Close, FlowsCounted
  <2> QED BY <1>9, <2>2 DEF Close, PendingCounted, Limits
<1>10. CASE UNCHANGED vars
  BY <1>10, CountsKept DEF vars, pool
<1> QED BY <1>1, <1>2, <1>3, <1>4, <1>5, <1>6, <1>7, <1>8, <1>9, <1>10 DEF Next, CallerSteps, FlowSteps

-----------------------------------------------------------------------------
\* The invariant holds of the empty pool.
LEMMA InvInit == Init => Inv
<1> SUFFICES ASSUME Init PROVE Inv
    OBVIOUS
<1> USE PoolAssumption DEF Init
<1>1. Open = {} /\ Pending = {} /\ \A s : OpenOf(s) = {} /\ Waiting(s) = {}
  BY DEF Open, Pending, OpenOf, Waiting, Dialing, Idle
<1>2. TypeOK
  <2>1. closed \in BOOLEAN
    BY Zenon
  <2> QED BY <1>1, <2>1 DEF TypeOK, Free, Idle
<1>3. CallerInv
  BY DEF CallerInv, Idle
<1>4. FlowInv /\ ReaderReachable
  BY <1>1 DEF FlowInv, ReaderReachable, Free
<1>5. FlowsCounted /\ PendingCounted /\ Limits
  BY <1>1, FS_EmptySet DEF FlowsCounted, PendingCounted, Limits
<1> QED BY <1>2, <1>3, <1>4, <1>5 DEF Inv

(***************************************************************************)
(* The inductive invariant: whatever dials, removals and Close race, every *)
(* flow object has one owner and the counters count what they should.      *)
(***************************************************************************)
THEOREM InvHolds == Spec => []Inv
<1>1. Inv /\ [Next]_vars => Inv'
  BY TypeStep, CallerStep, FlowStep, CountStep DEF Inv
<1> QED BY <1>1, InvInit, PTL DEF Spec

(***************************************************************************)
(* No reader is lost, for any number of callers and keys: a flow that is   *)
(* read is the flow of the map, or Close has collected or closed it.       *)
(***************************************************************************)
THEOREM NoReaderIsLost == Spec => []ReaderReachable
<1>1. Inv => ReaderReachable
  BY DEF Inv
<1> QED BY <1>1, InvHolds, PTL

\* The connections that count are those of the map and those of the calls that
\* have dialled, so that there are no more than places given out.
LEMMA OpenSocketsBounded ==
    ASSUME Inv
    PROVE  SocketBound
<1>1. CASE closed
  <2>1. {s \in Slots : socket[s].conn = "open" /\ socket[s].reader # "removed" /\ ~closed} = {}
    BY <1>1
  <2> QED BY <2>1, FS_EmptySet, PoolAssumption DEF SocketBound
<1>2. CASE ~closed
  <2> DEFINE U == {s \in Slots : socket[s].conn = "open" /\ socket[s].reader # "removed" /\ ~closed}
             F == {flows[k] : k \in Open}
             D == {caller[c].flow : c \in Pending}
             ff == [k \in Open |-> flows[k]]
             fd == [c \in Pending |-> caller[c].flow]
  <2>1. IsFiniteSet(F) /\ Cardinality(F) <= Cardinality(Open)
    <3>1. ff \in Surjection(Open, F)
      BY DEF Surjection
    <3> HIDE DEF ff, F
    <3> QED BY <3>1, Finite, FS_Surjection
  <2>2. IsFiniteSet(D) /\ Cardinality(D) <= Cardinality(Pending)
    <3>1. fd \in Surjection(Pending, D)
      BY DEF Surjection
    <3> HIDE DEF fd, D
    <3> QED BY <3>1, Finite, FS_Surjection
  <2>3. U \subseteq F \cup D
    <3> SUFFICES ASSUME NEW s \in U PROVE s \in F \cup D
        OBVIOUS
    <3>1. CASE socket[s].reader = "none"
      <4>1. PICK c \in Callers : caller[c].at = "dialed" /\ caller[c].flow = s
        BY <3>1 DEF Inv, FlowInv
      <4> QED BY <4>1 DEF Pending, Dialing
    <3>2. CASE socket[s].reader \in {"reading", "removing"}
      <4>1. flows[socket[s].key] = s /\ socket[s].key \in Keys
        BY <1>2, <3>2 DEF Inv, FlowInv
      <4> QED BY <4>1, NoFlowIsNoSlot DEF Open
    <3>3. socket[s].reader \in {"none", "reading", "removing"}
      BY DEF Inv, TypeOK
    <3> QED BY <3>1, <3>2, <3>3
  <2>4. /\ Cardinality(F) \in Nat /\ Cardinality(D) \in Nat /\ Cardinality(F \cap D) \in Nat
        /\ Cardinality(Open) \in Nat /\ Cardinality(Pending) \in Nat
    BY <2>1, <2>2, Finite, FS_CardinalityType, FS_Intersection
  <2>5. IsFiniteSet(F \cup D) /\ Cardinality(F \cup D) = Cardinality(F) + Cardinality(D) - Cardinality(F \cap D)
    BY <2>1, <2>2, FS_Union
  <2>6. Cardinality(U) <= Cardinality(F \cup D) /\ Cardinality(U) \in Nat
    BY <2>3, <2>5, FS_Subset, FS_CardinalityType
  <2>7. Cardinality(Open) + Cardinality(Pending) <= MaxFlows
    BY <1>2 DEF Inv, Limits, PendingCounted
  <2> HIDE DEF U, F, D
  <2>8. Cardinality(U) <= MaxFlows
    BY <2>1, <2>2, <2>4, <2>5, <2>6, <2>7, PoolAssumption
  <2> QED BY <2>8 DEF SocketBound, U
<1> QED BY <1>1, <1>2

(***************************************************************************)
(* The limits of the pool hold for any number of racing dials: the         *)
(* counters are exact, no more than MaxFlows connections count, and a dial *)
(* that was admitted is never refused for the limit afterwards.            *)
(***************************************************************************)
THEOREM PoolIsSound == Spec => []PoolSound
<1>1. Inv => PoolSound
  <2> SUFFICES ASSUME Inv PROVE PoolSound
    OBVIOUS
  <2>1. CountersExact
    <3>1. UNION {Waiting(s) : s \in Sessions} = Pending
      <4>1. ASSUME NEW c \in Pending PROVE c \in UNION {Waiting(s) : s \in Sessions}
        <5>1. SessionOf[caller[c].key] \in Sessions
          BY SessionType DEF Inv, CallerInv, Pending, Dialing
        <5>2. c \in Waiting(SessionOf[caller[c].key])
          BY DEF Waiting, Pending, Dialing
        <5> QED BY <5>1, <5>2
      <4>2. ASSUME NEW s \in Sessions PROVE Waiting(s) \subseteq Pending
        BY DEF Waiting, Pending, Dialing
      <4> QED BY <4>1, <4>2
    <3> QED BY <3>1 DEF Inv, FlowsCounted, PendingCounted, CountersExact, OpenOf
  <2>2. AdmittedIsKept
    <3> SUFFICES ASSUME NEW c \in Callers, caller[c].at = "dialed", ~closed, flows[caller[c].key] = NoFlow
                 PROVE  flowLimitAllowsLocked(SessionOf[caller[c].key])
        BY DEF AdmittedIsKept
    <3>0. SessionOf[caller[c].key] \in Sessions
      BY SessionType DEF Inv, CallerInv
    <3>1. PICK t \in Sessions : t = SessionOf[caller[c].key]
      BY <3>0
    <3>2. c \in Pending /\ c \in Waiting(t) /\ IsFiniteSet(Pending) /\ IsFiniteSet(Waiting(t))
      BY <3>1, Finite DEF Pending, Waiting, Dialing
    <3>3. Cardinality(Pending) >= 1 /\ Cardinality(Waiting(t)) >= 1
      BY <3>2, OneLess
    <3>4. /\ pendingFlows >= 1 /\ pendingFlowCounts[t] >= 1
          /\ Cardinality(Open) + pendingFlows <= MaxFlows
          /\ flowCounts[t] + pendingFlowCounts[t] <= MaxFlowsPerSession
      BY <3>3 DEF Inv, PendingCounted, Limits
    <3>5. /\ pendingFlows \in Nat /\ pendingFlowCounts[t] \in Nat
          /\ Cardinality(Open) \in Nat /\ flowCounts[t] \in Nat
      BY Finite, FS_CardinalityType DEF Inv, TypeOK
    <3>6. Cardinality(Open) < MaxFlows /\ flowCounts[t] < MaxFlowsPerSession
      BY <3>4, <3>5, PoolAssumption
    <3> QED BY <3>1, <3>6 DEF flowLimitAllowsLocked
  <2> QED BY <2>1, <2>2, OpenSocketsBounded DEF PoolSound, Inv
<1> QED BY <1>1, InvHolds, PTL
=============================================================================
