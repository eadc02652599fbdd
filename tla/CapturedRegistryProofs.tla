----------------------- MODULE CapturedRegistryProofs -----------------------
(***************************************************************************)
(* Proofs about CapturedRegistry for every value of its constants.         *)
(*                                                                         *)
(* The safety invariants are not inductive one by one.  RegistryInv adds   *)
(* what ties them together: which transports ever had a controller, that a *)
(* pending token was never traded before, and that a generation in force   *)
(* needs a live controller.  HistoryInv adds the leases' and datagrams'    *)
(* history: it gives LeaseHonoured and the refinement of LeaseAuthority.   *)
(* BudgetExact does the same for the buffer budget, whose byte count is a  *)
(* sum over a set and is reasoned about by induction on that set.          *)
(***************************************************************************)
EXTENDS CapturedRegistry, FiniteSetTheorems, WellFoundedInduction, TLAPS

\* A transport that has a controller has been attached, and a pending token
\* belongs to a transport that never had one (newTransportAttachment,
\* AttachTransport and Authenticate run at most once per transport).
TokenUnspent ==
    /\ \A c \in Controllers :
          controllerOf[c] # Nobody => attachState[controllerOf[c]] \notin {"none", "new"}
    /\ token # Nobody => \A c \in Controllers : controllerOf[c] # token

\* A generation in force was committed by the live controller.
ActiveHasController ==
    /\ activeGeneration # 0 => controller # Nobody
    /\ activeGeneration <= lastGeneration

\* A free entry of the flow table is exactly the nil entry, so its lease fields say nothing.
RegistryInv ==
    /\ TypeOK
    /\ IsFiniteSet(transactions)
    /\ AuthorityBound
    /\ TokenUnspent
    /\ ClosedRevokesAll
    /\ ActiveHasController
    /\ FlowsOfActiveGeneration
    /\ PreparedIsCurrent

-----------------------------------------------------------------------------
\* NoLease is a value of the lease type, and evictFlows is an empty table.
LEMMA NoLeaseType == NoLease \in Lease /\ evictFlows \in [FlowIDs -> Lease]
  BY DEF NoLease, Lease, NoSequence, evictFlows

\* expireFlows keeps the table's type and only ever removes entries.
LEMMA ExpireFlowsOnlyRemoves ==
  ASSUME flows \in [FlowIDs -> Lease], NEW now \in Nat
  PROVE  /\ expireFlows(now) \in [FlowIDs -> Lease]
         /\ \A f \in FlowIDs : expireFlows(now)[f] = flows[f] \/ expireFlows(now)[f] = NoLease
  BY NoLeaseType DEF expireFlows

\* A clock reading used by an operation is a natural number.
LEMMA ReadClockType ==
  ASSUME clock \in Nat PROVE ReadClock \subseteq Nat
  BY BoundsAssumption DEF ReadClock

\* A reservation is a positive number of bytes.
LEMMA ReservationType ==
  ASSUME NEW size \in Sizes PROVE Reservation(size) \in Nat
  BY LimitsAssumption DEF Reservation

\* reserveBuffer, behind canReserve, keeps the buffers and the budget typed
\* and the buffered bytes within the limit.
LEMMA ReserveType ==
  ASSUME TypeOK, NEW d \in Directions, NEW size \in Sizes,
         canReserve(d, size), reserveBuffer(d, size)
  PROVE  /\ buffers' \in [BufferSlots -> [direction : Directions, bytes : Nat, live : BOOLEAN]]
         /\ budget' \in [bytes : 0..MaxBufferedBytes, objects : Nat, metadata : Nat,
                   objectsBy : [Directions -> Nat], metadataBy : [Directions -> Nat]]
         /\ panicked' \in BOOLEAN
<1>1. PICK b \in BufferSlots :
        /\ buffers' = [buffers EXCEPT ![b] =
                          [direction |-> d, bytes |-> Reservation(size), live |-> TRUE]]
        /\ budget' = [bytes      |-> budget.bytes + Reservation(size),
                      objects    |-> budget.objects + 1,
                      metadata   |-> budget.metadata + MetaSize,
                      objectsBy  |-> [budget.objectsBy EXCEPT ![d] = @ + 1],
                      metadataBy |-> [budget.metadataBy EXCEPT ![d] = @ + MetaSize]]
        /\ UNCHANGED panicked
  BY DEF reserveBuffer
<1>2. Reservation(size) \in Nat
  BY ReservationType
<1>3. buffers' \in [BufferSlots -> [direction : Directions, bytes : Nat, live : BOOLEAN]]
  BY <1>1, <1>2 DEF TypeOK
<1>4. budget.bytes + Reservation(size) \in 0..MaxBufferedBytes
  BY <1>2, LimitsAssumption DEF TypeOK, canReserve, bytesAvailable
<1>5. [budget.objectsBy EXCEPT ![d] = @ + 1] \in [Directions -> Nat]
  BY DEF TypeOK
<1>6. [budget.metadataBy EXCEPT ![d] = @ + MetaSize] \in [Directions -> Nat]
  BY LimitsAssumption DEF TypeOK
<1>7. budget.objects + 1 \in Nat /\ budget.metadata + MetaSize \in Nat
  BY LimitsAssumption DEF TypeOK
<1> QED
  BY <1>1, <1>3, <1>4, <1>5, <1>6, <1>7 DEF TypeOK

\* releaseBuffer keeps the buffers and the budget typed: its underflow check
\* guards every subtraction.
LEMMA ReleaseType ==
  ASSUME TypeOK, NEW b \in BufferSlots, releaseBuffer(b)
  PROVE  /\ buffers' \in [BufferSlots -> [direction : Directions, bytes : Nat, live : BOOLEAN]]
         /\ budget' \in [bytes : 0..MaxBufferedBytes, objects : Nat, metadata : Nat,
                   objectsBy : [Directions -> Nat], metadataBy : [Directions -> Nat]]
         /\ panicked' \in BOOLEAN
<1> DEFINE l == buffers[b]
<1>1. l \in [direction : Directions, bytes : Nat, live : BOOLEAN]
  BY DEF TypeOK
<1>2. buffers' \in [BufferSlots -> [direction : Directions, bytes : Nat, live : BOOLEAN]]
  BY DEF TypeOK, releaseBuffer
<1>3. CASE Underflow(b)
  BY <1>2, <1>3 DEF TypeOK, releaseBuffer
<1>4. CASE ~Underflow(b)
  <2>1. /\ budget.bytes - l.bytes \in 0..MaxBufferedBytes
        /\ budget.objects - 1 \in Nat
        /\ budget.metadata - MetaSize \in Nat
    BY <1>1, <1>4, LimitsAssumption DEF TypeOK, Underflow
  <2>2. [budget.objectsBy EXCEPT ![l.direction] = @ - 1] \in [Directions -> Nat]
    BY <1>1, <1>4 DEF TypeOK, Underflow
  <2>3. [budget.metadataBy EXCEPT ![l.direction] = @ - MetaSize] \in [Directions -> Nat]
    BY <1>1, <1>4, LimitsAssumption DEF TypeOK, Underflow
  <2> QED
    BY <1>2, <1>4, <2>1, <2>2, <2>3 DEF TypeOK, releaseBuffer
<1> QED
  BY <1>3, <1>4

-----------------------------------------------------------------------------
\* The initial registry satisfies the inductive invariant.
LEMMA InitEstablishes == Init => RegistryInv
<1> SUFFICES ASSUME Init PROVE RegistryInv
  OBVIOUS
<1>1. TypeOK
  <2>1. flows \in [FlowIDs -> Lease]
    BY NoLeaseType DEF Init
  <2>2. buffers \in [BufferSlots -> [direction : Directions, bytes : Nat, live : BOOLEAN]]
    BY DEF Init, Directions
  <2>3. budget \in [bytes : 0..MaxBufferedBytes, objects : Nat, metadata : Nat,
                   objectsBy : [Directions -> Nat], metadataBy : [Directions -> Nat]]
    BY LimitsAssumption DEF Init, EmptyBudget
  <2> QED
    BY <2>1, <2>2, <2>3 DEF Init, TypeOK, NoTransaction
<1>2. IsFiniteSet(transactions)
  BY FS_EmptySet DEF Init
<1>3. OpenFlows = {}
  BY DEF Init, OpenFlows, IsOpen, NoLease
<1>4. AuthorityBound /\ TokenUnspent /\ ClosedRevokesAll
  BY NobodyAssumption DEF Init, AuthorityBound, TokenUnspent, ClosedRevokesAll
<1>5. ActiveHasController /\ FlowsOfActiveGeneration /\ PreparedIsCurrent
  BY <1>3 DEF Init, ActiveHasController, FlowsOfActiveGeneration, PreparedIsCurrent
<1> QED
  BY <1>1, <1>2, <1>4, <1>5 DEF RegistryInv

\* Creating, attaching, refusing or authenticating a transport preserves the
\* invariant: none of these calls touches policy, leases or buffers.
LEMMA TransportPreserves ==
  ASSUME RegistryInv, NEW a \in Attachments,
         \/ \E v \in BOOLEAN : newTransportAttachment(a, v)
         \/ AttachTransport(a)
         \/ RefuseAfterClose(a)
         \/ \E t \in Attachments, c \in Controllers : Authenticate(a, t, c)
  PROVE  RegistryInv'
<1> USE DEF RegistryInv
<1>0. /\ UNCHANGED <<clock, policy, leases, traffic, memory, closed, reaper>>
  BY DEF newTransportAttachment, AttachTransport, RefuseAfterClose, Authenticate
<1>1. TypeOK'
  <2> USE DEF TypeOK, policy, leases, traffic, memory
  <2>1. CASE \E v \in BOOLEAN : newTransportAttachment(a, v)
    BY <1>0, <2>1 DEF newTransportAttachment
  <2>2. CASE AttachTransport(a)
    BY <1>0, <2>2 DEF AttachTransport
  <2>3. CASE RefuseAfterClose(a)
    BY <1>0, <2>3 DEF RefuseAfterClose, destroyAttachment
  <2>4. CASE \E t \in Attachments, c \in Controllers : Authenticate(a, t, c)
    BY <1>0, <2>4 DEF Authenticate, consumeToken
  <2> QED
    BY <2>1, <2>2, <2>3, <2>4
<1>2. AuthorityBound' /\ TokenUnspent' /\ ClosedRevokesAll'
  <2>1. CASE \E v \in BOOLEAN : newTransportAttachment(a, v)
    BY <2>1, NobodyAssumption DEF TypeOK, AuthorityBound, TokenUnspent, ClosedRevokesAll,
       newTransportAttachment, policy
  <2>2. CASE AttachTransport(a)
    BY <2>2, NobodyAssumption DEF TypeOK, AuthorityBound, TokenUnspent, ClosedRevokesAll,
       AttachTransport, mayAttach, policy
  <2>3. CASE RefuseAfterClose(a)
    BY <2>3, NobodyAssumption DEF TypeOK, AuthorityBound, TokenUnspent, ClosedRevokesAll,
       RefuseAfterClose, destroyAttachment, policy
  <2>4. CASE \E t \in Attachments, c \in Controllers : Authenticate(a, t, c)
    BY <2>4, NobodyAssumption DEF TypeOK, AuthorityBound, TokenUnspent, ClosedRevokesAll,
       Authenticate, consumeToken, policy
  <2> QED
    BY <2>1, <2>2, <2>3, <2>4
<1>3. controller # Nobody => UNCHANGED controller
  BY DEF newTransportAttachment, AttachTransport, mayAttach, RefuseAfterClose, Authenticate
<1>4. controller # Nobody => controller' # Nobody
  BY <1>3
<1>5. ActiveHasController'
  BY <1>0, <1>4 DEF ActiveHasController, policy
<1>6. FlowsOfActiveGeneration'
  BY <1>0, <1>4 DEF FlowsOfActiveGeneration, OpenFlows, IsOpen, policy, leases
<1>7. PreparedIsCurrent'
  BY <1>0, <1>3 DEF PreparedIsCurrent, policy
<1>8. IsFiniteSet(transactions)'
  BY <1>0 DEF policy
<1> QED
  BY <1>1, <1>2, <1>5, <1>6, <1>7, <1>8

\* Every path that revokes the controller (detach, disconnect, Close) ends
\* with an empty table, no generation and no prepared transaction.
LEMMA RevocationPreserves ==
  ASSUME RegistryInv,
         \/ \E a \in Attachments : detachTransport(a)
         \/ \E c \in Controllers : disconnectController(c)
         \/ Close
  PROVE  RegistryInv'
<1> USE DEF RegistryInv
<1>0. /\ UNCHANGED <<clock, reaper, controllerOf, transactions, lastGeneration, granted, traffic, memory>>
      /\ revokeController /\ attachment' = Nobody
  BY DEF detachTransport, disconnectController, Close
<1>1. /\ attachState' \in [Attachments -> {"none", "new", "attached", "detached", "closed"}]
      /\ peerVerified' \in [Attachments -> BOOLEAN]
      /\ closed' \in BOOLEAN
      /\ \A a \in Attachments : attachState'[a] # "attached"
      /\ \A a \in Attachments : attachState[a] \notin {"none", "new"} => attachState'[a] \notin {"none", "new"}
  <2> USE NobodyAssumption DEF TypeOK, AuthorityBound, destroyAttachment
  <2>1. CASE \E a \in Attachments : detachTransport(a)
    BY <2>1 DEF detachTransport
  <2>2. CASE \E c \in Controllers : disconnectController(c)
    BY <2>2 DEF disconnectController
  <2>3. CASE Close /\ attachment = Nobody
    BY <2>3 DEF Close
  <2>4. CASE Close /\ attachment # Nobody
    <3>1. attachment \in Attachments
      BY <2>4
    <3>2. /\ attachState' = [attachState EXCEPT ![attachment] = "closed"]
          /\ peerVerified' = [peerVerified EXCEPT ![attachment] = FALSE]
          /\ closed' = TRUE
      BY <2>4 DEF Close
    <3> QED
      BY <3>1, <3>2
  <2> QED
    BY <2>1, <2>2, <2>3, <2>4
<1>2. flows' \in [FlowIDs -> Lease] /\ OpenFlows' = {}
  BY <1>0, NoLeaseType DEF revokeController, evictFlows, OpenFlows, IsOpen, NoLease
<1>3. TypeOK'
  BY <1>0, <1>1, <1>2 DEF TypeOK, revokeController, NoTransaction, traffic, memory
<1>4. AuthorityBound' /\ TokenUnspent'
  BY <1>0, <1>1, NobodyAssumption DEF TypeOK, AuthorityBound, TokenUnspent, revokeController
<1>5. ClosedRevokesAll' /\ ActiveHasController' /\ PreparedIsCurrent'
  BY <1>0 DEF TypeOK, ClosedRevokesAll, ActiveHasController, PreparedIsCurrent, revokeController
<1>6. FlowsOfActiveGeneration'
  BY <1>2 DEF FlowsOfActiveGeneration
<1> QED
  BY <1>0, <1>3, <1>4, <1>5, <1>6

\* prepare, commit, abort and disable preserve the invariant.
LEMMA PolicyPreserves ==
  ASSUME RegistryInv, NEW c \in Controllers, Policy(c)
  PROVE  RegistryInv'
<1> USE DEF RegistryInv
<1>0. /\ UNCHANGED <<clock, lifecycle, granted, traffic, memory>>
      /\ ~closed /\ controller = c /\ c # Nobody
  BY NobodyAssumption DEF Policy, prepareGeneration, commitGeneration, abortGeneration,
     disableGeneration, requireController, leases
<1>1. AuthorityBound' /\ TokenUnspent'
  BY <1>0 DEF AuthorityBound, TokenUnspent, lifecycle
<1>2. ClosedRevokesAll'
  BY <1>0 DEF ClosedRevokesAll, lifecycle
<1>3. ASSUME NEW g \in Generations, prepareGeneration(c, g)
      PROVE  RegistryInv'
  <2> DEFINE id == Cardinality(transactions) + 1
  <2>1. id \in Nat /\ g \in Nat
    BY FS_CardinalityType, BoundsAssumption DEF Generations
  <2>2. /\ prepared' = [id |-> id, generation |-> g]
        /\ transactions' = transactions \cup {[id |-> id, generation |-> g, by |-> c]}
        /\ UNCHANGED <<clock, lifecycle, activeGeneration, lastGeneration, leases, traffic, memory>>
        /\ g > lastGeneration
    BY <1>3 DEF prepareGeneration, supersedes
  <2>3. TypeOK'
    BY <2>1, <2>2 DEF TypeOK, lifecycle, leases, traffic, memory
  <2>4. IsFiniteSet(transactions')
    BY <2>2, FS_AddElement
  <2>5. ActiveHasController' /\ FlowsOfActiveGeneration'
    BY <2>2 DEF ActiveHasController, FlowsOfActiveGeneration, OpenFlows, IsOpen, lifecycle, leases
  <2>6. PreparedIsCurrent'
    <3> DEFINE new == [id |-> id, generation |-> g, by |-> c]
    <3>1. new \in transactions' /\ controller' = c
      BY <1>0, <2>2 DEF lifecycle
    <3>2. new.id = prepared'.id /\ new.generation = prepared'.generation /\ new.by = controller'
      BY <2>2, <3>1
    <3>3. prepared'.generation > lastGeneration'
      BY <2>2
    <3> HIDE DEF new
    <3> QED
      BY <1>0, <3>1, <3>2, <3>3 DEF PreparedIsCurrent
  <2> QED
    BY <1>1, <1>2, <2>3, <2>4, <2>5, <2>6
<1>4. ASSUME NEW t \in transactions, commitGeneration(c, t)
      PROVE  RegistryInv'
  <2>1. flows' \in [FlowIDs -> Lease] /\ OpenFlows' = {}
    BY <1>4, NoLeaseType DEF commitGeneration, evictFlows, OpenFlows, IsOpen, NoLease
  <2>2. t.generation \in Nat
    BY DEF TypeOK
  <2>3. TypeOK'
    BY <1>0, <1>4, <2>1, <2>2 DEF TypeOK, commitGeneration, NoTransaction, lifecycle, traffic, memory
  <2>4. ActiveHasController' /\ FlowsOfActiveGeneration' /\ PreparedIsCurrent'
    BY <1>0, <1>4, <2>1, <2>2 DEF ActiveHasController, FlowsOfActiveGeneration, PreparedIsCurrent,
       commitGeneration, lifecycle
  <2> QED
    BY <1>1, <1>2, <1>4, <2>3, <2>4 DEF commitGeneration
<1>5. ASSUME NEW t \in transactions, abortGeneration(c, t)
      PROVE  RegistryInv'
  <2>1. TypeOK'
    BY <1>5 DEF TypeOK, abortGeneration, NoTransaction, lifecycle, leases, traffic, memory
  <2>2. ActiveHasController' /\ FlowsOfActiveGeneration' /\ PreparedIsCurrent'
    BY <1>5 DEF ActiveHasController, FlowsOfActiveGeneration, PreparedIsCurrent, OpenFlows, IsOpen,
       abortGeneration, lifecycle, leases
  <2> QED
    BY <1>1, <1>2, <1>5, <2>1, <2>2 DEF abortGeneration
<1>6. ASSUME NEW g \in Generations, disableGeneration(c, g)
      PROVE  RegistryInv'
  <2>1. flows' \in [FlowIDs -> Lease] /\ OpenFlows' = {}
    BY <1>6, NoLeaseType DEF disableGeneration, evictFlows, OpenFlows, IsOpen, NoLease
  <2>2. TypeOK'
    BY <1>6, <2>1 DEF TypeOK, disableGeneration, NoTransaction, lifecycle, traffic, memory
  <2>3. ActiveHasController' /\ FlowsOfActiveGeneration' /\ PreparedIsCurrent'
    BY <1>6, <2>1 DEF ActiveHasController, FlowsOfActiveGeneration, PreparedIsCurrent, TypeOK,
       disableGeneration
  <2> QED
    BY <1>1, <1>2, <1>6, <2>2, <2>3 DEF disableGeneration
<1> QED
  BY <1>3, <1>4, <1>5, <1>6 DEF Policy

\* A step that changes only the flow table, the nonce counter, the traffic
\* record and the buffers preserves the invariant, provided every entry is an
\* old one (with the same generation), a free one, or a grant under the
\* generation in force by the live controller.
LEMMA TablePreserves ==
  ASSUME RegistryInv, TypeOK', UNCHANGED <<lifecycle, policy>>,
         \A f \in FlowIDs : \/ flows'[f].nonce = 0
                            \/ IsOpen(f) /\ flows'[f].generation = flows[f].generation
                            \/ /\ flows'[f].generation = activeGeneration
                               /\ activeGeneration # 0
  PROVE  RegistryInv'
<1> USE DEF RegistryInv
<1>1. AuthorityBound' /\ TokenUnspent' /\ ClosedRevokesAll' /\ ActiveHasController' /\ PreparedIsCurrent'
  BY DEF AuthorityBound, TokenUnspent, ClosedRevokesAll, ActiveHasController, PreparedIsCurrent,
     lifecycle, policy
<1>2. FlowsOfActiveGeneration'
  BY DEF FlowsOfActiveGeneration, ActiveHasController, OpenFlows, IsOpen, lifecycle, policy
<1>3. IsFiniteSet(transactions)'
  BY DEF policy
<1> QED
  BY <1>1, <1>2, <1>3

\* openFlow and closeFlow preserve the invariant.
LEMMA FlowPreserves ==
  ASSUME RegistryInv, NEW c \in Controllers, Flow(c)
  PROVE  RegistryInv'
<1> USE DEF RegistryInv
<1>1. ASSUME NEW f \in FlowIDs, NEW g \in Generations, NEW e \in Endpoints, NEW now \in ReadClock,
             openFlow(c, f, g, e, now)
      PROVE  RegistryInv'
  <2> DEFINE live == expireFlows(now)
  <2>1. now \in Nat /\ g \in Nat /\ clock \in Nat /\ flows \in [FlowIDs -> Lease] /\ granted \in Nat
    BY ReadClockType, BoundsAssumption DEF TypeOK, Generations
  <2>2. /\ live \in [FlowIDs -> Lease]
        /\ \A x \in FlowIDs : live[x] = flows[x] \/ live[x] = NoLease
    BY <2>1, ExpireFlowsOnlyRemoves
  <2>3. Grant(g, e, now) \in Lease
    BY <2>1 DEF Grant, Lease, NoSequence
  <2>4. UNCHANGED <<clock, lifecycle, policy, traffic, memory>>
    BY <1>1 DEF openFlow
  <2>5. CASE /\ g = activeGeneration /\ g # 0
             /\ granted' = granted + 1
             /\ flows' = [live EXCEPT ![f] = Grant(g, e, now)]
    <3>1. flows' \in [FlowIDs -> Lease]
      BY <2>2, <2>3, <2>5
    <3>2. TypeOK'
      BY <2>1, <2>4, <2>5, <3>1 DEF TypeOK, lifecycle, policy, traffic, memory
    <3>3. \A x \in FlowIDs : IF x = f THEN flows'[x] = Grant(g, e, now) ELSE flows'[x] = live[x]
      BY <2>2, <2>5
    <3>4. Grant(g, e, now).generation = g
      BY DEF Grant
    <3> QED
      BY <2>2, <2>4, <2>5, <3>2, <3>3, <3>4, TablePreserves DEF NoLease, IsOpen
  <2>6. CASE flows' = live /\ UNCHANGED granted
    <3>1. TypeOK'
      BY <2>2, <2>4, <2>6 DEF TypeOK, lifecycle, policy, traffic, memory
    <3> QED
      BY <2>2, <2>4, <2>6, <3>1, TablePreserves DEF NoLease, IsOpen
  <2> QED
    BY <1>1, <2>5, <2>6 DEF openFlow
<1>2. ASSUME NEW f \in FlowIDs, NEW g \in Generations, NEW n \in Nonces, closeFlow(c, g, f, n)
      PROVE  RegistryInv'
  <2>1. flows' = [flows EXCEPT ![f] = NoLease] /\ UNCHANGED <<clock, lifecycle, policy, granted, traffic, memory>>
    BY <1>2 DEF closeFlow
  <2>2. TypeOK'
    BY <2>1, NoLeaseType DEF TypeOK, lifecycle, policy, traffic, memory
  <2> QED
    BY <2>1, <2>2, TablePreserves DEF NoLease, IsOpen, TypeOK
<1> QED
  BY <1>1, <1>2 DEF Flow

\* renew and a new sequence number keep a lease's type and generation.
LEMMA RenewType ==
  ASSUME NEW lease \in Lease, NEW now \in Nat, NEW seq \in Nat
  PROVE  /\ renew(lease, now) \in Lease
         /\ renew(lease, now).generation = lease.generation
         /\ [lease EXCEPT !.sequence = seq] \in Lease
         /\ [lease EXCEPT !.sequence = seq].generation = lease.generation
  BY DEF Lease, renew

\* Datagrams in both directions, and leases dropped on use, preserve the invariant.
LEMMA DataPreserves ==
  ASSUME RegistryInv, NEW c \in Controllers, Data(c)
  PROVE  RegistryInv'
<1> USE DEF RegistryInv
<1>1. clock \in Nat /\ ReadClock \subseteq Nat
  BY ReadClockType DEF TypeOK
<1>2. ASSUME NEW f \in FlowIDs, NEW now \in ReadClock, expireOnUse(c, f, now)
      PROVE  RegistryInv'
  <2>1. flows' = [flows EXCEPT ![f] = NoLease] /\ UNCHANGED <<clock, lifecycle, policy, granted, traffic, memory>>
    BY <1>2 DEF expireOnUse
  <2>2. TypeOK'
    BY <2>1, NoLeaseType DEF TypeOK, lifecycle, policy, traffic, memory
  <2> QED
    BY <2>1, <2>2, TablePreserves DEF NoLease, IsOpen, TypeOK
<1>3. ASSUME NEW f \in FlowIDs, NEW now \in ReadClock, NEW g \in Generations, NEW n \in Nonces,
             NEW size \in Sizes, NEW seq \in Sequences, acceptDatagram(c, f, g, n, seq, size, now)
      PROVE  RegistryInv'
  <2>1. /\ flows' = [flows EXCEPT ![f] = renew([flows[f] EXCEPT !.sequence = seq], now)]
        /\ accepted' = accepted \cup {<<n, seq>>}
        /\ datagramsAccepted' = datagramsAccepted + 1
        /\ UNCHANGED <<clock, lifecycle, policy, granted>>
        /\ canReserve("accepted", size) /\ reserveBuffer("accepted", size)
        /\ IsOpen(f)
    BY <1>3 DEF acceptDatagram, holdsLease
  <2>2. n \in Nat /\ seq \in Nat /\ now \in Nat
    BY <1>1, BoundsAssumption DEF Nonces, Sequences
  <2> DEFINE numbered == [flows[f] EXCEPT !.sequence = seq]
             used == renew(numbered, now)
  <2>3. flows[f] \in Lease
    BY DEF TypeOK
  <2>4. numbered \in Lease /\ numbered.generation = flows[f].generation
    BY <2>2, <2>3, RenewType
  <2> HIDE DEF numbered
  <2>5. used \in Lease /\ used.generation = flows[f].generation
    BY <2>2, <2>4, RenewType
  <2> HIDE DEF used
  <2>6. flows' \in [FlowIDs -> Lease]
        /\ \A x \in FlowIDs : IF x = f THEN flows'[x] = used ELSE flows'[x] = flows[x]
    BY <2>1, <2>5 DEF TypeOK, used, numbered
  <2>7. TypeOK'
    <3>1. "accepted" \in Directions
      BY DEF Directions
    <3>2. accepted' \subseteq Nat \X Nat /\ datagramsAccepted' \in Nat
      BY <2>1, <2>2 DEF TypeOK
    <3> QED
      BY <2>1, <2>6, <3>1, <3>2, ReserveType DEF TypeOK, lifecycle, policy
  <2> QED
    BY <2>1, <2>5, <2>6, <2>7, TablePreserves DEF IsOpen
<1>4. ASSUME NEW f \in FlowIDs, NEW now \in ReadClock, NEW g \in Generations, NEW n \in Nonces,
             NEW size \in Sizes, NEW e \in Endpoints, resolveReply(c, f, g, n, e, size, now)
      PROVE  RegistryInv'
  <2>1. /\ flows' = [flows EXCEPT ![f] = renew(flows[f], now)]
        /\ UNCHANGED <<clock, lifecycle, policy, granted, traffic>>
        /\ canReserve("delivery", size) /\ reserveBuffer("delivery", size)
        /\ IsOpen(f)
    BY <1>4 DEF resolveReply, holdsLease
  <2>2. now \in Nat
    BY <1>1
  <2> DEFINE used == renew(flows[f], now)
  <2>3. flows[f] \in Lease
    BY DEF TypeOK
  <2>4. used \in Lease /\ used.generation = flows[f].generation
    BY <2>2, <2>3, RenewType
  <2>5. flows' = [flows EXCEPT ![f] = used]
    BY <2>1
  <2> HIDE DEF used
  <2>6. flows' \in [FlowIDs -> Lease]
        /\ \A x \in FlowIDs : IF x = f THEN flows'[x] = used ELSE flows'[x] = flows[x]
    BY <2>4, <2>5 DEF TypeOK
  <2>7. TypeOK'
    <3>1. "delivery" \in Directions
      BY DEF Directions
    <3> QED
      BY <2>1, <2>6, <3>1, ReserveType DEF TypeOK, lifecycle, policy, traffic
  <2> QED
    BY <2>1, <2>4, <2>6, <2>7, TablePreserves DEF IsOpen
<1> QED
  BY <1>2, <1>3, <1>4 DEF Data

\* Every step of the registry preserves the inductive invariant.
LEMMA NextPreserves == RegistryInv /\ [Next]_vars => RegistryInv'
<1> SUFFICES ASSUME RegistryInv, [Next]_vars PROVE RegistryInv'
  OBVIOUS
<1>1. CASE Transport
  BY <1>1, TransportPreserves, RevocationPreserves DEF Transport
<1>2. CASE \E c \in Controllers : disconnectController(c) \/ Policy(c) \/ Flow(c) \/ Data(c)
  BY <1>2, RevocationPreserves, PolicyPreserves, FlowPreserves, DataPreserves
<1>3. ASSUME NEW b \in BufferSlots, releaseBuffer(b) PROVE RegistryInv'
  <2>1. UNCHANGED <<clock, lifecycle, policy, leases, traffic>>
    BY <1>3 DEF releaseBuffer
  <2>2. TypeOK'
    BY <1>3, <2>1, ReleaseType DEF RegistryInv, TypeOK, lifecycle, policy, leases, traffic
  <2> QED
    BY <2>1, <2>2, TablePreserves DEF leases, IsOpen
<1>4. ASSUME NEW now \in ReadClock, reap(now) PROVE RegistryInv'
  <2>1. now \in Nat /\ flows \in [FlowIDs -> Lease]
    BY ReadClockType DEF RegistryInv, TypeOK
  <2>2. flows' = expireFlows(now) /\ UNCHANGED <<clock, lifecycle, policy, granted, traffic, memory>>
    BY <1>4 DEF reap
  <2>3. /\ flows' \in [FlowIDs -> Lease]
        /\ \A f \in FlowIDs : flows'[f] = flows[f] \/ flows'[f] = NoLease
    BY <2>1, <2>2, ExpireFlowsOnlyRemoves
  <2>4. TypeOK'
    BY <2>2, <2>3 DEF RegistryInv, TypeOK, lifecycle, policy, traffic, memory
  <2> QED
    BY <2>2, <2>3, <2>4, TablePreserves DEF NoLease, IsOpen
<1>5. CASE reaperStops
  BY <1>5 DEF reaperStops, RegistryInv, TypeOK, AuthorityBound, TokenUnspent, ClosedRevokesAll,
     ActiveHasController, FlowsOfActiveGeneration, PreparedIsCurrent, OpenFlows, IsOpen,
     policy, leases, traffic, memory
<1>6. CASE Close
  BY <1>6, RevocationPreserves
<1>7. CASE Tick
  <2>1. TypeOK' /\ UNCHANGED <<lifecycle, policy, leases>>
    BY <1>7 DEF Tick, RegistryInv, TypeOK, lifecycle, policy, leases, traffic, memory
  <2> QED
    BY <2>1, TablePreserves DEF leases, IsOpen
<1>8. CASE UNCHANGED vars
  BY <1>8 DEF vars, RegistryInv, TypeOK, AuthorityBound, TokenUnspent, ClosedRevokesAll,
     ActiveHasController, FlowsOfActiveGeneration, PreparedIsCurrent, OpenFlows, IsOpen,
     lifecycle, policy, leases, traffic, memory
<1> QED
  BY <1>1, <1>2, <1>3, <1>4, <1>5, <1>6, <1>7, <1>8 DEF Next

\* RegistryInv holds in every reachable state of the registry.
THEOREM RegistryInvariant == Spec => []RegistryInv
<1>1. Init => RegistryInv
  BY InitEstablishes
<1>2. RegistryInv /\ [Next]_vars => RegistryInv'
  BY NextPreserves
<1> QED
  BY <1>1, <1>2, PTL DEF Spec

\* Every variable of the registry keeps its type and the buffered bytes never
\* exceed Limits.MaxBufferedBytes.
THEOREM TypeCorrect == Spec => []TypeOK
<1>1. RegistryInv => TypeOK
  BY DEF RegistryInv
<1> QED
  BY <1>1, RegistryInvariant, PTL

\* The controller capability is alive only while its own verified transport is
\* attached, and each transport yields at most one controller.
THEOREM AuthorityIsBound == Spec => [](AuthorityBound /\ ClosedRevokesAll)
<1>1. RegistryInv => AuthorityBound /\ ClosedRevokesAll
  BY DEF RegistryInv
<1> QED
  BY <1>1, RegistryInvariant, PTL

\* Every open lease belongs to the generation in force.
THEOREM LeasesAreCurrent == Spec => []FlowsOfActiveGeneration
<1>1. RegistryInv => FlowsOfActiveGeneration
  BY DEF RegistryInv
<1> QED
  BY <1>1, RegistryInvariant, PTL

\* A prepared transaction belongs to the live controller and is newer than
\* every generation that was ever in force.
THEOREM TransactionsAreCurrent == Spec => []PreparedIsCurrent
<1>1. RegistryInv => PreparedIsCurrent
  BY DEF RegistryInv
<1> QED
  BY <1>1, RegistryInvariant, PTL

\* A generation never comes into force a second time, whatever controllers,
\* transports, aborts and disconnects lie between.
THEOREM GenerationsOnlyIncrease == Spec => GenerationsIncrease
<1> DEFINE Increase == /\ lastGeneration' >= lastGeneration
                       /\ activeGeneration' \notin {0, activeGeneration} =>
                             activeGeneration' > lastGeneration
<1>1. RegistryInv /\ [Next]_vars => [Increase]_vars
  <2> SUFFICES ASSUME RegistryInv, Next PROVE Increase
    OBVIOUS
  <2>1. lastGeneration \in Nat
    BY DEF RegistryInv, TypeOK
  <2>2. ASSUME NEW c \in Controllers, NEW t \in transactions, commitGeneration(c, t) PROVE Increase
    <3>1. t.generation \in Nat /\ prepared # NoTransaction /\ prepared.generation = t.generation
      BY <2>2 DEF RegistryInv, TypeOK, commitGeneration, IsPrepared
    <3>2. t.generation > lastGeneration
      BY <3>1 DEF RegistryInv, PreparedIsCurrent
    <3>3. lastGeneration' = t.generation /\ activeGeneration' = t.generation
      BY <2>2 DEF commitGeneration
    <3> QED
      BY <2>1, <3>1, <3>2, <3>3
  <2>3. ASSUME ~\E c \in Controllers, t \in transactions : commitGeneration(c, t)
        PROVE  lastGeneration' = lastGeneration /\ activeGeneration' \in {0, activeGeneration}
    <3>1. CASE Transport \/ Close \/ \E c \in Controllers : disconnectController(c)
      BY <3>1 DEF Transport, newTransportAttachment, AttachTransport, RefuseAfterClose,
         detachTransport, Authenticate, Close, disconnectController, revokeController, policy
    <3>2. ASSUME NEW c \in Controllers, Policy(c)
          PROVE  lastGeneration' = lastGeneration /\ activeGeneration' \in {0, activeGeneration}
      BY <2>3, <3>2 DEF Policy, prepareGeneration, abortGeneration, disableGeneration
    <3>3. CASE \E c \in Controllers : Flow(c) \/ Data(c)
      <4>1. \A c, f, g, e, now : openFlow(c, f, g, e, now) => UNCHANGED policy
        BY DEF openFlow
      <4>2. \A c, f, g, n : closeFlow(c, g, f, n) => UNCHANGED policy
        BY DEF closeFlow
      <4>3. \A c, f, now : expireOnUse(c, f, now) => UNCHANGED policy
        BY DEF expireOnUse
      <4>4. \A c, f, g, n, seq, size, now : acceptDatagram(c, f, g, n, seq, size, now) => UNCHANGED policy
        BY DEF acceptDatagram
      <4>5. \A c, f, g, n, e, size, now : resolveReply(c, f, g, n, e, size, now) => UNCHANGED policy
        BY DEF resolveReply
      <4>6. UNCHANGED policy
        BY <3>3, <4>1, <4>2, <4>3, <4>4, <4>5 DEF Flow, Data
      <4> QED
        BY <4>6 DEF policy
    <3>4. CASE \/ \E b \in BufferSlots : releaseBuffer(b)
               \/ \E now \in ReadClock : reap(now)
               \/ reaperStops \/ Tick
      BY <3>4 DEF releaseBuffer, reap, reaperStops, Tick, policy
    <3> QED
      BY <3>1, <3>2, <3>3, <3>4 DEF Next
  <2> QED
    BY <2>1, <2>2, <2>3
<1> QED
  BY <1>1, RegistryInvariant, PTL DEF Spec, GenerationsIncrease

-----------------------------------------------------------------------------
(* What the invariant above leaves out: the history of leases, datagrams   *)
(* and buffers.                                                            *)

\* No two open leases share a nonce, no nonce is ahead of the counter, and the
\* activity a lease records is not older than the lease (openFlow starts both
\* at the same reading, holdsLease admits no older one).
LeasesDistinct ==
    /\ \A f \in OpenFlows : /\ flows[f].nonce <= granted
                            /\ flows[f].openedAt <= flows[f].lastActivity
    /\ \A f, h \in OpenFlows : flows[f].nonce = flows[h].nonce => f = h

\* Every datagram passed on carried a nonce that was granted, and none newer
\* than the sequence number its lease records, if that lease is still open.
AcceptedInOrder ==
    /\ \A p \in accepted : p[1] <= granted
    /\ \A p \in accepted : \A f \in OpenFlows :
          flows[f].nonce = p[1] => p[2] <= flows[f].sequence

\* Only proposed generations are ever prepared.
Proposed == \A t \in transactions : t.generation \in Generations

\* The history of the registry, on top of RegistryInv.
HistoryInv ==
    /\ RegistryInv
    /\ LeasesDistinct
    /\ AcceptedInOrder
    /\ Proposed
    /\ IsFiniteSet(accepted)
    /\ AcceptedOnce
    /\ FlowLimit

-----------------------------------------------------------------------------
(* The five kinds of steps the flow table sees.                            *)

\* The table is emptied; counters and traffic stay.
Evicts == flows' = evictFlows /\ UNCHANGED <<granted, traffic>>

\* revokeController and disableGeneration.
Withdraws == Evicts /\ activeGeneration' = 0 /\ UNCHANGED lastGeneration

\* commitGeneration.
Installs(g) == Evicts /\ g > lastGeneration /\ activeGeneration' = g /\ lastGeneration' = g

\* Leases are dropped, or nothing happens to the table at all.
Lapses ==
    /\ UNCHANGED <<activeGeneration, lastGeneration, granted, traffic>>
    /\ \A f \in FlowIDs : flows'[f] = flows[f] \/ flows'[f] = NoLease

\* openFlow, when it grants the lease.
Grants(f) ==
    /\ activeGeneration # 0
    /\ UNCHANGED <<activeGeneration, lastGeneration, traffic>>
    /\ granted' = granted + 1
    /\ flows'[f].nonce = granted + 1 /\ flows'[f].generation = activeGeneration
    /\ flows'[f].openedAt = flows'[f].lastActivity
    /\ \A x \in FlowIDs \ {f} : flows'[x] = flows[x] \/ flows'[x] = NoLease
    /\ Cardinality(OpenFlows' \ {f}) < MaxFlows

\* A datagram in either direction renews the lease.
Renews(f, seq) ==
    /\ IsOpen(f)
    /\ UNCHANGED <<activeGeneration, lastGeneration, granted>>
    /\ \A x \in FlowIDs \ {f} : flows'[x] = flows[x]
    /\ flows'[f].nonce = flows[f].nonce /\ flows'[f].generation = flows[f].generation
    /\ flows'[f].openedAt = flows[f].openedAt
    /\ flows'[f].lastActivity >= flows[f].openedAt
    /\ flows'[f].sequence = seq

\* resolveReply.
Replies(f) == Renews(f, flows[f].sequence) /\ UNCHANGED traffic

\* acceptDatagram: the sequence number is newer than any the lease has seen.
Accepts(f, seq) ==
    /\ Renews(f, seq)
    /\ flows[f].generation = activeGeneration
    /\ seq > flows[f].sequence
    /\ accepted' = accepted \cup {<<flows[f].nonce, seq>>}
    /\ datagramsAccepted' = datagramsAccepted + 1

\* What any step of the registry does to the policy, the leases and the traffic.
StepKind ==
    \/ Withdraws
    \/ \E g \in Generations : Installs(g)
    \/ Lapses
    \/ \E f \in FlowIDs : Grants(f) \/ Replies(f) \/ \E seq \in Sequences : Accepts(f, seq)

\* openFlow grants a lease or drops some.
LEMMA OpenFlowKind ==
  ASSUME HistoryInv, NEW c \in Controllers, NEW f \in FlowIDs, NEW g \in Generations,
         NEW e \in Endpoints, NEW now \in ReadClock, openFlow(c, f, g, e, now)
  PROVE  Grants(f) \/ Lapses
<1> DEFINE live == expireFlows(now)
<1>1. now \in Nat /\ flows \in [FlowIDs -> Lease]
  BY ReadClockType DEF HistoryInv, RegistryInv, TypeOK
<1>2. /\ live \in [FlowIDs -> Lease]
      /\ \A x \in FlowIDs : live[x] = flows[x] \/ live[x] = NoLease
  BY <1>1, ExpireFlowsOnlyRemoves
<1>3. UNCHANGED <<activeGeneration, lastGeneration, traffic>>
  BY DEF openFlow, policy, traffic
<1>4. CASE /\ g = activeGeneration /\ g # 0 /\ live[f] = NoLease /\ hasRoom(live)
           /\ granted' = granted + 1
           /\ flows' = [live EXCEPT ![f] = Grant(g, e, now)]
  <2>1. /\ flows'[f] = Grant(g, e, now)
        /\ \A x \in FlowIDs \ {f} : flows'[x] = live[x]
    BY <1>2, <1>4
  <2>2. /\ flows'[f].nonce = granted + 1 /\ flows'[f].generation = g
        /\ flows'[f].openedAt = flows'[f].lastActivity
    BY <2>1 DEF Grant
  <2>3. OpenFlows' \ {f} = {x \in FlowIDs : live[x].nonce # 0}
    BY <1>4, <2>1 DEF OpenFlows, IsOpen, NoLease
  <2>4. Cardinality(OpenFlows' \ {f}) < MaxFlows
    BY <1>4, <2>3 DEF hasRoom
  <2> HIDE DEF live
  <2> QED
    BY <1>2, <1>3, <1>4, <2>1, <2>2, <2>4 DEF Grants
<1>5. CASE flows' = live /\ UNCHANGED granted
  <2> HIDE DEF live
  <2> QED BY <1>2, <1>3, <1>5 DEF Lapses
<1> QED
  BY <1>4, <1>5 DEF openFlow

\* renew records the reading, a new sequence number is recorded, and nothing
\* else of the lease changes.
LEMMA RenewFields ==
  ASSUME NEW lease \in Lease, NEW now \in Nat, NEW seq \in Nat
  PROVE  /\ renew(lease, now).nonce = lease.nonce
         /\ renew(lease, now).openedAt = lease.openedAt
         /\ renew(lease, now).lastActivity = now
         /\ renew(lease, now).sequence = lease.sequence
         /\ [lease EXCEPT !.sequence = seq].nonce = lease.nonce
         /\ [lease EXCEPT !.sequence = seq].openedAt = lease.openedAt
         /\ [lease EXCEPT !.sequence = seq].sequence = seq
  BY DEF Lease, renew

\* A datagram in either direction renews the lease it is under.
LEMMA DataKind ==
  ASSUME HistoryInv, NEW c \in Controllers, Data(c)
  PROVE  StepKind
<1>0. flows \in [FlowIDs -> Lease] /\ ReadClock \subseteq Nat
  BY ReadClockType DEF HistoryInv, RegistryInv, TypeOK
<1>1. ASSUME NEW f \in FlowIDs, NEW now \in ReadClock, expireOnUse(c, f, now)
      PROVE  Lapses
  BY <1>0, <1>1 DEF expireOnUse, Lapses, policy, traffic
<1>2. ASSUME NEW f \in FlowIDs, NEW now \in ReadClock, NEW g \in Generations, NEW n \in Nonces,
             NEW size \in Sizes, NEW seq \in Sequences, acceptDatagram(c, f, g, n, seq, size, now)
      PROVE  Accepts(f, seq)
  <2>1. /\ flows' = [flows EXCEPT ![f] = renew([flows[f] EXCEPT !.sequence = seq], now)]
        /\ UNCHANGED <<activeGeneration, lastGeneration, granted>>
        /\ IsOpen(f) /\ now >= flows[f].openedAt
        /\ flows[f].nonce = n /\ flows[f].generation = activeGeneration
        /\ accepted' = accepted \cup {<<n, seq>>}
        /\ datagramsAccepted' = datagramsAccepted + 1
        /\ flows[f].sequence = -1 \/ seq > flows[f].sequence
    BY <1>2 DEF acceptDatagram, holdsLease, isNewSequence, NoSequence, policy
  <2>2. seq \in Nat /\ now \in Nat /\ flows[f] \in Lease
    BY <1>0, BoundsAssumption DEF Sequences
  <2> DEFINE numbered == [flows[f] EXCEPT !.sequence = seq]
             used == renew(numbered, now)
  <2>3. /\ numbered \in Lease /\ numbered.generation = flows[f].generation
        /\ numbered.nonce = flows[f].nonce /\ numbered.openedAt = flows[f].openedAt
        /\ numbered.sequence = seq
    BY <2>2, RenewType, RenewFields
  <2>4. flows' = [flows EXCEPT ![f] = used]
    BY <2>1
  <2> HIDE DEF numbered
  <2>5. /\ used \in Lease /\ used.generation = numbered.generation
        /\ used.nonce = numbered.nonce /\ used.openedAt = numbered.openedAt
        /\ used.lastActivity = now /\ used.sequence = numbered.sequence
    BY <2>2, <2>3, RenewType, RenewFields
  <2> HIDE DEF used
  <2>6. flows'[f] = used /\ \A x \in FlowIDs \ {f} : flows'[x] = flows[x]
    BY <1>0, <2>4
  <2>7. Renews(f, seq)
    BY <2>1, <2>3, <2>5, <2>6 DEF Renews
  <2>8. seq > flows[f].sequence
    BY <2>1, <2>2
  <2> QED
    BY <2>1, <2>7, <2>8 DEF Accepts
<1>3. ASSUME NEW f \in FlowIDs, NEW now \in ReadClock, NEW g \in Generations, NEW n \in Nonces,
             NEW size \in Sizes, NEW e \in Endpoints, resolveReply(c, f, g, n, e, size, now)
      PROVE  Replies(f)
  <2>1. /\ flows' = [flows EXCEPT ![f] = renew(flows[f], now)]
        /\ UNCHANGED <<activeGeneration, lastGeneration, granted, traffic>>
        /\ IsOpen(f) /\ now >= flows[f].openedAt
    BY <1>3 DEF resolveReply, holdsLease, policy, traffic
  <2>2. now \in Nat /\ flows[f] \in Lease
    BY <1>0
  <2> DEFINE used == renew(flows[f], now)
  <2>3. /\ used.generation = flows[f].generation
        /\ used.nonce = flows[f].nonce /\ used.openedAt = flows[f].openedAt
        /\ used.lastActivity = now /\ used.sequence = flows[f].sequence
    BY <2>2, RenewType, RenewFields
  <2>4. flows' = [flows EXCEPT ![f] = used]
    BY <2>1
  <2> HIDE DEF used
  <2>5. flows'[f] = used /\ \A x \in FlowIDs \ {f} : flows'[x] = flows[x]
    BY <1>0, <2>4
  <2> QED
    BY <2>1, <2>3, <2>5 DEF Replies, Renews
<1> QED
  BY <1>1, <1>2, <1>3 DEF Data, StepKind

\* Every step of the registry is one of these kinds.
LEMMA NextKind ==
  ASSUME HistoryInv, [Next]_vars
  PROVE  StepKind
<1> DEFINE Quiet == UNCHANGED <<activeGeneration, lastGeneration, flows, granted, traffic>>
<1>0. Quiet => Lapses
  BY DEF Lapses
<1>1. CASE Transport /\ ~\E a \in Attachments : detachTransport(a)
  <2>1. Quiet
    BY <1>1 DEF Transport, newTransportAttachment, AttachTransport, RefuseAfterClose,
       Authenticate, policy, leases, traffic
  <2> QED BY <1>0, <2>1 DEF StepKind
<1>2. CASE \/ \E a \in Attachments : detachTransport(a)
           \/ \E c \in Controllers : disconnectController(c)
           \/ Close
  <2>1. Withdraws
    BY <1>2 DEF detachTransport, disconnectController, Close, revokeController, Withdraws, Evicts, traffic
  <2> QED BY <2>1 DEF StepKind
<1>3. ASSUME NEW c \in Controllers, Policy(c) PROVE StepKind
  <2>1. ASSUME NEW g \in Generations, prepareGeneration(c, g) PROVE Quiet
    BY <2>1 DEF prepareGeneration, leases, traffic
  <2>2. ASSUME NEW t \in transactions, abortGeneration(c, t) PROVE Quiet
    BY <2>2 DEF abortGeneration, leases, traffic
  <2>3. ASSUME NEW g \in Generations, disableGeneration(c, g) PROVE Withdraws
    BY <2>3 DEF disableGeneration, Withdraws, Evicts, traffic
  <2>4. ASSUME NEW t \in transactions, commitGeneration(c, t) PROVE \E g \in Generations : Installs(g)
    <3>1. prepared # NoTransaction /\ prepared.generation = t.generation
      BY <2>4 DEF commitGeneration, IsPrepared
    <3>2. t.generation > lastGeneration /\ t.generation \in Generations
      BY <3>1 DEF HistoryInv, RegistryInv, PreparedIsCurrent, Proposed
    <3>3. Installs(t.generation)
      BY <2>4, <3>2 DEF commitGeneration, Installs, Evicts, traffic
    <3> QED BY <3>2, <3>3
  <2> QED
    BY <1>0, <1>3, <2>1, <2>2, <2>3, <2>4 DEF Policy, StepKind
<1>4. ASSUME NEW c \in Controllers, Flow(c) PROVE StepKind
  <2>1. ASSUME NEW f \in FlowIDs, NEW g \in Generations, NEW n \in Nonces, closeFlow(c, g, f, n)
        PROVE  Lapses
    <3>1. flows \in [FlowIDs -> Lease]
      BY DEF HistoryInv, RegistryInv, TypeOK
    <3> QED BY <2>1, <3>1 DEF closeFlow, Lapses, policy, traffic
  <2> QED
    BY <1>4, <2>1, OpenFlowKind DEF Flow, StepKind
<1>5. CASE \E b \in BufferSlots : releaseBuffer(b)
  <2>1. Quiet
    BY <1>5 DEF releaseBuffer, policy, leases, traffic
  <2> QED BY <1>0, <2>1 DEF StepKind
<1>6. ASSUME NEW now \in ReadClock, reap(now) PROVE StepKind
  <2>1. now \in Nat /\ flows \in [FlowIDs -> Lease]
    BY ReadClockType DEF HistoryInv, RegistryInv, TypeOK
  <2>2. \A f \in FlowIDs : flows'[f] = flows[f] \/ flows'[f] = NoLease
    BY <1>6, <2>1, ExpireFlowsOnlyRemoves DEF reap
  <2>3. Lapses
    BY <1>6, <2>2 DEF reap, Lapses, policy, traffic
  <2> QED BY <2>3 DEF StepKind
<1>7. CASE reaperStops \/ Tick \/ UNCHANGED vars
  <2>1. Quiet
    BY <1>7 DEF reaperStops, Tick, vars, policy, leases, traffic
  <2> QED BY <1>0, <2>1 DEF StepKind
<1> QED
  BY <1>1, <1>2, <1>3, <1>4, <1>5, <1>6, <1>7, DataKind DEF Next

\* A transaction carries the generation its controller proposed.
LEMMA ProposedPreserved ==
  ASSUME HistoryInv, [Next]_vars PROVE Proposed'
<1>1. CASE \E c \in Controllers, g \in Generations : prepareGeneration(c, g)
  <2>1. PICK c \in Controllers, g \in Generations : prepareGeneration(c, g)
    BY <1>1
  <2>2. transactions' = transactions \cup {[id |-> Cardinality(transactions) + 1, generation |-> g, by |-> c]}
    BY <2>1 DEF prepareGeneration
  <2> QED BY <2>2 DEF HistoryInv, Proposed, Generations
<1>2. CASE ~\E c \in Controllers, g \in Generations : prepareGeneration(c, g)
  <2>1. CASE Transport \/ Close \/ \E c \in Controllers : disconnectController(c)
    BY <2>1 DEF Transport, newTransportAttachment, AttachTransport, RefuseAfterClose,
       detachTransport, Authenticate, Close, disconnectController, policy, HistoryInv, Proposed, Generations
  <2>2. CASE \E c \in Controllers : Policy(c)
    BY <1>2, <2>2 DEF Policy, commitGeneration, abortGeneration, disableGeneration,
       HistoryInv, Proposed, Generations
  <2>3. CASE \E c \in Controllers : Flow(c)
    BY <2>3 DEF Flow, openFlow, closeFlow, policy, HistoryInv, Proposed, Generations
  <2>4. CASE \E c \in Controllers : Data(c)
    <3>1. \A c, f, now : expireOnUse(c, f, now) => UNCHANGED transactions
      BY DEF expireOnUse, policy
    <3>2. \A c, f, g, n, seq, size, now : acceptDatagram(c, f, g, n, seq, size, now) => UNCHANGED transactions
      BY DEF acceptDatagram, policy
    <3>3. \A c, f, g, n, e, size, now : resolveReply(c, f, g, n, e, size, now) => UNCHANGED transactions
      BY DEF resolveReply, policy
    <3>4. UNCHANGED transactions
      BY <2>4, <3>1, <3>2, <3>3 DEF Data
    <3> QED BY <3>4 DEF HistoryInv, Proposed, Generations
  <2>5. CASE \/ \E b \in BufferSlots : releaseBuffer(b)
             \/ \E now \in ReadClock : reap(now)
             \/ reaperStops \/ Tick \/ UNCHANGED vars
    BY <2>5 DEF releaseBuffer, reap, reaperStops, Tick, vars, policy, HistoryInv, Proposed, Generations
  <2> QED BY <2>1, <2>2, <2>3, <2>4, <2>5 DEF Next
<1> QED BY <1>1, <1>2

\* No two open leases share a nonce, whatever is granted, renewed or dropped.
LEMMA LeasesStayDistinct ==
  ASSUME HistoryInv, TypeOK', StepKind PROVE LeasesDistinct' /\ AcceptedInOrder'
<1>0. /\ flows \in [FlowIDs -> Lease] /\ granted \in Nat /\ accepted \subseteq Nat \X Nat
      /\ \A f \in FlowIDs : /\ flows[f].nonce \in Nat /\ flows[f].openedAt \in Nat
                            /\ flows[f].lastActivity \in Nat /\ flows[f].sequence \in Int
  BY DEF HistoryInv, RegistryInv, TypeOK, Lease
<1> USE DEF HistoryInv, LeasesDistinct, AcceptedInOrder, OpenFlows, IsOpen
<1>1. CASE Evicts
  <2>1. OpenFlows' = {} /\ UNCHANGED <<granted, accepted>>
    BY <1>1 DEF Evicts, evictFlows, NoLease, traffic
  <2> QED BY <2>1
<1>2. CASE Lapses
  <2>1. \A f \in OpenFlows' : f \in OpenFlows /\ flows'[f] = flows[f]
    BY <1>2 DEF Lapses, NoLease
  <2>2. UNCHANGED <<granted, accepted>>
    BY <1>2 DEF Lapses, traffic
  <2> QED BY <2>1, <2>2
<1>3. ASSUME NEW f \in FlowIDs, Grants(f) PROVE LeasesDistinct' /\ AcceptedInOrder'
  <2>1. \A x \in OpenFlows' \ {f} : x \in OpenFlows /\ flows'[x] = flows[x]
    BY <1>3 DEF Grants, NoLease
  <2>2. /\ granted' = granted + 1 /\ accepted' = accepted
        /\ flows'[f].nonce = granted + 1 /\ flows'[f].openedAt = flows'[f].lastActivity
    BY <1>3 DEF Grants, traffic
  <2>3. flows'[f].openedAt <= flows'[f].lastActivity
    BY <2>2 DEF TypeOK, Lease
  <2>4. \A x \in OpenFlows' \ {f} : flows'[x].nonce <= granted
    BY <2>1
  <2>5. LeasesDistinct'
    BY <1>0, <2>1, <2>2, <2>3, <2>4
  <2>6. \A p \in accepted : p[1] <= granted /\ p[1] \in Nat
    BY <1>0
  <2>7. AcceptedInOrder'
    BY <1>0, <2>1, <2>2, <2>6
  <2> QED BY <2>5, <2>7
<1>4. ASSUME NEW f \in FlowIDs, Replies(f) PROVE LeasesDistinct' /\ AcceptedInOrder'
  <2>1. \A x \in OpenFlows' : x \in OpenFlows /\ flows'[x].nonce = flows[x].nonce
                              /\ flows'[x].sequence = flows[x].sequence
                              /\ flows'[x].openedAt = flows[x].openedAt
                              /\ flows'[x].openedAt <= flows'[x].lastActivity
    BY <1>0, <1>4 DEF Replies, Renews
  <2>2. UNCHANGED <<granted, accepted>>
    BY <1>4 DEF Replies, Renews, traffic
  <2> QED BY <2>1, <2>2
<1>5. ASSUME NEW f \in FlowIDs, NEW seq \in Sequences, Accepts(f, seq)
      PROVE  LeasesDistinct' /\ AcceptedInOrder'
  <2>0. seq \in Nat
    BY BoundsAssumption DEF Sequences
  <2>1. \A x \in OpenFlows' : x \in OpenFlows /\ flows'[x].nonce = flows[x].nonce
                              /\ flows'[x].openedAt = flows[x].openedAt
                              /\ flows'[x].openedAt <= flows'[x].lastActivity
                              /\ flows'[x].sequence = IF x = f THEN seq ELSE flows[x].sequence
    BY <1>0, <1>5 DEF Accepts, Renews
  <2>2. granted' = granted /\ accepted' = accepted \cup {<<flows[f].nonce, seq>>}
        /\ f \in OpenFlows /\ seq > flows[f].sequence
    BY <1>5 DEF Accepts, Renews
  <2>3. LeasesDistinct'
    BY <2>1, <2>2
  <2>4. \A p \in accepted' : p[1] <= granted'
    BY <2>2
  <2>5. ASSUME NEW p \in accepted', NEW x \in OpenFlows', flows'[x].nonce = p[1]
        PROVE  p[2] <= flows'[x].sequence
    <3>1. CASE p = <<flows[f].nonce, seq>>
      <4>1. flows[x].nonce = flows[f].nonce /\ x \in OpenFlows
        BY <2>1, <2>5, <3>1
      <4>2. x = f
        BY <2>2, <4>1
      <4> QED BY <2>0, <2>1, <3>1, <4>2
    <3>2. CASE p \in accepted
      <4>1. p[2] <= flows[x].sequence /\ p[2] \in Nat
        BY <1>0, <2>1, <2>5, <3>2
      <4> QED BY <1>0, <2>0, <2>1, <2>2, <4>1
    <3> QED BY <2>2, <3>1, <3>2
  <2> QED BY <2>3, <2>4, <2>5
<1> QED
  BY <1>1, <1>2, <1>3, <1>4, <1>5 DEF StepKind, Withdraws, Installs

\* The statistics and the flow limit keep up with every step.
LEMMA CountsStayExact ==
  ASSUME HistoryInv, TypeOK', StepKind
  PROVE  IsFiniteSet(accepted') /\ AcceptedOnce' /\ FlowLimit'
<1> USE DEF HistoryInv
<1>0. IsFiniteSet(OpenFlows) /\ IsFiniteSet(OpenFlows')
  BY FiniteAssumption, FS_Subset DEF OpenFlows
<1>1. OpenFlows' \subseteq OpenFlows => FlowLimit'
  <2>1. OpenFlows' \subseteq OpenFlows => Cardinality(OpenFlows') <= Cardinality(OpenFlows)
    BY <1>0, FS_Subset
  <2>2. Cardinality(OpenFlows') \in Nat /\ Cardinality(OpenFlows) \in Nat
    BY <1>0, FS_CardinalityType
  <2> QED BY <2>1, <2>2, LimitsAssumption DEF FlowLimit
<1>2. UNCHANGED traffic => IsFiniteSet(accepted') /\ AcceptedOnce'
  BY DEF traffic, AcceptedOnce
<1>3. CASE Evicts
  <2>1. OpenFlows' \subseteq OpenFlows
    BY <1>3 DEF Evicts, evictFlows, NoLease, OpenFlows, IsOpen
  <2> QED BY <1>1, <1>2, <1>3, <2>1 DEF Evicts
<1>4. CASE Lapses
  <2>1. OpenFlows' \subseteq OpenFlows
    BY <1>4 DEF Lapses, NoLease, OpenFlows, IsOpen
  <2> QED BY <1>1, <1>2, <1>4, <2>1 DEF Lapses
<1>5. ASSUME NEW f \in FlowIDs, Grants(f) PROVE IsFiniteSet(accepted') /\ AcceptedOnce' /\ FlowLimit'
  <2> DEFINE rest == OpenFlows' \ {f}
  <2>1. Cardinality(rest) < MaxFlows /\ IsFiniteSet(rest) /\ f \notin rest
    BY <1>0, <1>5, FS_Subset DEF Grants
  <2> HIDE DEF rest
  <2>2. Cardinality(rest \cup {f}) = Cardinality(rest) + 1 /\ IsFiniteSet(rest \cup {f})
    BY <2>1, FS_AddElement
  <2>3. OpenFlows' \subseteq rest \cup {f}
    BY DEF rest
  <2>4. Cardinality(OpenFlows') <= Cardinality(rest) + 1
    BY <2>2, <2>3, FS_Subset
  <2>5. Cardinality(rest) \in Nat /\ Cardinality(OpenFlows') \in Nat
    BY <1>0, <2>1, FS_CardinalityType
  <2>6. FlowLimit'
    BY <2>1, <2>4, <2>5, LimitsAssumption DEF FlowLimit
  <2> QED BY <1>2, <1>5, <2>6 DEF Grants
<1>6. ASSUME NEW f \in FlowIDs, Replies(f) PROVE IsFiniteSet(accepted') /\ AcceptedOnce' /\ FlowLimit'
  <2>1. OpenFlows' \subseteq OpenFlows
    BY <1>6 DEF Replies, Renews, OpenFlows, IsOpen
  <2> QED BY <1>1, <1>2, <1>6, <2>1 DEF Replies
<1>7. ASSUME NEW f \in FlowIDs, NEW seq \in Sequences, Accepts(f, seq)
      PROVE  IsFiniteSet(accepted') /\ AcceptedOnce' /\ FlowLimit'
  <2>1. OpenFlows' \subseteq OpenFlows
    BY <1>7 DEF Accepts, Renews, OpenFlows, IsOpen
  <2>2. f \in OpenFlows /\ seq > flows[f].sequence /\ seq \in Nat /\ flows[f].sequence \in Int
    BY <1>7, BoundsAssumption DEF Accepts, Renews, OpenFlows, Sequences, RegistryInv, TypeOK, Lease
  <2> DEFINE p == <<flows[f].nonce, seq>>
  <2>3. p \notin accepted
    <3>1. p[1] = flows[f].nonce /\ p[2] = seq
      OBVIOUS
    <3>2. p \in accepted => p[2] <= flows[f].sequence
      BY <2>2, <3>1 DEF AcceptedInOrder
    <3> QED BY <2>2, <3>1, <3>2
  <2>4. accepted' = accepted \cup {p} /\ datagramsAccepted' = datagramsAccepted + 1
    BY <1>7 DEF Accepts
  <2> HIDE DEF p
  <2>5. IsFiniteSet(accepted') /\ Cardinality(accepted') = Cardinality(accepted) + 1
    BY <2>3, <2>4, FS_AddElement
  <2> QED BY <1>1, <2>1, <2>4, <2>5 DEF AcceptedOnce
<1> QED
  BY <1>3, <1>4, <1>5, <1>6, <1>7 DEF StepKind, Withdraws, Installs

\* The history invariant holds in every reachable state.
THEOREM HistoryInvariant == Spec => []HistoryInv
<1>1. Init => HistoryInv
  <2> SUFFICES ASSUME Init PROVE HistoryInv
    OBVIOUS
  <2>1. RegistryInv
    BY InitEstablishes
  <2>2. OpenFlows = {} /\ accepted = {} /\ transactions = {} /\ datagramsAccepted = 0
    BY DEF Init, OpenFlows, IsOpen, NoLease
  <2>3. IsFiniteSet({}) /\ Cardinality({}) = 0
    BY FS_EmptySet
  <2> QED
    BY <2>1, <2>2, <2>3, LimitsAssumption DEF HistoryInv, LeasesDistinct, AcceptedInOrder, Proposed,
       AcceptedOnce, FlowLimit
<1>2. HistoryInv /\ [Next]_vars => HistoryInv'
  <2> SUFFICES ASSUME HistoryInv, [Next]_vars PROVE HistoryInv'
    OBVIOUS
  <2>1. RegistryInv' /\ TypeOK'
    BY NextPreserves DEF HistoryInv, RegistryInv
  <2>2. StepKind
    BY NextKind
  <2> QED
    BY <2>1, <2>2, ProposedPreserved, LeasesStayDistinct, CountsStayExact DEF HistoryInv
<1> QED
  BY <1>1, <1>2, PTL DEF Spec

-----------------------------------------------------------------------------
\* A lease that an operation finds overdue has lived for the full TTL: the
\* reading is not ahead of the clock, the recorded activity not behind the grant.
LEMMA OverdueIsOld ==
  ASSUME HistoryInv, NEW f \in OpenFlows, NEW now \in ReadClock, flowExpired(flows[f], now)
  PROVE  clock >= flows[f].openedAt + FlowTTL
<1>1. /\ clock \in Nat /\ flows[f].lastActivity \in Nat /\ flows[f].openedAt \in Nat
      /\ FlowTTL \in Nat /\ MaxDelay \in Nat
  BY LimitsAssumption, BoundsAssumption DEF HistoryInv, RegistryInv, TypeOK, Lease, OpenFlows
<1>2. now \in Int /\ now <= clock
  BY <1>1 DEF ReadClock
<1>3. flows[f].openedAt <= flows[f].lastActivity
  BY DEF HistoryInv, LeasesDistinct
<1> QED
  BY <1>1, <1>2, <1>3 DEF flowExpired

\* A lease that expireFlows removes is overdue.
LEMMA ExpiredIsOverdue ==
  ASSUME NEW f \in OpenFlows, NEW now, expireFlows(now)[f].nonce # flows[f].nonce
  PROVE  flowExpired(flows[f], now)
  BY DEF expireFlows, OpenFlows

\* FlowLease.ExpiresAt is honoured: only its holder, the end of its generation
\* or the full TTL ends a lease.
THEOREM LeasesAreHonoured == Spec => LeaseHonoured
<1> DEFINE Lost(f) == /\ flows'[f].nonce # flows[f].nonce
                      /\ activeGeneration' = activeGeneration
                      /\ ~\E c \in Controllers : closeFlow(c, flows[f].generation, f, flows[f].nonce)
           Honoured == \A f \in OpenFlows : Lost(f) => clock >= flows[f].openedAt + FlowTTL
<1>1. HistoryInv /\ [Next]_vars => [Honoured]_vars
  <2> SUFFICES ASSUME HistoryInv, Next, NEW f \in OpenFlows, Lost(f)
               PROVE  clock >= flows[f].openedAt + FlowTTL
    OBVIOUS
  <2>1. /\ activeGeneration # 0 /\ activeGeneration \in Nat /\ lastGeneration \in Nat
        /\ activeGeneration <= lastGeneration
    BY DEF HistoryInv, RegistryInv, FlowsOfActiveGeneration, ActiveHasController, TypeOK
  <2>2. flows'[f].nonce # flows[f].nonce /\ activeGeneration' = activeGeneration /\ f \in FlowIDs
    BY DEF OpenFlows
  <2>3. flows \in [FlowIDs -> Lease]
    BY DEF HistoryInv, RegistryInv, TypeOK
  <2>4. ~Transport
    BY <2>1, <2>2 DEF Transport, newTransportAttachment, AttachTransport, RefuseAfterClose,
       detachTransport, Authenticate, revokeController, leases
  <2>5. ~Close /\ ~\E c \in Controllers : disconnectController(c)
    BY <2>1, <2>2 DEF Close, disconnectController, revokeController
  <2>6. ~\E c \in Controllers : Policy(c)
    <3> SUFFICES ASSUME NEW c \in Controllers, Policy(c) PROVE FALSE
      OBVIOUS
    <3>1. ASSUME NEW g \in Generations, prepareGeneration(c, g) \/ disableGeneration(c, g) PROVE FALSE
      BY <2>1, <2>2, <3>1 DEF prepareGeneration, disableGeneration, leases
    <3>2. ASSUME NEW t \in transactions, abortGeneration(c, t) PROVE FALSE
      BY <2>2, <3>2 DEF abortGeneration, leases
    <3>3. ASSUME NEW t \in transactions, commitGeneration(c, t) PROVE FALSE
      <4>1. t.generation > lastGeneration
        BY <3>3 DEF commitGeneration, IsPrepared, HistoryInv, RegistryInv, PreparedIsCurrent
      <4>2. t.generation \in Nat
        BY DEF HistoryInv, RegistryInv, TypeOK
      <4> QED BY <2>1, <2>2, <3>3, <4>1, <4>2 DEF commitGeneration
    <3> QED BY <3>1, <3>2, <3>3 DEF Policy
  <2>7. ~(\E b \in BufferSlots : releaseBuffer(b)) /\ ~reaperStops /\ ~Tick
    BY <2>2 DEF releaseBuffer, reaperStops, Tick, leases
  <2>8. ASSUME NEW now \in ReadClock, reap(now) PROVE flowExpired(flows[f], now)
    BY <2>2, <2>8, ExpiredIsOverdue DEF reap
  <2>9. ASSUME NEW c \in Controllers, NEW h \in FlowIDs, NEW now \in ReadClock, expireOnUse(c, h, now)
        PROVE  flowExpired(flows[f], now)
    BY <2>2, <2>3, <2>9 DEF expireOnUse
  <2>10. ASSUME NEW c \in Controllers, NEW h \in FlowIDs, NEW g \in Generations, NEW e \in Endpoints,
                NEW now \in ReadClock, openFlow(c, h, g, e, now)
         PROVE  flowExpired(flows[f], now)
    <3> DEFINE live == expireFlows(now)
    <3>1. live \in [FlowIDs -> Lease]
      BY <2>3, ReadClockType, ExpireFlowsOnlyRemoves DEF HistoryInv, RegistryInv, TypeOK
    <3>2. flows[f].nonce # 0
      BY DEF OpenFlows, IsOpen
    <3>3. CASE live[h] = NoLease /\ flows' = [live EXCEPT ![h] = Grant(g, e, now)]
      <4>1. live[f].nonce # flows[f].nonce
        BY <2>2, <3>1, <3>2, <3>3 DEF NoLease
      <4> QED BY <4>1, ExpiredIsOverdue
    <3>4. CASE flows' = live
      BY <2>2, <3>4, ExpiredIsOverdue
    <3> QED BY <2>10, <3>3, <3>4 DEF openFlow
  <2>11. ~\E c \in Controllers, h \in FlowIDs, g \in Generations, n \in Nonces : closeFlow(c, g, h, n)
    <3> SUFFICES ASSUME NEW c \in Controllers, NEW h \in FlowIDs, NEW g \in Generations, NEW n \in Nonces,
                        closeFlow(c, g, h, n)
                 PROVE  FALSE
      OBVIOUS
    <3>1. flows' = [flows EXCEPT ![h] = NoLease] /\ flows[h].generation = g /\ flows[h].nonce = n
      BY DEF closeFlow
    <3>2. h = f
      BY <2>2, <2>3, <3>1
    <3>3. closeFlow(c, flows[f].generation, f, flows[f].nonce)
      BY <3>1, <3>2
    <3> QED BY <3>3
  <2>12. ~\E c \in Controllers, h \in FlowIDs, now \in ReadClock, g \in Generations, n \in Nonces,
             size \in Sizes :
            \/ \E seq \in Sequences : acceptDatagram(c, h, g, n, seq, size, now)
            \/ \E e \in Endpoints : resolveReply(c, h, g, n, e, size, now)
    <3>1. ASSUME NEW c \in Controllers, NEW h \in FlowIDs, NEW now \in ReadClock, NEW g \in Generations,
                 NEW n \in Nonces, NEW size \in Sizes, NEW seq \in Sequences,
                 acceptDatagram(c, h, g, n, seq, size, now)
          PROVE  FALSE
      <4>1. flows' = [flows EXCEPT ![h] = renew([flows[h] EXCEPT !.sequence = seq], now)]
        BY <3>1 DEF acceptDatagram
      <4>2. flows[h] \in Lease /\ seq \in Nat /\ now \in Nat
        BY <2>3, ReadClockType, BoundsAssumption DEF Sequences, HistoryInv, RegistryInv, TypeOK
      <4> DEFINE numbered == [flows[h] EXCEPT !.sequence = seq]
      <4>3. numbered \in Lease /\ numbered.nonce = flows[h].nonce
        BY <4>2, RenewType, RenewFields
      <4>4. flows' = [flows EXCEPT ![h] = renew(numbered, now)]
        BY <4>1
      <4> HIDE DEF numbered
      <4>5. renew(numbered, now).nonce = flows[h].nonce
        BY <4>2, <4>3, RenewFields
      <4> QED BY <2>2, <2>3, <4>4, <4>5
    <3>2. ASSUME NEW c \in Controllers, NEW h \in FlowIDs, NEW now \in ReadClock, NEW g \in Generations,
                 NEW n \in Nonces, NEW size \in Sizes, NEW e \in Endpoints,
                 resolveReply(c, h, g, n, e, size, now)
          PROVE  FALSE
      <4>1. flows' = [flows EXCEPT ![h] = renew(flows[h], now)]
        BY <3>2 DEF resolveReply
      <4>2. flows[h] \in Lease /\ now \in Nat
        BY <2>3, ReadClockType DEF HistoryInv, RegistryInv, TypeOK
      <4>3. renew(flows[h], now).nonce = flows[h].nonce
        BY <4>2, RenewFields
      <4> QED BY <2>2, <2>3, <4>1, <4>3
    <3> QED BY <3>1, <3>2
  <2>13. \E now \in ReadClock : flowExpired(flows[f], now)
    BY <2>4, <2>5, <2>6, <2>7, <2>8, <2>9, <2>10, <2>11, <2>12 DEF Next, Flow, Data
  <2> QED
    BY <2>13, OverdueIsOld
<1> QED
  BY <1>1, HistoryInvariant, PTL DEF Spec, LeaseHonoured

-----------------------------------------------------------------------------
(* The registry implements LeaseAuthority.                                 *)

\* The lease of f as the authority sees it, and the leases it holds.
Entry(f) == [flow |-> f, lease |-> flows[f].nonce, epoch |-> flows[f].generation]
Held == {Entry(f) : f \in OpenFlows}

\* A step of the registry is a step of the authority, or leaves it alone.
LEMMA StepOfAuthority ==
  ASSUME HistoryInv, StepKind
  PROVE  [Authority!AuthorityNext]_(Authority!authority)
<1>0. \A f \in FlowIDs : Entry(f).flow = f /\ Entry(f).lease = flows[f].nonce /\ Entry(f).epoch = flows[f].generation
  BY DEF Entry
<1>1. ASSUME Withdraws PROVE Authority!Withdraw
  <2>1. OpenFlows' = {}
    BY <1>1 DEF Withdraws, Evicts, evictFlows, NoLease, OpenFlows, IsOpen
  <2> QED
    BY <1>1, <2>1 DEF Withdraws, Evicts, Authority!Withdraw, traffic
<1>2. ASSUME NEW g \in Generations, Installs(g) PROVE Authority!Install(g)
  <2>1. OpenFlows' = {}
    BY <1>2 DEF Installs, Evicts, evictFlows, NoLease, OpenFlows, IsOpen
  <2> QED
    BY <1>2, <2>1 DEF Installs, Evicts, Authority!Install, traffic
<1>3. ASSUME Lapses PROVE Authority!Lapse
  <2>1. \A f \in OpenFlows' : f \in OpenFlows /\ flows'[f] = flows[f]
    BY <1>3 DEF Lapses, NoLease, OpenFlows, IsOpen
  <2>2. Held' \in SUBSET Held
    BY <2>1 DEF Held, Entry
  <2> QED
    BY <1>3, <2>2 DEF Lapses, Authority!Lapse, traffic, Held, Entry
<1>4. ASSUME NEW f \in FlowIDs, Grants(f) PROVE Authority!GrantLease(f)
  <2> DEFINE kept == {Entry(x) : x \in OpenFlows' \ {f}}
             new == [flow |-> f, lease |-> granted + 1, epoch |-> activeGeneration]
  <2>1. \A x \in OpenFlows' \ {f} : x \in OpenFlows /\ flows'[x] = flows[x]
    BY <1>4 DEF Grants, NoLease, OpenFlows, IsOpen
  <2>2. kept \in SUBSET Held
    BY <2>1 DEF Held
  <2>3. \A l \in kept : l.flow # f
    BY DEF Entry
  <2>4. f \in OpenFlows'
    BY <1>4 DEF Grants, OpenFlows, IsOpen, HistoryInv, RegistryInv, TypeOK
  <2>5. Entry(f)' = new
    BY <1>4 DEF Entry, Grants
  <2>6. \A x \in OpenFlows' \ {f} : Entry(x)' = Entry(x)
    BY <2>1 DEF Entry
  <2>7. Held' = kept \cup {new}
    <3>1. Held' = {Entry(x)' : x \in OpenFlows'}
      BY DEF Held
    <3> QED BY <2>4, <2>5, <2>6, <3>1
  <2>8. Held' = {[flow |-> x, lease |-> flows'[x].nonce, epoch |-> flows'[x].generation] : x \in OpenFlows'}
    BY DEF Held, Entry
  <2> HIDE DEF kept
  <2>9. kept \in SUBSET {[flow |-> x, lease |-> flows[x].nonce, epoch |-> flows[x].generation] : x \in OpenFlows}
    BY <2>2 DEF Held, Entry
  <2> QED
    BY <1>4, <2>3, <2>7, <2>8, <2>9 DEF Grants, Authority!GrantLease, traffic
<1>5. ASSUME NEW f \in FlowIDs, Renews(f, flows'[f].sequence) PROVE Held' = Held
  <2>1. OpenFlows' = OpenFlows
    BY <1>5 DEF Renews, OpenFlows, IsOpen
  <2>2. \A x \in OpenFlows : flows'[x].nonce = flows[x].nonce /\ flows'[x].generation = flows[x].generation
    BY <1>5 DEF Renews, OpenFlows
  <2> QED BY <2>1, <2>2 DEF Held, Entry
<1>6. ASSUME NEW f \in FlowIDs, Replies(f) PROVE UNCHANGED Authority!authority
  <2>1. Held' = Held
    BY <1>5, <1>6 DEF Replies, Renews
  <2> QED BY <1>6, <2>1 DEF Replies, Renews, Authority!authority, traffic, Held, Entry
<1>7. ASSUME NEW f \in FlowIDs, NEW seq \in Sequences, Accepts(f, seq)
      PROVE  Entry(f) \in Held /\ Authority!Pass(Entry(f), seq)
  <2>1. Held' = Held
    BY <1>5, <1>7 DEF Accepts, Renews
  <2>2. f \in OpenFlows
    BY <1>7 DEF Accepts, Renews, OpenFlows
  <2>3. Entry(f) \in Held
    BY <2>2 DEF Held
  <2>4. ASSUME NEW p \in accepted, p[1] = Entry(f).lease PROVE p[2] < seq
    <3>1. p[2] <= flows[f].sequence
      BY <1>0, <2>2, <2>4 DEF HistoryInv, AcceptedInOrder
    <3>2. p[2] \in Nat /\ flows[f].sequence \in Int /\ seq \in Int /\ seq > flows[f].sequence
      BY <1>7, BoundsAssumption DEF Accepts, Sequences, HistoryInv, RegistryInv, TypeOK, Lease
    <3> QED BY <3>1, <3>2
  <2>5. /\ accepted' = accepted \cup {<<Entry(f).lease, seq>>}
        /\ UNCHANGED <<activeGeneration, lastGeneration, granted>>
        /\ Entry(f).epoch = activeGeneration
    BY <1>0, <1>7 DEF Accepts, Renews
  <2> DEFINE l == Entry(f)
  <2> HIDE DEF l
  <2>6. l \in Held /\ (\A p \in accepted : p[1] = l.lease => p[2] < seq)
        /\ accepted' = accepted \cup {<<l.lease, seq>>} /\ l.epoch = activeGeneration
    BY <2>3, <2>4, <2>5 DEF l
  <2>7. Authority!Pass(l, seq)
    BY <2>1, <2>5, <2>6 DEF Authority!Pass, Held, Entry
  <2> QED BY <2>3, <2>7 DEF l
<1>8. CASE \E f \in FlowIDs, seq \in Sequences : Accepts(f, seq)
  <2>1. PICK f \in FlowIDs, seq \in Sequences : Accepts(f, seq)
    BY <1>8
  <2>2. PICK l \in Held : Authority!Pass(l, seq)
    BY <1>7, <2>1
  <2>3. l \in {[flow |-> x, lease |-> flows[x].nonce, epoch |-> flows[x].generation] : x \in OpenFlows}
    BY DEF Held, Entry
  <2> QED BY <2>2, <2>3 DEF Authority!AuthorityNext
<1> QED
  BY <1>1, <1>2, <1>3, <1>4, <1>6, <1>8 DEF StepKind, Authority!AuthorityNext

\* Every behaviour of the registry is a behaviour of the abstract authority.
THEOREM RegistryImplementsAuthority == Spec => ImplementsAuthority
<1>1. Init => Authority!AuthorityInit
  <2> SUFFICES ASSUME Init PROVE Authority!AuthorityInit
    OBVIOUS
  <2>1. OpenFlows = {}
    BY DEF Init, OpenFlows, IsOpen, NoLease
  <2> QED BY <2>1 DEF Init, Authority!AuthorityInit
<1>2. HistoryInv /\ [Next]_vars => [Authority!AuthorityNext]_(Authority!authority)
  BY NextKind, StepOfAuthority
<1> QED
  BY <1>1, <1>2, HistoryInvariant, PTL DEF Spec, ImplementsAuthority, Authority!AuthoritySpec

-----------------------------------------------------------------------------
(* The sum of the buffered bytes, by induction on the set of buffers.      *)

\* Ordinary induction, in the form the provers can use: a set that contains 0
\* and the successor of each of its elements contains every natural number.
LEMMA SetInduction ==
  ASSUME NEW Q, 0 \in Q, \A n \in Nat : n \in Q => n + 1 \in Q
  PROVE  Nat \subseteq Q
<1> DEFINE R == OpToRel(<, Nat)
<1>1. \A a, b \in Nat : <<a, b>> \in R <=> a < b
  BY DEF OpToRel
<1>2. IsWellFoundedOn(R, Nat)
  BY NatLessThanWellFounded
<1> HIDE DEF R
<1> SUFFICES ASSUME Nat \ Q # {} PROVE FALSE
  OBVIOUS
<1>3. PICK x \in Nat \ Q : \A y \in Nat \ Q : ~(<<y, x>> \in R)
  BY <1>2, WFMin
<1>4. x \in Nat /\ x \notin Q /\ x # 0
  BY <1>3
<1>5. x - 1 \in Nat /\ x - 1 < x /\ (x - 1) + 1 = x
  BY <1>4
<1>6. x - 1 \in Q
  BY <1>1, <1>3, <1>4, <1>5
<1> QED
  BY <1>4, <1>5, <1>6

\* The bytes of the buffers S, as BufferAccounting sums them.
BytesIn(B, S) == MapThenSumSet(LAMBDA b : B[b].bytes, S)

\* The buffer the sum takes next out of s.
Pick(s) == CHOOSE x \in s : TRUE

\* The sums over all the subsets of S: the function that MapThenSumSet builds.
Tally(B, S) ==
    CHOOSE t : t = [s \in SUBSET S |-> IF s = {} THEN 0 ELSE B[Pick(s)].bytes + t[s \ {Pick(s)}]]

\* BytesIn is the last value of that function.
LEMMA BytesInIsTally ==
  ASSUME NEW B, NEW S PROVE BytesIn(B, S) = Tally(B, S)[S]
BY DEF BytesIn, MapThenSumSet, MapThenFoldSet, Tally, Pick

\* Pick(s) is an element of s, so removing it makes a finite set smaller.
LEMMA PickSmaller ==
  ASSUME NEW s, IsFiniteSet(s), s # {}
  PROVE  /\ Pick(s) \in s
         /\ IsFiniteSet(s \ {Pick(s)})
         /\ Cardinality(s \ {Pick(s)}) = Cardinality(s) - 1
         /\ Cardinality(s) \in Nat \ {0}
<1>1. Pick(s) \in s
  BY DEF Pick
<1>2. Cardinality(s) \in Nat /\ Cardinality(s) # 0
  BY FS_CardinalityType, FS_EmptySet
<1> HIDE DEF Pick
<1> QED
  BY <1>1, <1>2, FS_RemoveElement

\* T satisfies the equations of the recursive definition.
IsTally(B, S, T) ==
    /\ T[{}] = 0
    /\ \A s \in SUBSET S : s # {} => T[s] = B[Pick(s)].bytes + T[s \ {Pick(s)}]

\* The recursive definition has a solution on the subsets of a finite set: a
\* solution on the subsets with n elements extends to those with n + 1.
LEMMA TallyRecursion ==
  ASSUME NEW B, NEW S, IsFiniteSet(S)
  PROVE  IsTally(B, S, Tally(B, S))
<1> DEFINE D(n) == {s \in SUBSET S : Cardinality(s) <= n}
           Step(g, s) == IF s = {} THEN 0 ELSE B[Pick(s)].bytes + g[s \ {Pick(s)}]
           Q == {n \in Nat : \E g : g = [s \in D(n) |-> Step(g, s)]}
<1>1. 0 \in Q
  <2> DEFINE g == [s \in D(0) |-> 0]
  <2>1. \A s \in D(0) : s = {}
    <3>1. \A s \in SUBSET S : IsFiniteSet(s)
      BY FS_Subset
    <3> QED BY <3>1, FS_CardinalityType, FS_EmptySet
  <2>2. g = [s \in D(0) |-> Step(g, s)]
    BY <2>1
  <2> QED BY <2>2
<1>2. ASSUME NEW n \in Nat, n \in Q PROVE n + 1 \in Q
  <2>1. PICK g : g = [s \in D(n) |-> Step(g, s)]
    BY <1>2
  <2> DEFINE h == [s \in D(n + 1) |-> Step(g, s)]
  <2>2. ASSUME NEW s \in D(n + 1), s # {}
        PROVE  s \ {Pick(s)} \in D(n) /\ s \ {Pick(s)} \in D(n + 1)
    <3>1. IsFiniteSet(s)
      BY FS_Subset
    <3>2. Cardinality(s \ {Pick(s)}) = Cardinality(s) - 1 /\ Cardinality(s) \in Nat
      BY <2>2, <3>1, PickSmaller
    <3> QED BY <3>2
  <2>3. \A s \in D(n) : s \in D(n + 1)
    <3>1. \A s \in SUBSET S : IsFiniteSet(s)
      BY FS_Subset
    <3>2. \A s \in SUBSET S : Cardinality(s) \in Nat
      BY <3>1, FS_CardinalityType
    <3> QED BY <3>2
  <2>4. \A s \in D(n) : h[s] = g[s]
    BY <2>1, <2>3
  <2>5. ASSUME NEW s \in D(n + 1) PROVE Step(g, s) = Step(h, s)
    <3>1. CASE s = {}
      BY <3>1
    <3>2. CASE s # {}
      BY <3>2, <2>2, <2>4
    <3> QED BY <3>1, <3>2
  <2>6. h = [s \in D(n + 1) |-> Step(h, s)]
    BY <2>5
  <2> HIDE DEF h
  <2>7. \E k : k = [s \in D(n + 1) |-> Step(k, s)]
    BY <2>6, Zenon
  <2> HIDE DEF D, Step
  <2> QED BY <2>7
<1> HIDE DEF Q
<1>3. Nat \subseteq Q
  BY <1>1, <1>2, SetInduction
<1>4. Cardinality(S) \in Nat
  BY FS_CardinalityType
<1>5. Cardinality(S) \in Q
  BY <1>3, <1>4
<1>6. D(Cardinality(S)) = SUBSET S
  BY FS_Subset
<1>7. PICK g : g = [s \in SUBSET S |-> Step(g, s)]
  BY <1>5, <1>6 DEF Q
<1>8. Tally(B, S) = [s \in SUBSET S |-> Step(Tally(B, S), s)]
  BY <1>7 DEF Tally
<1> HIDE DEF Step
<1>9. \A s \in SUBSET S : Tally(B, S)[s] = Step(Tally(B, S), s)
  BY <1>8
<1> QED
  BY <1>9 DEF Step, IsTally

\* The tally of a set does not depend on the order in which it is taken.
LEMMA TallyRemove ==
  ASSUME NEW B, NEW S, IsFiniteSet(S), \A b \in S : B[b].bytes \in Nat
  PROVE  \A s \in SUBSET S :
           /\ Tally(B, S)[s] \in Nat
           /\ \A x \in s : Tally(B, S)[s] = B[x].bytes + Tally(B, S)[s \ {x}]
<1> DEFINE T == Tally(B, S)
           Good(s) == T[s] \in Nat /\ \A x \in s : T[s] = B[x].bytes + T[s \ {x}]
           Q == {n \in Nat : \A s \in SUBSET S : Cardinality(s) <= n => Good(s)}
<1> HIDE DEF Good, Q, T
<1>0. IsTally(B, S, T)
  BY TallyRecursion DEF T
<1>1. T[{}] = 0 /\ \A s \in SUBSET S : s # {} => T[s] = B[Pick(s)].bytes + T[s \ {Pick(s)}]
  BY <1>0 DEF IsTally
<1> USE DEF Good, Q
<1>2. \A s \in SUBSET S : IsFiniteSet(s) /\ Cardinality(s) \in Nat
  BY FS_Subset, FS_CardinalityType
<1>3. 0 \in Q
  <2>1. \A s \in SUBSET S : Cardinality(s) <= 0 => s = {}
    BY <1>2, FS_EmptySet
  <2>2. Good({})
    BY <1>1
  <2> QED BY <2>1, <2>2
<1>4. ASSUME NEW n \in Nat, n \in Q PROVE n + 1 \in Q
  <2> SUFFICES ASSUME NEW s \in SUBSET S, Cardinality(s) = n + 1 PROVE Good(s)
    <3> HIDE DEF Good
    <3> QED BY <1>2, <1>4
  <2>0. \A r \in SUBSET S : Cardinality(r) <= n => Good(r)
    BY <1>4
  <2> DEFINE y == Pick(s)
  <2>1. s # {}
    BY FS_EmptySet
  <2>2. y \in s /\ Cardinality(s \ {y}) = n
    BY <1>2, <2>1, PickSmaller
  <2>3. Good(s \ {y})
    <3> HIDE DEF Good, y
    <3> QED BY <2>0, <2>2
  <2>4. T[s] = B[y].bytes + T[s \ {y}]
    BY <1>1, <2>1
  <2> HIDE DEF y
  <2>5. T[s] \in Nat
    BY <2>2, <2>3, <2>4
  <2>6. ASSUME NEW x \in s, x # y PROVE T[s] = B[x].bytes + T[s \ {x}]
    <3>1. x \in s \ {y} /\ y \in s \ {x}
      BY <2>2, <2>6
    <3>2. T[(s \ {y}) \ {x}] = T[(s \ {x}) \ {y}]
      <4>1. (s \ {y}) \ {x} = (s \ {x}) \ {y}
        OBVIOUS
      <4> QED BY <4>1
    <3>3. T[s \ {y}] = B[x].bytes + T[(s \ {y}) \ {x}]
      BY <2>3, <3>1
    <3>4. Cardinality(s \ {x}) = n
      BY <1>2, FS_RemoveElement
    <3>5. Good(s \ {x})
      <4> HIDE DEF Good
      <4> QED BY <2>0, <3>4
    <3>6. T[s \ {x}] = B[y].bytes + T[(s \ {x}) \ {y}]
      BY <3>1, <3>5
    <3>7. B[x].bytes \in Nat /\ B[y].bytes \in Nat
      BY <2>2
    <3>8. T[(s \ {y}) \ {x}] \in Nat
      <4>1. Cardinality((s \ {y}) \ {x}) <= Cardinality(s \ {y}) /\ (s \ {y}) \ {x} \in SUBSET S
        BY <1>2, FS_Subset
      <4>2. Cardinality((s \ {y}) \ {x}) <= n
        BY <2>2, <4>1
      <4> QED BY <2>0, <4>1, <4>2
    <3> QED BY <2>4, <3>2, <3>3, <3>6, <3>7, <3>8
  <2> QED BY <2>4, <2>5, <2>6
<1> HIDE DEF Q
<1>5. Nat \subseteq Q
  BY <1>3, <1>4, SetInduction
<1>6. \A s \in SUBSET S : Good(s)
  BY <1>2, <1>5 DEF Q
<1> QED
  BY <1>6 DEF T

\* The tally of a set depends only on the sizes of its members.
LEMMA TallyAgrees ==
  ASSUME NEW B, NEW C, NEW S, NEW U, IsFiniteSet(S), IsFiniteSet(U), S \subseteq U,
         \A b \in S : B[b].bytes = C[b].bytes
  PROVE  Tally(B, S)[S] = Tally(C, U)[S]
<1> DEFINE T == Tally(B, S)
           V == Tally(C, U)
           Q == {n \in Nat : \A s \in SUBSET S : Cardinality(s) <= n => T[s] = V[s]}
<1>1. IsTally(B, S, T) /\ IsTally(C, U, V)
  BY TallyRecursion
<1> HIDE DEF T, V
<1>2. \A s \in SUBSET S : IsFiniteSet(s) /\ Cardinality(s) \in Nat
  BY FS_Subset, FS_CardinalityType
<1>3. 0 \in Q
  <2>1. \A s \in SUBSET S : Cardinality(s) <= 0 => s = {}
    BY <1>2, FS_EmptySet
  <2>2. T[{}] = V[{}]
    BY <1>1 DEF IsTally
  <2> QED BY <2>1, <2>2
<1>4. ASSUME NEW n \in Nat, n \in Q PROVE n + 1 \in Q
  <2>0. \A r \in SUBSET S : Cardinality(r) <= n => T[r] = V[r]
    BY <1>4
  <2> SUFFICES ASSUME NEW s \in SUBSET S, Cardinality(s) = n + 1 PROVE T[s] = V[s]
    BY <1>2, <2>0
  <2>1. s # {}
    <3>1. Cardinality({}) = 0
      BY FS_EmptySet
    <3> QED BY <3>1
  <2>2. Pick(s) \in s /\ Cardinality(s \ {Pick(s)}) = n
    BY <1>2, <2>1, PickSmaller
  <2>3. T[s \ {Pick(s)}] = V[s \ {Pick(s)}]
    BY <2>0, <2>2
  <2>4. T[s] = B[Pick(s)].bytes + T[s \ {Pick(s)}]
    BY <1>1, <2>1 DEF IsTally
  <2>5. V[s] = C[Pick(s)].bytes + V[s \ {Pick(s)}]
    <3>1. s \in SUBSET U
      OBVIOUS
    <3> QED BY <1>1, <2>1, <3>1 DEF IsTally
  <2>6. B[Pick(s)].bytes = C[Pick(s)].bytes
    BY <2>2
  <2> QED BY <2>3, <2>4, <2>5, <2>6
<1> HIDE DEF Q
<1>5. Nat \subseteq Q
  BY <1>3, <1>4, SetInduction
<1>6. T[S] = V[S]
  BY <1>2, <1>5 DEF Q
<1> QED BY <1>6 DEF T, V

\* The members of S have the same sizes in B and in C.
SameBytes(B, C, S) == \A b \in S : B[b].bytes = C[b].bytes /\ B[b].bytes \in Nat

\* The bytes of x come on top of those of S.
AddsBytes(B, C, S, x) ==
    /\ BytesIn(B, S) \in Nat
    /\ BytesIn(C, S \cup {x}) = C[x].bytes + BytesIn(B, S)

\* One more buffer adds its bytes to the sum.
LEMMA BytesInAdd ==
  ASSUME NEW B, NEW C, NEW S, NEW x, IsFiniteSet(S), x \notin S, C[x].bytes \in Nat,
         SameBytes(B, C, S)
  PROVE  AddsBytes(B, C, S, x)
<1> DEFINE U == S \cup {x}
<1>1. IsFiniteSet(U) /\ S \subseteq U /\ x \in U /\ U \ {x} = S
  BY FS_AddElement
<1>2. \A b \in U : C[b].bytes \in Nat
  BY DEF SameBytes
<1> HIDE DEF U
<1>3. Tally(B, S)[S] = Tally(C, U)[S]
  BY <1>1, TallyAgrees DEF SameBytes
<1>4. Tally(C, U)[U] = C[x].bytes + Tally(C, U)[U \ {x}]
  BY <1>1, <1>2, TallyRemove
<1>5. Tally(B, S)[S] \in Nat
  BY TallyRemove DEF SameBytes
<1> QED
  BY <1>1, <1>3, <1>4, <1>5, BytesInIsTally DEF U, AddsBytes

\* No buffer, no bytes.
LEMMA BytesInNone == ASSUME NEW B PROVE BytesIn(B, {}) = 0
<1>1. IsTally(B, {}, Tally(B, {}))
  BY FS_EmptySet, TallyRecursion
<1> QED
  BY <1>1, BytesInIsTally DEF IsTally

-----------------------------------------------------------------------------
\* The live buffers of one direction.
Mine(d) == {b \in LiveBuffers : buffers[b].direction = d}

\* The budget agrees with the live buffers, each of which holds some bytes.
BudgetExact ==
    /\ panicked = FALSE
    /\ \A b \in LiveBuffers : buffers[b].bytes > 0
    /\ budget.bytes = BytesIn(buffers, LiveBuffers)
    /\ budget.objects = Cardinality(LiveBuffers)
    /\ budget.metadata = MetaSize * Cardinality(LiveBuffers)
    /\ \A d \in Directions : /\ budget.objectsBy[d] = Cardinality(Mine(d))
                             /\ budget.metadataBy[d] = MetaSize * Cardinality(Mine(d))

\* The live buffers, and those of each direction, are finite in number.
LEMMA LiveFinite ==
  /\ IsFiniteSet(LiveBuffers) /\ Cardinality(LiveBuffers) \in Nat
  /\ \A d \in Directions : IsFiniteSet(Mine(d)) /\ Cardinality(Mine(d)) \in Nat
<1>1. LiveBuffers \subseteq BufferSlots /\ \A d \in Directions : Mine(d) \subseteq BufferSlots
  BY DEF LiveBuffers, Mine
<1>2. IsFiniteSet(LiveBuffers) /\ \A d \in Directions : IsFiniteSet(Mine(d))
  BY <1>1, FiniteAssumption, FS_Subset
<1> QED BY <1>2, FS_CardinalityType

\* A number of metadata records grows and shrinks by one record at a time.
LEMMA MetaStep ==
  ASSUME NEW n \in Nat
  PROVE  /\ MetaSize * (n + 1) = MetaSize * n + MetaSize
         /\ MetaSize * n \in Nat
         /\ MetaSize \in Nat
  BY LimitsAssumption

\* Reserving a buffer keeps the budget exact.
LEMMA ReserveKeepsExact ==
  ASSUME TypeOK, BudgetExact, NEW d \in Directions, NEW size \in Sizes, reserveBuffer(d, size)
  PROVE  BudgetExact'
<1>0. PICK r \in Nat : r = Reservation(size)
  BY ReservationType
<1>1. r > 0
  BY <1>0, LimitsAssumption DEF Reservation
<1>2. PICK b \in BufferSlots :
        /\ ~buffers[b].live
        /\ buffers' = [buffers EXCEPT ![b] = [direction |-> d, bytes |-> r, live |-> TRUE]]
        /\ budget' = [bytes      |-> budget.bytes + r,
                      objects    |-> budget.objects + 1,
                      metadata   |-> budget.metadata + MetaSize,
                      objectsBy  |-> [budget.objectsBy EXCEPT ![d] = @ + 1],
                      metadataBy |-> [budget.metadataBy EXCEPT ![d] = @ + MetaSize]]
        /\ UNCHANGED panicked
  BY <1>0 DEF reserveBuffer
<1>3. /\ buffers'[b] = [direction |-> d, bytes |-> r, live |-> TRUE]
      /\ \A x \in BufferSlots \ {b} : buffers'[x] = buffers[x]
  BY <1>2 DEF TypeOK
<1>4. buffers'[b].direction = d /\ buffers'[b].bytes = r /\ buffers'[b].live
  BY <1>3
<1>5. b \notin LiveBuffers /\ LiveBuffers' = LiveBuffers \cup {b}
  BY <1>2, <1>3, <1>4 DEF LiveBuffers
<1>6. \A x \in LiveBuffers : buffers'[x] = buffers[x] /\ buffers[x].bytes \in Nat
  BY <1>3, <1>5 DEF LiveBuffers, TypeOK
<1>7. Mine(d)' = Mine(d) \cup {b} /\ b \notin Mine(d)
  BY <1>4, <1>5, <1>6 DEF Mine
<1>8. \A e \in Directions \ {d} : Mine(e)' = Mine(e)
  BY <1>4, <1>5, <1>6 DEF Mine
<1>9. Cardinality(LiveBuffers') = Cardinality(LiveBuffers) + 1
  BY <1>5, LiveFinite, FS_AddElement
<1>10. Cardinality(Mine(d)') = Cardinality(Mine(d)) + 1
  BY <1>7, LiveFinite, FS_AddElement
<1>11. BytesIn(buffers', LiveBuffers') = r + BytesIn(buffers, LiveBuffers) /\ BytesIn(buffers, LiveBuffers) \in Nat
  <2>1. /\ BytesIn(buffers, LiveBuffers) \in Nat
        /\ BytesIn(buffers', LiveBuffers \cup {b}) = buffers'[b].bytes + BytesIn(buffers, LiveBuffers)
    <3>1. SameBytes(buffers, buffers', LiveBuffers) /\ buffers'[b].bytes \in Nat
      BY <1>4, <1>6 DEF SameBytes
    <3>2. AddsBytes(buffers, buffers', LiveBuffers, b)
      BY <1>5, <3>1, LiveFinite, BytesInAdd
    <3> QED BY <3>2 DEF AddsBytes
  <2> QED BY <1>4, <1>5, <2>1
<1>12. /\ budget'.bytes = budget.bytes + r /\ budget'.objects = budget.objects + 1
       /\ budget'.metadata = budget.metadata + MetaSize
       /\ budget'.objectsBy[d] = budget.objectsBy[d] + 1
       /\ budget'.metadataBy[d] = budget.metadataBy[d] + MetaSize
       /\ \A e \in Directions \ {d} : /\ budget'.objectsBy[e] = budget.objectsBy[e]
                                      /\ budget'.metadataBy[e] = budget.metadataBy[e]
  BY <1>2 DEF TypeOK
<1>13. \A x \in LiveBuffers' : buffers'[x].bytes > 0
  BY <1>1, <1>4, <1>5, <1>6 DEF BudgetExact
<1>14. /\ budget'.bytes = BytesIn(buffers', LiveBuffers')
       /\ budget'.objects = Cardinality(LiveBuffers')
       /\ panicked' = FALSE
  BY <1>2, <1>9, <1>11, <1>12 DEF BudgetExact
<1>15. budget'.metadata = MetaSize * Cardinality(LiveBuffers')
  BY <1>9, <1>12, LiveFinite, MetaStep DEF BudgetExact
<1>16. ASSUME NEW e \in Directions
       PROVE  budget'.objectsBy[e] = Cardinality(Mine(e)') /\ budget'.metadataBy[e] = MetaSize * Cardinality(Mine(e)')
  <2>1. CASE e = d
    BY <1>10, <1>12, <2>1, LiveFinite, MetaStep DEF BudgetExact
  <2>2. CASE e # d
    BY <1>8, <1>12, <2>2 DEF BudgetExact
  <2> QED BY <2>1, <2>2
<1> QED
  BY <1>13, <1>14, <1>15, <1>16 DEF BudgetExact

\* Releasing a live buffer finds the accounting consistent and keeps it exact.
LEMMA ReleaseKeepsExact ==
  ASSUME TypeOK, BudgetExact, NEW b \in BufferSlots, releaseBuffer(b)
  PROVE  BudgetExact'
<1>0. PICK d \in Directions, r \in Nat : d = buffers[b].direction /\ r = buffers[b].bytes
  BY DEF TypeOK
<1>1. b \in LiveBuffers /\ buffers' = [buffers EXCEPT ![b].live = FALSE]
  BY DEF releaseBuffer, releaseOnce, LiveBuffers
<1>2. /\ ~buffers'[b].live /\ buffers'[b].bytes = r
      /\ \A x \in BufferSlots \ {b} : buffers'[x] = buffers[x]
  BY <1>0, <1>1 DEF TypeOK
<1>3. b \notin LiveBuffers' /\ LiveBuffers = LiveBuffers' \cup {b}
  BY <1>1, <1>2 DEF LiveBuffers
<1>4. \A x \in LiveBuffers' : buffers'[x] = buffers[x] /\ buffers'[x].bytes \in Nat
  BY <1>2, <1>3 DEF LiveBuffers, TypeOK
<1>5. Mine(d) = Mine(d)' \cup {b} /\ b \notin Mine(d)'
  BY <1>0, <1>3, <1>4 DEF Mine
<1>6. \A e \in Directions \ {d} : Mine(e)' = Mine(e)
  BY <1>0, <1>3, <1>4 DEF Mine
<1>7. /\ IsFiniteSet(LiveBuffers') /\ Cardinality(LiveBuffers') \in Nat
      /\ IsFiniteSet(Mine(d)') /\ Cardinality(Mine(d)') \in Nat
  <2>1. LiveBuffers' \subseteq BufferSlots /\ Mine(d)' \subseteq BufferSlots
    BY DEF LiveBuffers, Mine
  <2>2. IsFiniteSet(LiveBuffers') /\ IsFiniteSet(Mine(d)')
    BY <2>1, FiniteAssumption, FS_Subset
  <2> QED BY <2>2, FS_CardinalityType
<1>8. Cardinality(LiveBuffers) = Cardinality(LiveBuffers') + 1
  BY <1>3, <1>7, FS_AddElement
<1>9. Cardinality(Mine(d)) = Cardinality(Mine(d)') + 1
  BY <1>5, <1>7, FS_AddElement
<1>10. BytesIn(buffers, LiveBuffers) = r + BytesIn(buffers', LiveBuffers') /\ BytesIn(buffers', LiveBuffers') \in Nat
  <2>1. /\ BytesIn(buffers', LiveBuffers') \in Nat
        /\ BytesIn(buffers, LiveBuffers' \cup {b}) = buffers[b].bytes + BytesIn(buffers', LiveBuffers')
    <3>1. SameBytes(buffers', buffers, LiveBuffers') /\ buffers[b].bytes \in Nat
      BY <1>0, <1>4 DEF SameBytes
    <3>2. AddsBytes(buffers', buffers, LiveBuffers', b)
      BY <1>3, <1>7, <3>1, BytesInAdd
    <3> QED BY <3>2 DEF AddsBytes
  <2> QED BY <1>0, <1>3, <2>1
<1>11. r > 0
  BY <1>0, <1>1 DEF BudgetExact
<1>12. /\ budget.bytes >= r /\ budget.objects > 0 /\ budget.metadata >= MetaSize
       /\ budget.objectsBy[d] > 0 /\ budget.metadataBy[d] >= MetaSize
  <2>1. budget.bytes >= r
    BY <1>10 DEF BudgetExact
  <2>2. budget.objects > 0 /\ budget.objectsBy[d] > 0
    BY <1>7, <1>8, <1>9 DEF BudgetExact
  <2>3. budget.metadata >= MetaSize
    <3>1. /\ MetaSize * (Cardinality(LiveBuffers') + 1) = MetaSize * Cardinality(LiveBuffers') + MetaSize
          /\ MetaSize * Cardinality(LiveBuffers') \in Nat /\ MetaSize \in Nat
      BY <1>7, MetaStep
    <3>2. budget.metadata = MetaSize * (Cardinality(LiveBuffers') + 1)
      BY <1>8 DEF BudgetExact
    <3> QED BY <3>1, <3>2
  <2>4. budget.metadataBy[d] >= MetaSize
    <3>1. /\ MetaSize * (Cardinality(Mine(d)') + 1) = MetaSize * Cardinality(Mine(d)') + MetaSize
          /\ MetaSize * Cardinality(Mine(d)') \in Nat /\ MetaSize \in Nat
      BY <1>7, MetaStep
    <3>2. budget.metadataBy[d] = MetaSize * (Cardinality(Mine(d)') + 1)
      BY <1>9 DEF BudgetExact
    <3> QED BY <3>1, <3>2
  <2> QED BY <2>1, <2>2, <2>3, <2>4
<1>13. ~Underflow(b)
  BY <1>0, <1>11, <1>12, LimitsAssumption DEF Underflow, TypeOK
<1>14. /\ budget' = [bytes      |-> budget.bytes - r,
                     objects    |-> budget.objects - 1,
                     metadata   |-> budget.metadata - MetaSize,
                     objectsBy  |-> [budget.objectsBy EXCEPT ![d] = @ - 1],
                     metadataBy |-> [budget.metadataBy EXCEPT ![d] = @ - MetaSize]]
       /\ UNCHANGED panicked
  BY <1>0, <1>13 DEF releaseBuffer
<1>15. /\ budget'.bytes = budget.bytes - r /\ budget'.objects = budget.objects - 1
       /\ budget'.metadata = budget.metadata - MetaSize
       /\ budget'.objectsBy[d] = budget.objectsBy[d] - 1
       /\ budget'.metadataBy[d] = budget.metadataBy[d] - MetaSize
       /\ \A e \in Directions \ {d} : /\ budget'.objectsBy[e] = budget.objectsBy[e]
                                      /\ budget'.metadataBy[e] = budget.metadataBy[e]
  BY <1>14 DEF TypeOK
<1>16. \A x \in LiveBuffers' : buffers'[x].bytes > 0
  BY <1>3, <1>4 DEF BudgetExact
<1>17. /\ budget'.bytes = BytesIn(buffers', LiveBuffers')
       /\ budget'.objects = Cardinality(LiveBuffers')
       /\ panicked' = FALSE
  BY <1>7, <1>8, <1>10, <1>14, <1>15 DEF BudgetExact
<1>18. budget'.metadata = MetaSize * Cardinality(LiveBuffers')
  BY <1>7, <1>8, <1>15, MetaStep DEF BudgetExact
<1>19. ASSUME NEW e \in Directions
       PROVE  budget'.objectsBy[e] = Cardinality(Mine(e)') /\ budget'.metadataBy[e] = MetaSize * Cardinality(Mine(e)')
  <2>1. CASE e = d
    <3>1. /\ MetaSize * (Cardinality(Mine(d)') + 1) = MetaSize * Cardinality(Mine(d)') + MetaSize
          /\ MetaSize * Cardinality(Mine(d)') \in Nat /\ MetaSize \in Nat
      BY <1>7, MetaStep
    <3>2. /\ budget.metadataBy[d] = MetaSize * (Cardinality(Mine(d)') + 1)
          /\ budget.objectsBy[d] = Cardinality(Mine(d)') + 1
      BY <1>9 DEF BudgetExact
    <3>3. /\ budget'.objectsBy[d] = Cardinality(Mine(d)')
          /\ budget'.metadataBy[d] = MetaSize * Cardinality(Mine(d)')
      BY <1>7, <1>15, <3>1, <3>2
    <3> QED BY <2>1, <3>3
  <2>2. CASE e # d
    BY <1>6, <1>15, <2>2 DEF BudgetExact
  <2> QED BY <2>1, <2>2
<1> QED
  BY <1>16, <1>17, <1>18, <1>19 DEF BudgetExact

\* Only reserveBuffer and releaseBuffer touch the buffers and the budget.
LEMMA BudgetStaysExact ==
  ASSUME TypeOK, BudgetExact, [Next]_vars PROVE BudgetExact'
<1>0. UNCHANGED memory => BudgetExact'
  BY DEF memory, BudgetExact, LiveBuffers, Mine
<1>1. CASE Transport \/ Close \/ \E c \in Controllers : disconnectController(c)
  <2>1. UNCHANGED memory
    BY <1>1 DEF Transport, newTransportAttachment, AttachTransport, RefuseAfterClose,
       detachTransport, Authenticate, Close, disconnectController
  <2> QED BY <1>0, <2>1
<1>2. CASE \E c \in Controllers : Policy(c) \/ Flow(c)
  <2>1. UNCHANGED memory
    BY <1>2 DEF Policy, prepareGeneration, commitGeneration, abortGeneration, disableGeneration,
       Flow, openFlow, closeFlow
  <2> QED BY <1>0, <2>1
<1>3. ASSUME NEW c \in Controllers, Data(c) PROVE BudgetExact'
  <2>1. \A f, now : expireOnUse(c, f, now) => UNCHANGED memory
    BY DEF expireOnUse
  <2>2. \A f, g, n, seq, size, now : acceptDatagram(c, f, g, n, seq, size, now) => reserveBuffer("accepted", size)
    BY DEF acceptDatagram
  <2>3. \A f, g, n, e, size, now : resolveReply(c, f, g, n, e, size, now) => reserveBuffer("delivery", size)
    BY DEF resolveReply
  <2>4. "accepted" \in Directions /\ "delivery" \in Directions
    BY DEF Directions
  <2>5. UNCHANGED memory \/ \E d \in Directions, size \in Sizes : reserveBuffer(d, size)
    BY <1>3, <2>1, <2>2, <2>3, <2>4 DEF Data
  <2> QED BY <1>0, <2>5, ReserveKeepsExact
<1>4. CASE \E b \in BufferSlots : releaseBuffer(b)
  BY <1>4, ReleaseKeepsExact
<1>5. CASE (\E now \in ReadClock : reap(now)) \/ reaperStops \/ Tick \/ UNCHANGED vars
  <2>1. UNCHANGED memory
    BY <1>5 DEF reap, reaperStops, Tick, vars
  <2> QED BY <1>0, <2>1
<1> QED
  BY <1>1, <1>2, <1>3, <1>4, <1>5 DEF Next

\* The counters of the registry are exact in every reachable state.
THEOREM CountersAreExact == Spec => []CountersExact
<1>1. Init => BudgetExact
  <2> SUFFICES ASSUME Init PROVE BudgetExact
    OBVIOUS
  <2>1. LiveBuffers = {} /\ \A d \in Directions : Mine(d) = {}
    BY DEF Init, LiveBuffers, Mine
  <2>2. /\ budget.bytes = 0 /\ budget.objects = 0 /\ budget.metadata = 0
        /\ \A d \in Directions : budget.objectsBy[d] = 0 /\ budget.metadataBy[d] = 0
    BY DEF Init, EmptyBudget
  <2>3. Cardinality({}) = 0 /\ MetaSize * 0 = 0
    BY FS_EmptySet, LimitsAssumption
  <2>4. BytesIn(buffers, LiveBuffers) = 0
    BY <2>1, BytesInNone
  <2> QED BY <2>1, <2>2, <2>3, <2>4 DEF Init, BudgetExact
<1>2. TypeOK /\ BudgetExact /\ [Next]_vars => BudgetExact'
  BY BudgetStaysExact
<1>3. Spec => []BudgetExact
  BY <1>1, <1>2, TypeCorrect, PTL DEF Spec
<1>4. HistoryInv /\ BudgetExact => CountersExact
  <2> SUFFICES ASSUME HistoryInv, BudgetExact PROVE CountersExact
    OBVIOUS
  <2>1. budget.bytes = MapThenSumSet(LAMBDA b : buffers[b].bytes, LiveBuffers)
    BY DEF BudgetExact, BytesIn
  <2>2. BufferAccounting
    BY <2>1 DEF BudgetExact, BufferAccounting, Mine
  <2> QED BY <2>2 DEF HistoryInv, CountersExact
<1> QED
  BY <1>3, <1>4, HistoryInvariant, PTL
=============================================================================
