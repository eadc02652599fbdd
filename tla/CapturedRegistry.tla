-------------------------- MODULE CapturedRegistry --------------------------
(***************************************************************************)
(* The captured-UDP registry of internal/capturedudp/registry.go: the      *)
(* trust boundary between a privileged capture helper and Tachyon Core.    *)
(*                                                                         *)
(* A platform transport is attached at most once, receives a one-use       *)
(* token, and trades it for the sole controller capability.  The           *)
(* controller installs policy generations in two phases (prepare, then     *)
(* commit or abort), opens flow leases under the active generation, and    *)
(* moves datagrams in both directions under a bounded buffer budget.       *)
(*                                                                         *)
(* Every method of the code runs under Registry.mu, so each is one action. *)
(* What is not atomic is the clock: openFlow, acceptDatagram, resolveReply *)
(* and the reaper read r.now() BEFORE they take the lock, so an operation  *)
(* may use a reading that is up to MaxDelay ticks old (ReadClock).         *)
(* An operation refused by a rate limit, by a failing random source or by  *)
(* a check leaves this state alone and is a stuttering step, except where  *)
(* the refusal comes after leases were expired: those cases are actions.   *)
(***************************************************************************)
EXTENDS Integers, FiniteSets, FiniteSetsExt

CONSTANTS
    Attachments,        \* transport attachments that are ever created
    Controllers,        \* random controller ids that are ever drawn
    FlowIDs,            \* non-zero flow ids chosen by the controller
    Endpoints,          \* valid (family, local, remote) triples of a FlowSpec
    BufferSlots,        \* buffer lease objects in the hands of callers
    Nobody,             \* the all-zero controller id and the nil attachment
    MaxGeneration,      \* bound: generations proposed by controllers
    MaxTransactions,    \* bound: transactions ever prepared
    MaxNonce,           \* bound: flow leases ever granted
    MaxSequence,        \* bound: datagram sequence numbers
    MaxClock,           \* bound: clock ticks
    MaxDelay,           \* bound: age of a clock reading when it is used
    Sizes,              \* payload sizes callers offer
    MaxFlows,           \* Limits.MaxFlows
    FlowTTL,            \* Limits.FlowTTL
    MaxDatagramSize,    \* Limits.MaxDatagramSize
    PayloadLimit(_),    \* tgp.MaxCapturedUDPV2Payload for an endpoint pair
    MaxBufferedBytes,   \* Limits.MaxBufferedBytes
    MinReservation,     \* MinPayloadReservation
    MaxObjects,         \* HardMaxOutstandingObjects
    MaxObjectsPerDir,   \* HardMaxObjectsPerDirection
    MaxMetadata,        \* HardMaxOutstandingMetadata
    MaxMetadataPerDir,  \* HardMaxMetadataPerDirection
    MetaSize            \* outstandingObjectMetaSize

ASSUME NobodyAssumption == Nobody \notin Attachments \cup Controllers

ASSUME BoundsAssumption ==
    /\ MaxGeneration \in Nat /\ MaxTransactions \in Nat /\ MaxNonce \in Nat
    /\ MaxSequence \in Nat /\ MaxClock \in Nat /\ MaxDelay \in Nat

\* Limits.normalized accepts only such limits.
ASSUME LimitsAssumption ==
    /\ Sizes \subseteq Nat
    /\ MaxFlows \in Nat \ {0} /\ FlowTTL \in Nat \ {0}
    /\ MaxDatagramSize \in Nat /\ MinReservation \in Nat \ {0}
    /\ MaxBufferedBytes \in Nat
    /\ MaxBufferedBytes >= MaxDatagramSize /\ MaxBufferedBytes >= MinReservation
    /\ MaxObjects \in Nat /\ MaxObjectsPerDir \in Nat
    /\ MaxMetadata \in Nat /\ MaxMetadataPerDir \in Nat /\ MetaSize \in Nat \ {0}

ASSUME FiniteAssumption == IsFiniteSet(FlowIDs) /\ IsFiniteSet(BufferSlots)

VARIABLES
    clock,              \* real time, read by r.now()
    closed,             \* Registry.closed
    reaper,             \* reapLoop: "running", or "done" once r.done is closed
    attachState,        \* TransportAttachment.state ("none": not yet created)
    peerVerified,       \* TransportAttachment.peerVerified
    attachment,         \* Registry.attachment
    token,              \* Registry.token: the attachment it was issued to, while tokenIssued
    controller,         \* Registry.controller while controllerAlive
    controllerOf,       \* Controller.attachment of every capability handed out
    prepared,           \* Registry.prepared
    transactions,       \* Transaction values handed out, with who got them
    activeGeneration,
    lastGeneration,
    flows,              \* Registry.flows
    granted,            \* number of lease nonces drawn
    accepted,           \* (nonce, sequence) of the datagrams passed on
    datagramsAccepted,  \* stats.DatagramsAccepted
    buffers,            \* bufferLease objects
    budget,             \* the five outstanding counters
    panicked            \* releaseBuffer found its accounting inconsistent

lifecycle == <<closed, reaper, attachState, peerVerified, attachment, token,
               controller, controllerOf>>
policy    == <<prepared, transactions, activeGeneration, lastGeneration>>
leases    == <<flows, granted>>
traffic   == <<accepted, datagramsAccepted>>
memory    == <<buffers, budget, panicked>>
vars      == <<clock, lifecycle, policy, leases, traffic, memory>>

Directions == {"accepted", "delivery"}

NoTransaction == [id |-> 0, generation |-> 0]

\* A nil entry of the flows map.  No granted lease has the zero nonce
\* (readRandom refuses an all-zero value), nor generation 0.
NoSequence == -1
NoLease == [generation |-> 0, nonce |-> 0, endpoint |-> Nobody,
            sequence |-> NoSequence, lastActivity |-> 0, openedAt |-> 0]

EmptyBudget == [bytes |-> 0, objects |-> 0, metadata |-> 0,
                objectsBy  |-> [d \in Directions |-> 0],
                metadataBy |-> [d \in Directions |-> 0]]

Init ==
    /\ clock = 0
    /\ closed = FALSE
    /\ reaper = "running"
    /\ attachState = [a \in Attachments |-> "none"]
    /\ peerVerified = [a \in Attachments |-> FALSE]
    /\ attachment = Nobody
    /\ token = Nobody
    /\ controller = Nobody
    /\ controllerOf = [c \in Controllers |-> Nobody]
    /\ prepared = NoTransaction
    /\ transactions = {}
    /\ activeGeneration = 0
    /\ lastGeneration = 0
    /\ flows = [f \in FlowIDs |-> NoLease]
    /\ granted = 0
    /\ accepted = {}
    /\ datagramsAccepted = 0
    /\ buffers = [b \in BufferSlots |-> [direction |-> "accepted", bytes |-> 0, live |-> FALSE]]
    /\ budget = EmptyBudget
    /\ panicked = FALSE

-----------------------------------------------------------------------------
(* Helpers that run with the lock held.                                    *)

IsOpen(f) == flows[f].nonce # 0
OpenFlows == {f \in FlowIDs : IsOpen(f)}

\* The readings r.now() can have returned to an operation that holds the lock now.
ReadClock == {t \in (clock - MaxDelay)..clock : t >= 0}

requireController(c) == ~closed /\ controller = c

\* Fault: an off-by-one in the comparison with the TTL.
flowExpired_Early(lease, now) == now - lease.lastActivity >= FlowTTL - 1

flowExpired(lease, now) == now - lease.lastActivity >= FlowTTL

expireFlows(now) ==
    [f \in FlowIDs |-> IF flowExpired(flows[f], now) THEN NoLease ELSE flows[f]]

\* Fault: eviction leaves the most recent lease in the table.
evictFlows_SparesNewest ==
    [f \in FlowIDs |-> IF flows[f].nonce = granted THEN flows[f] ELSE NoLease]

evictFlows == [f \in FlowIDs |-> NoLease]

\* destroyAttachmentLocked clears the attachment's id and verification as well.
destroyAttachment(a, state) ==
    /\ attachState' = [attachState EXCEPT ![a] = state]
    /\ peerVerified' = [peerVerified EXCEPT ![a] = FALSE]

\* Fault: the prepared transaction outlives its controller.
revokeController_KeepsPrepared ==
    /\ token' = Nobody /\ controller' = Nobody
    /\ activeGeneration' = 0
    /\ flows' = evictFlows
    /\ UNCHANGED prepared

\* lastGeneration survives: a later controller cannot reuse a generation.
revokeController ==
    /\ token' = Nobody
    /\ controller' = Nobody
    /\ prepared' = NoTransaction
    /\ activeGeneration' = 0
    /\ flows' = evictFlows

Reservation(size) == IF size > MinReservation THEN size ELSE MinReservation

bytesAvailable(size) == budget.bytes <= MaxBufferedBytes - Reservation(size)

canReserve(d, size) ==
    /\ bytesAvailable(size)
    /\ budget.objects < MaxObjects
    /\ budget.objectsBy[d] < MaxObjectsPerDir
    /\ budget.metadata <= MaxMetadata - MetaSize
    /\ budget.metadataBy[d] <= MaxMetadataPerDir - MetaSize

\* Hands the caller a buffer lease; a slot whose lease was released may be reused.
reserveBuffer(d, size) ==
    \E b \in BufferSlots :
        /\ ~buffers[b].live
        /\ buffers' = [buffers EXCEPT ![b] =
                          [direction |-> d, bytes |-> Reservation(size), live |-> TRUE]]
        /\ budget' = [bytes      |-> budget.bytes + Reservation(size),
                      objects    |-> budget.objects + 1,
                      metadata   |-> budget.metadata + MetaSize,
                      objectsBy  |-> [budget.objectsBy EXCEPT ![d] = @ + 1],
                      metadataBy |-> [budget.metadataBy EXCEPT ![d] = @ + MetaSize]]
        /\ UNCHANGED panicked

-----------------------------------------------------------------------------
(* Transport attachments and the controller capability.                    *)

newTransportAttachment(a, verified) ==
    /\ ~closed
    /\ attachState[a] = "none"
    /\ attachState' = [attachState EXCEPT ![a] = "new"]
    /\ peerVerified' = [peerVerified EXCEPT ![a] = verified]
    /\ UNCHANGED <<clock, closed, reaper, attachment, token, controller, controllerOf,
                   policy, leases, traffic, memory>>

mayAttach(a) ==
    /\ ~closed
    /\ attachState[a] = "new"
    /\ peerVerified[a]
    /\ attachment = Nobody
    /\ controller = Nobody

AttachTransport(a) ==
    /\ mayAttach(a)
    /\ attachState' = [attachState EXCEPT ![a] = "attached"]
    /\ attachment' = a
    /\ token' = a
    /\ UNCHANGED <<clock, closed, reaper, peerVerified, controller, controllerOf,
                   policy, leases, traffic, memory>>

\* Attaching or detaching a new attachment of a closed registry destroys it.
RefuseAfterClose(a) ==
    /\ closed
    /\ attachState[a] = "new"
    /\ destroyAttachment(a, "closed")
    /\ UNCHANGED <<clock, closed, reaper, attachment, token, controller, controllerOf,
                   policy, leases, traffic, memory>>

detachTransport(a) ==
    /\ ~closed
    /\ attachState[a] = "attached"
    /\ attachment = a
    /\ revokeController
    /\ attachment' = Nobody
    /\ destroyAttachment(a, "detached")
    /\ UNCHANGED <<clock, closed, reaper, controllerOf, transactions, lastGeneration,
                   granted, traffic, memory>>

\* Fault: the token stays valid.
consumeToken_Keeps == UNCHANGED token

consumeToken == token' = Nobody

\* t is the token the caller presents; tokens of earlier attachments included.
Authenticate(a, t, c) ==
    /\ ~closed
    /\ attachment = a
    /\ attachState[a] = "attached"
    /\ peerVerified[a]
    /\ controller = Nobody
    /\ token # Nobody /\ token = t
    /\ controllerOf[c] = Nobody
    /\ consumeToken
    /\ controller' = c
    /\ controllerOf' = [controllerOf EXCEPT ![c] = a]
    /\ UNCHANGED <<clock, closed, reaper, attachState, peerVerified, attachment,
                   policy, leases, traffic, memory>>

\* Controller.Close; a second call, or one after a revocation, changes nothing.
disconnectController(c) ==
    LET a == controllerOf[c] IN
    /\ ~closed
    /\ controller = c
    /\ a # Nobody /\ attachment = a /\ attachState[a] = "attached"
    /\ revokeController
    /\ attachment' = Nobody
    /\ destroyAttachment(a, "detached")
    /\ UNCHANGED <<clock, closed, reaper, controllerOf, transactions, lastGeneration,
                   granted, traffic, memory>>

Close ==
    /\ ~closed
    /\ closed' = TRUE
    /\ revokeController
    /\ IF attachment = Nobody THEN UNCHANGED <<attachState, peerVerified>>
                              ELSE destroyAttachment(attachment, "closed")
    /\ attachment' = Nobody
    /\ UNCHANGED <<clock, reaper, controllerOf, transactions, lastGeneration,
                   granted, traffic, memory>>

-----------------------------------------------------------------------------
(* Policy generations: prepare, then commit or abort; disable.             *)

supersedes(g) == g > lastGeneration /\ g # activeGeneration

prepareGeneration(c, g) ==
    /\ requireController(c)
    /\ g # 0
    /\ prepared = NoTransaction
    /\ supersedes(g)
    /\ LET id == Cardinality(transactions) + 1 IN
        /\ id <= MaxTransactions
        /\ prepared' = [id |-> id, generation |-> g]
        /\ transactions' = transactions \cup {[id |-> id, generation |-> g, by |-> c]}
    /\ UNCHANGED <<clock, lifecycle, activeGeneration, lastGeneration, leases, traffic, memory>>

IsPrepared(t) == prepared # NoTransaction /\ prepared.id = t.id /\ prepared.generation = t.generation

commitGeneration(c, t) ==
    /\ requireController(c)
    /\ IsPrepared(t)
    /\ flows' = evictFlows
    /\ activeGeneration' = t.generation
    /\ lastGeneration' = t.generation
    /\ prepared' = NoTransaction
    /\ UNCHANGED <<clock, lifecycle, transactions, granted, traffic, memory>>

abortGeneration(c, t) ==
    /\ requireController(c)
    /\ IsPrepared(t)
    /\ prepared' = NoTransaction
    /\ UNCHANGED <<clock, lifecycle, transactions, activeGeneration, lastGeneration,
                   leases, traffic, memory>>

disableGeneration(c, g) ==
    /\ requireController(c)
    /\ g # 0 /\ g = activeGeneration
    /\ prepared' = NoTransaction
    /\ flows' = evictFlows
    /\ activeGeneration' = 0
    /\ UNCHANGED <<clock, lifecycle, transactions, lastGeneration, granted, traffic, memory>>

-----------------------------------------------------------------------------
(* Flow leases.                                                            *)

Grant(g, e, now) ==
    [generation |-> g, nonce |-> granted + 1, endpoint |-> e,
     sequence |-> NoSequence, lastActivity |-> now, openedAt |-> now]

hasRoom(table) == Cardinality({x \in FlowIDs : table[x].nonce # 0}) < MaxFlows

\* Expired leases go first, so they neither block their id nor count as open.
openFlow(c, f, g, e, now) ==
    LET live == expireFlows(now) IN
    /\ requireController(c)
    /\ g # 0
    /\ \/ /\ g = activeGeneration
          /\ live[f] = NoLease
          /\ hasRoom(live)
          /\ granted < MaxNonce
          /\ granted' = granted + 1
          /\ flows' = [live EXCEPT ![f] = Grant(g, e, now)]
       \/ \* refused after the expiry
          /\ flows' = live /\ live # flows
          /\ UNCHANGED granted
    /\ UNCHANGED <<clock, lifecycle, policy, traffic, memory>>

closeFlow(c, g, f, n) ==
    /\ requireController(c)
    /\ g = activeGeneration
    /\ IsOpen(f)
    /\ flows[f].generation = g /\ flows[f].nonce = n
    /\ flows' = [flows EXCEPT ![f] = NoLease]
    /\ UNCHANGED <<clock, lifecycle, policy, granted, traffic, memory>>

\* A data call in either direction that finds its lease overdue drops it.
expireOnUse(c, f, now) ==
    /\ requireController(c)
    /\ IsOpen(f)
    /\ flowExpired(flows[f], now)
    /\ flows' = [flows EXCEPT ![f] = NoLease]
    /\ UNCHANGED <<clock, lifecycle, policy, granted, traffic, memory>>

\* now may be older than the activity the lease already records.
renew(lease, now) == [lease EXCEPT !.lastActivity = now]

\* Only who was granted the lease knows its nonce, so its clock reading is
\* no older than the one openFlow used.
holdsLease(f, g, n, now) ==
    /\ IsOpen(f)
    /\ now >= flows[f].openedAt
    /\ ~flowExpired(flows[f], now)
    /\ g = activeGeneration
    /\ flows[f].generation = g /\ flows[f].nonce = n

isNewSequence(lease, seq) == lease.sequence = NoSequence \/ seq > lease.sequence

acceptDatagram(c, f, g, n, seq, size, now) ==
    /\ requireController(c)
    /\ size <= MaxDatagramSize
    /\ holdsLease(f, g, n, now)
    /\ size <= PayloadLimit(flows[f].endpoint)
    /\ isNewSequence(flows[f], seq)
    /\ canReserve("accepted", size)
    /\ reserveBuffer("accepted", size)
    /\ flows' = [flows EXCEPT ![f] = renew([flows[f] EXCEPT !.sequence = seq], now)]
    /\ accepted' = accepted \cup {<<n, seq>>}
    /\ datagramsAccepted' = datagramsAccepted + 1
    /\ UNCHANGED <<clock, lifecycle, policy, granted>>

\* e is the endpoint pair the reply carries.
resolveReply(c, f, g, n, e, size, now) ==
    /\ requireController(c)
    /\ size <= MaxDatagramSize
    /\ size <= PayloadLimit(e)
    /\ holdsLease(f, g, n, now)
    /\ flows[f].endpoint = e
    /\ canReserve("delivery", size)
    /\ reserveBuffer("delivery", size)
    /\ flows' = [flows EXCEPT ![f] = renew(flows[f], now)]
    /\ UNCHANGED <<clock, lifecycle, policy, granted, traffic>>

\* Fault: a second Release returns the reservation again.
releaseOnce_Twice(lease) == lease.bytes # 0

releaseOnce(lease) == lease.live

\* AcceptedDatagram.Release and Delivery.Release: sync.Once makes every call
\* after the first a no-op; the registry may be closed by then.
Underflow(b) ==
    LET l == buffers[b] IN
    \/ l.bytes <= 0 \/ budget.bytes < l.bytes
    \/ budget.objects <= 0 \/ budget.metadata < MetaSize
    \/ budget.objectsBy[l.direction] <= 0 \/ budget.metadataBy[l.direction] < MetaSize

releaseBuffer(b) ==
    LET l == buffers[b] IN
    /\ releaseOnce(l)
    /\ buffers' = [buffers EXCEPT ![b].live = FALSE]
    /\ IF Underflow(b)
       THEN panicked' = TRUE /\ UNCHANGED budget
       ELSE /\ budget' = [bytes      |-> budget.bytes - l.bytes,
                          objects    |-> budget.objects - 1,
                          metadata   |-> budget.metadata - MetaSize,
                          objectsBy  |-> [budget.objectsBy EXCEPT ![l.direction] = @ - 1],
                          metadataBy |-> [budget.metadataBy EXCEPT ![l.direction] = @ - MetaSize]]
            /\ UNCHANGED panicked
    /\ UNCHANGED <<clock, lifecycle, policy, leases, traffic>>

-----------------------------------------------------------------------------
(* The reaper goroutine and time.                                          *)

\* With both channels ready select may still pick the ticker after Close.
reap(now) ==
    /\ reaper = "running"
    /\ flows' = expireFlows(now)
    /\ UNCHANGED <<clock, lifecycle, policy, granted, traffic, memory>>

reaperStops ==
    /\ closed
    /\ reaper = "running"
    /\ reaper' = "done"
    /\ UNCHANGED <<clock, closed, attachState, peerVerified, attachment, token, controller,
                   controllerOf, policy, leases, traffic, memory>>

Tick ==
    /\ clock < MaxClock
    /\ clock' = clock + 1
    /\ UNCHANGED <<lifecycle, policy, leases, traffic, memory>>

-----------------------------------------------------------------------------
Generations == 0..MaxGeneration
Nonces      == 1..MaxNonce
Sequences   == 0..MaxSequence

Transport ==
    \E a \in Attachments :
        \/ \E v \in BOOLEAN : newTransportAttachment(a, v)
        \/ AttachTransport(a)
        \/ RefuseAfterClose(a)
        \/ detachTransport(a)
        \/ \E t \in Attachments, c \in Controllers : Authenticate(a, t, c)

Policy(c) ==
    \/ \E g \in Generations : prepareGeneration(c, g) \/ disableGeneration(c, g)
    \/ \E t \in transactions : commitGeneration(c, t) \/ abortGeneration(c, t)

Flow(c) ==
    \E f \in FlowIDs, g \in Generations :
        \/ \E e \in Endpoints, now \in ReadClock : openFlow(c, f, g, e, now)
        \/ \E n \in Nonces : closeFlow(c, g, f, n)

Data(c) ==
    \E f \in FlowIDs, now \in ReadClock :
        \/ expireOnUse(c, f, now)
        \/ \E g \in Generations, n \in Nonces, size \in Sizes :
              \/ \E seq \in Sequences : acceptDatagram(c, f, g, n, seq, size, now)
              \/ \E e \in Endpoints : resolveReply(c, f, g, n, e, size, now)

Next ==
    \/ Transport
    \/ \E c \in Controllers : disconnectController(c) \/ Policy(c) \/ Flow(c) \/ Data(c)
    \/ \E b \in BufferSlots : releaseBuffer(b)
    \/ \E now \in ReadClock : reap(now)
    \/ reaperStops
    \/ Close
    \/ Tick

Spec == Init /\ [][Next]_vars
-----------------------------------------------------------------------------
(* Properties.                                                             *)

Lease == [generation : Nat, nonce : Nat, endpoint : Endpoints \cup {Nobody},
          sequence : Int, lastActivity : Nat, openedAt : Nat]

\* Every variable holds values of its Go type; the buffered bytes stay within
\* Limits.MaxBufferedBytes.
TypeOK ==
    /\ clock \in Nat
    /\ closed \in BOOLEAN /\ panicked \in BOOLEAN
    /\ reaper \in {"running", "done"}
    /\ attachState \in [Attachments -> {"none", "new", "attached", "detached", "closed"}]
    /\ peerVerified \in [Attachments -> BOOLEAN]
    /\ attachment \in Attachments \cup {Nobody}
    /\ token \in Attachments \cup {Nobody}
    /\ controller \in Controllers \cup {Nobody}
    /\ controllerOf \in [Controllers -> Attachments \cup {Nobody}]
    /\ prepared \in [id : Nat, generation : Nat]
    /\ transactions \subseteq [id : Nat, generation : Nat, by : Controllers]
    /\ activeGeneration \in Nat /\ lastGeneration \in Nat
    /\ flows \in [FlowIDs -> Lease]
    /\ granted \in Nat
    /\ accepted \subseteq Nat \X Nat
    /\ datagramsAccepted \in Nat
    /\ buffers \in [BufferSlots -> [direction : Directions, bytes : Nat, live : BOOLEAN]]
    /\ budget \in [bytes : 0..MaxBufferedBytes, objects : Nat, metadata : Nat,
                   objectsBy : [Directions -> Nat], metadataBy : [Directions -> Nat]]

\* The flow table never holds more than Limits.MaxFlows leases, although an
\* openFlow expires and replaces leases in the same call.
FlowLimit == Cardinality(OpenFlows) <= MaxFlows

\* The controller capability is alive only while the verified transport it was
\* created for is attached; its token is spent, and no other capability was
\* ever created for that transport (Authenticate, revokeControllerLocked and
\* destroyAttachmentLocked keep these fields consistent).
AuthorityBound ==
    /\ \A a \in Attachments : attachState[a] = "attached" <=> attachment = a
    /\ attachment # Nobody => peerVerified[attachment]
    /\ token # Nobody => token = attachment
    /\ controller # Nobody =>
          /\ attachment # Nobody
          /\ controllerOf[controller] = attachment
          /\ token = Nobody
    /\ \A c, d \in Controllers :
          controllerOf[c] = controllerOf[d] /\ controllerOf[c] # Nobody => c = d

\* A closed registry has no transport, no token, no controller and so never
\* reports Ready again, whatever calls were queued on its lock when it closed.
ClosedRevokesAll ==
    closed => /\ attachment = Nobody /\ token = Nobody /\ controller = Nobody
              /\ activeGeneration = 0

\* Every lease in the flow table belongs to the generation in force: a policy
\* commit, disable, disconnect, detach or Close leaves no lease behind, and no
\* interleaving opens one under another generation.
FlowsOfActiveGeneration ==
    \A f \in OpenFlows :
        /\ flows[f].generation = activeGeneration
        /\ activeGeneration # 0
        /\ controller # Nobody

\* The prepared transaction was handed to the controller that is alive now, and
\* its generation is newer than any that was ever in force: a transaction
\* prepared before a disconnect cannot be committed by the next controller.
PreparedIsCurrent ==
    prepared # NoTransaction =>
        /\ controller # Nobody
        /\ prepared.generation > lastGeneration
        /\ \E t \in transactions : /\ t.id = prepared.id
                                   /\ t.generation = prepared.generation
                                   /\ t.by = controller

\* A generation comes into force at most once over the registry's whole life,
\* disconnects and new transports included: each commit installs a newer one.
GenerationsIncrease ==
    [][/\ lastGeneration' >= lastGeneration
       /\ activeGeneration' \notin {0, activeGeneration} =>
             activeGeneration' > lastGeneration]_vars

\* No captured datagram is passed on twice under one lease: the statistics
\* count as many datagrams as there are distinct (lease nonce, sequence) pairs.
AcceptedOnce == datagramsAccepted = Cardinality(accepted)

\* FlowLease.ExpiresAt is honoured: a lease that disappears while its
\* generation stays in force and that its holder did not close has lived for
\* the full TTL, although operations use clock readings taken before the lock.
LeaseHonoured ==
    [][\A f \in OpenFlows :
          (/\ flows'[f].nonce # flows[f].nonce
           /\ activeGeneration' = activeGeneration
           /\ ~\E c \in Controllers : closeFlow(c, flows[f].generation, f, flows[f].nonce))
          => clock >= flows[f].openedAt + FlowTTL]_vars

LiveBuffers == {b \in BufferSlots : buffers[b].live}

\* The five counters of the buffer budget agree with the buffer leases that
\* callers have not released yet, across disconnects and Close, so that
\* releaseBuffer never reaches its accounting-underflow panic.
BufferAccounting ==
    /\ ~panicked
    /\ budget.bytes = MapThenSumSet(LAMBDA b : buffers[b].bytes, LiveBuffers)
    /\ budget.objects = Cardinality(LiveBuffers)
    /\ budget.metadata = MetaSize * Cardinality(LiveBuffers)
    /\ \A d \in Directions :
          LET mine == {b \in LiveBuffers : buffers[b].direction = d} IN
          /\ budget.objectsBy[d] = Cardinality(mine)
          /\ budget.metadataBy[d] = MetaSize * Cardinality(mine)

\* The registry implements the abstract authority: epochs are the committed
\* generations, held leases are the entries of the flow table.
Authority == INSTANCE LeaseAuthority WITH
    Flows <- FlowIDs, Epochs <- Generations, SequenceNumbers <- Sequences,
    epoch <- activeGeneration, lastEpoch <- lastGeneration,
    grants <- granted, passed <- accepted,
    held <- {[flow |-> f, lease |-> flows[f].nonce, epoch |-> flows[f].generation] : f \in OpenFlows}

\* Every behaviour of the registry is a behaviour of the abstract authority.
ImplementsAuthority == Authority!AuthoritySpec

\* The registry's counts are exact: the buffer budget agrees with the buffers in
\* the hands of callers, the statistics count every captured datagram once, and
\* the flow table stays within its limit.
CountersExact == BufferAccounting /\ AcceptedOnce /\ FlowLimit
=============================================================================
