---------------------------- MODULE FECSession ----------------------------
(***************************************************************************)
(* Forward error correction between the two ends of a TGP session: the     *)
(* sender's FEC groups (internal/tgp/session.go), the datagram network,    *)
(* the packet-number window and the receive buffer (internal/tgp/fec.go).  *)
(* One direction is modelled; what the sending end receives on the other   *)
(* direction only drives its parity controller (internal/tgp/              *)
(* fec_adaptive.go) and is an input here.                                  *)
(*                                                                         *)
(* nextFECShards and expiredFECRepairBatches run under fecMu, the packets  *)
(* they prepare are written after it is released (outbox): the calls of    *)
(* SendPacket and the flush loop interleave packet by packet.  The network *)
(* loses, duplicates, delays and reorders.  The receive loop is one        *)
(* goroutine, so accepting a packet is one action.                         *)
(*                                                                         *)
(* A payload is its number; a parity shard carries the whole word it was   *)
(* computed from, which is what Reed-Solomon decoding recovers from any    *)
(* DataShards shards of one encoding.  The stream channel behind a delivery*)
(* only ever drops and is left out, as are the statistics.                 *)
(***************************************************************************)
EXTENDS Integers, Sequences, FiniteSets, FiniteSetsExt, SequencesExt

CONSTANTS
    Streams,            \* stream ids in use
    DataShards,         \* FECOptions.DataShards
    InitialParity,      \* FECOptions.ParityShards
    MaxParityShards,    \* MaxFECParityShards
    Dynamic,            \* FECOptions.Dynamic
    AdaptWindow,        \* FECOptions.AdaptWindow
    GroupTimeout,       \* FECOptions.GroupTimeout; 0 disables the flush loop
    Sizes,              \* payload sizes callers offer
    Prefix,             \* fecLengthPrefixSize
    MaxShardSize,       \* maxTGPDataPayloadSize
    Window,             \* defaultDedupWindow
    MaxGroups,          \* FECReceiveBuffer.maxGroups
    MaxCompleted,       \* MaxFECCompletedGroups
    MaxBufferedBytes,   \* FECReceiveBuffer.maxBufferedBytes
    GroupLifetime,      \* fecReceiveGroupLifetime
    MaxAge,             \* environment: age of a group when its last packet arrives
    MaxPayloads,        \* bound: payloads ever offered
    MaxClock            \* bound: clock ticks; no group is opened too late to expire

ASSUME OptionsAssumption ==
    /\ DataShards \in Nat \ {0} /\ InitialParity \in Nat \ {0}
    /\ MaxParityShards \in Nat \ {0} /\ InitialParity <= MaxParityShards
    /\ Dynamic \in BOOLEAN /\ AdaptWindow \in Nat \ {0}
    /\ GroupTimeout \in Nat /\ Prefix \in Nat \ {0}
    /\ Sizes \subseteq Nat /\ MaxShardSize \in Nat

ASSUME LimitsAssumption ==
    /\ Window \in Nat \ {0} /\ MaxGroups \in Nat \ {0} /\ MaxCompleted \in Nat \ {0}
    /\ MaxBufferedBytes \in Nat /\ GroupLifetime \in Nat \ {0}
    /\ MaxAge \in Nat /\ MaxPayloads \in Nat /\ MaxClock \in Nat

VARIABLES
    clock,
    parity,             \* s.fec.ParityShards of the sending end
    adapt,              \* FECAdaptiveController: delivered and recovered so far
    fecGroup,           \* s.fecGroup: last group id used
    tx,                 \* s.fecTx: the open group of each stream
    outbox,             \* packets prepared by calls that are still writing
    packetNo,           \* s.packetNo
    offered,            \* number of payloads given to SendPacket
    refused,            \* payloads for which nextFECShards returned an error
    network,            \* datagrams sent that can still arrive
    dedup,              \* packetDedupWindow
    rx,                 \* FECReceiveBuffer
    deliveries          \* how often each content was handed to the stream

sender   == <<parity, adapt, fecGroup, tx, outbox, packetNo, offered, refused>>
receiver == <<dedup, rx, deliveries>>
vars     == <<clock, sender, network, receiver>>

\* Decoded contents other than payload numbers: a synthetic shard of a group
\* that was flushed, and what decoding shards of different encodings yields.
Empty   == 0
Garbage == -1
Contents == Garbage..MaxPayloads

NoSendGroup == [id |-> 0, createdAt |-> 0, payloads |-> <<>>]

NoShard == [size |-> 0, content |-> Empty, word |-> <<>>, total |-> 0]

EmptyBuffer == [groups |-> {}, completed |-> <<>>, bytes |-> 0]

Init ==
    /\ clock = 0
    /\ parity = InitialParity
    /\ adapt = [delivered |-> 0, recovered |-> 0]
    /\ fecGroup = 0
    /\ tx = [s \in Streams |-> NoSendGroup]
    /\ outbox = {}
    /\ packetNo = 0
    /\ offered = 0
    /\ refused = {}
    /\ network = {}
    /\ dedup = [highest |-> 0, seen |-> {}]
    /\ rx = EmptyBuffer
    /\ deliveries = [c \in Contents |-> 0]

-----------------------------------------------------------------------------
(* Sending end.                                                            *)

frameFits(payload) == payload.size + Prefix <= MaxShardSize

\* What Encode computes for a group: data shards beyond the payloads are
\* empty frames; every encoded shard has the size of the longest one.
Word(payloads) ==
    [i \in 1..DataShards |-> IF i <= Len(payloads) THEN payloads[i].number ELSE Empty]
EncodedSize(payloads) == Prefix + Max({payloads[i].size : i \in DOMAIN payloads})

\* Fault: a payload too long for a frame is truncated instead of refused.
CanEncode_Anything(payloads) == TRUE

CanEncode(payloads) == \A i \in DOMAIN payloads : frameFits(payloads[i])

\* A data shard leaves unpadded and without FlagFEC.
DataShard(group, index, payload) ==
    [group |-> group.id, index |-> index, total |-> DataShards + parity, fec |-> FALSE,
     born |-> group.createdAt, size |-> payload.size + Prefix, content |-> payload.number, word |-> <<>>]

\* Synthetic data shards (index < DataShards) and parity shards carry FlagFEC.
RepairShard(group, index) ==
    [group |-> group.id, index |-> index, total |-> DataShards + parity, fec |-> TRUE,
     born |-> group.createdAt, size |-> EncodedSize(group.payloads), content |-> Empty,
     word |-> IF index < DataShards THEN <<>> ELSE Word(group.payloads)]

\* The repair shards of a group, in the order they are written.
Repairs(group, first) ==
    [k \in 1..(DataShards + parity - first) |-> RepairShard(group, first + k - 1)]

currentGroup(s) ==
    IF tx[s] = NoSendGroup \/ Len(tx[s].payloads) >= DataShards
    THEN [id |-> fecGroup + 1, createdAt |-> clock, payloads |-> <<>>]
    ELSE tx[s]

\* nextFECShards appends the payload before it frames or encodes it: a refused
\* payload stays in the group.
SendPacket(s, size) ==
    LET payload == [number |-> offered + 1, size |-> size]
        before  == currentGroup(s)
        group   == [before EXCEPT !.payloads = Append(@, payload)]
        full    == Len(group.payloads) = DataShards
        data    == DataShard(group, Len(before.payloads), payload)
    IN
    /\ offered < MaxPayloads /\ clock + GroupTimeout <= MaxClock
    /\ offered' = offered + 1
    /\ fecGroup' = IF before.id > fecGroup THEN before.id ELSE fecGroup
    /\ \/ /\ ~frameFits(payload) \/ (full /\ ~CanEncode(group.payloads))
          /\ refused' = refused \cup {payload}
          /\ tx' = [tx EXCEPT ![s] = group]
          /\ UNCHANGED outbox
       \/ /\ frameFits(payload)
          /\ ~full
          /\ tx' = [tx EXCEPT ![s] = group]
          /\ outbox' = outbox \cup {<<data>>}
          /\ UNCHANGED refused
       \/ /\ full /\ CanEncode(group.payloads)
          /\ tx' = [tx EXCEPT ![s] = NoSendGroup]
          /\ outbox' = outbox \cup {<<data>> \o Repairs(group, DataShards)}
          /\ UNCHANGED refused
    /\ UNCHANGED <<clock, parity, adapt, packetNo, network, receiver>>

\* Fault: the age of a group is not tested against the timeout.
flushable_Never(s) == FALSE

flushable(s) ==
    /\ GroupTimeout > 0
    /\ Len(tx[s].payloads) \in 1..(DataShards - 1)
    /\ clock - tx[s].createdAt >= GroupTimeout
    /\ CanEncode(tx[s].payloads)

\* One tick of fecFlushLoop: every expired group leaves fecTx and its repair
\* shards are written by the loop.
fecFlush ==
    LET expired == {s \in Streams : flushable(s)} IN
    /\ expired # {}
    /\ tx' = [s \in Streams |-> IF s \in expired THEN NoSendGroup ELSE tx[s]]
    /\ outbox' = outbox \cup {Repairs(tx[s], Len(tx[s].payloads)) : s \in expired}
    /\ UNCHANGED <<clock, parity, adapt, fecGroup, packetNo, offered, refused, network, receiver>>

\* A datagram may arrive any number of times, in any order, or never, but not
\* after its group is older than MaxAge.
Deliverable(packet, now) == now - packet.shard.born <= MaxAge

\* What a call writes next, under the number it takes.
transmit(calls) ==
    LET packet == [no |-> packetNo + 1, shard |-> Head(calls)] IN
    /\ packetNo' = packetNo + 1
    /\ network' = network \cup {p \in {packet} : Deliverable(p, clock)}

\* sendWirePayload numbers, seals and writes the next packet of a call.
sendWirePayload(calls) ==
    /\ calls \in outbox
    /\ transmit(calls)
    /\ outbox' = (outbox \ {calls}) \cup (IF Len(calls) > 1 THEN {Tail(calls)} ELSE {})
    /\ UNCHANGED <<clock, parity, adapt, fecGroup, tx, offered, refused, receiver>>

\* The pacer, the codec or the transport fail: the call returns the error and what is
\* left of it is never written.  A failing pacer takes no packet number; Seal and the
\* transport fail after one was taken, and a transport that gave up waiting may still
\* send the packet (one that it does not send is a datagram that never arrives).  The
\* payload is in its group since nextFECShards, or in the group's parity, and stays.
sendFails(calls) ==
    /\ calls \in outbox
    /\ outbox' = outbox \ {calls}
    /\ UNCHANGED <<packetNo, network>> \/ transmit(calls)
    /\ UNCHANGED <<clock, parity, adapt, fecGroup, tx, offered, refused, receiver>>

maxParity == IF DataShards > MaxParityShards THEN MaxParityShards ELSE DataShards

clampInt(value, low, high) == IF value < low THEN low ELSE IF value > high THEN high ELSE value

parityForLoss(delivered, recovered) ==
    CASE 10 * recovered >= delivered -> maxParity
      [] 10 * recovered < delivered /\ 100 * recovered >= 3 * delivered ->
            clampInt((DataShards + 1) \div 2, 1, maxParity)
      [] OTHER -> clampInt((DataShards + 3) \div 4, 1, maxParity)

\* The sending end's own receive loop delivered d payloads, r of them recovered.
observeFECDelivery(d, r) ==
    LET total == [delivered |-> adapt.delivered + d, recovered |-> adapt.recovered + r] IN
    /\ Dynamic
    /\ IF total.delivered < AdaptWindow
       THEN adapt' = total /\ UNCHANGED parity
       ELSE /\ adapt' = [delivered |-> 0, recovered |-> 0]
            /\ parity' = parityForLoss(total.delivered, total.recovered)
    /\ UNCHANGED <<clock, fecGroup, tx, outbox, packetNo, offered, refused, network, receiver>>

-----------------------------------------------------------------------------
(* Receiving end.                                                          *)

SeenFirst(n) == dedup.highest - n < Window /\ n \notin dedup.seen

Remember(n) ==
    LET highest == IF n > dedup.highest THEN n ELSE dedup.highest
        oldest  == IF highest >= Window THEN highest - Window + 1 ELSE 0
    IN [highest |-> highest,
        seen |-> {x \in dedup.seen : n <= dedup.highest \/ x >= oldest} \cup {n}]

Bytes(group) == SumFunction([i \in DOMAIN group.shards |-> group.shards[i].size])

\* What a set of groups retains.
Retained(groups) == SumFunction([g \in groups |-> Bytes(g)])

Present(group) == {i \in DOMAIN group.shards : group.shards[i] # NoShard}

\* Fault: expired groups leave the map but not the byte count.
releaseGroupShards_Leaks(bytes, released) == bytes

\* Shards that Reconstruct padded or filled in were never added to the count,
\* hence the clamp.
releaseGroupShards(bytes, released) ==
    LET left == bytes - Retained(released) IN IF left < 0 THEN 0 ELSE left

\* Tombstones are popped from the oldest on, up to the first that has not expired.
unexpired(completed) ==
    LET expired(k) == clock - completed[k].at >= GroupLifetime
        first == CHOOSE k \in 1..(Len(completed) + 1) :
                     /\ k <= Len(completed) => ~expired(k)
                     /\ \A j \in 1..(k - 1) : expired(j)
    IN SubSeq(completed, first, Len(completed))

purgeExpiredGroups(b) ==
    LET expired == {g \in b.groups : clock - g.receivedAt >= GroupLifetime} IN
    [groups    |-> b.groups \ expired,
     bytes     |-> releaseGroupShards(b.bytes, expired),
     completed |-> unexpired(b.completed)]

\* Fault: no tombstone is left for a completed group.
rememberCompletedGroup_Forgets(completed, id) == completed

\* The oldest tombstone makes room when the table is full.
rememberCompletedGroup(completed, id) ==
    Append(IF Len(completed) >= MaxCompleted THEN Tail(completed) ELSE completed,
           [id |-> id, at |-> clock])

IsCompleted(b, id) == \E k \in DOMAIN b.completed : b.completed[k].id = id
GroupsOf(b, id) == {g \in b.groups : g.id = id}

newGroup(p) ==
    [id |-> p.group, receivedAt |-> clock, delivered |-> {},
     shards |-> [i \in 0..(p.total - 1) |-> NoShard]]

group(b, p) == IF GroupsOf(b, p.group) = {} THEN newGroup(p)
                                             ELSE CHOOSE g \in b.groups : g.id = p.group

canOpenGroup(b, p) == GroupsOf(b, p.group) # {} \/ Cardinality(b.groups) < MaxGroups

\* Fault: a shard is filed without comparing its group's geometry.
sameMetadata_Unchecked(g, p) == p.index < Cardinality(DOMAIN g.shards)

sameMetadata(g, p) == Cardinality(DOMAIN g.shards) = p.total

Put(b, g) == [b EXCEPT !.groups = (@ \ GroupsOf(b, g.id)) \cup {g}]

Stored(g, p) == [g EXCEPT !.shards[p.index] =
                    [size |-> p.size, content |-> p.content, word |-> p.word, total |-> p.total]]

hasEnoughFECShards(g) == Cardinality(Present(g)) >= DataShards

missingDataShardIndexes(g) == (0..(DataShards - 1)) \ Present(g)

\* Every shard is present and padded afterwards, the parity shards too.
Reconstruct(g) ==
    LET parities == {i \in Present(g) : i >= DataShards}
        longest  == Max({g.shards[i].size : i \in DOMAIN g.shards})
        word     == g.shards[CHOOSE i \in parities : TRUE].word
        coherent == \A i \in parities : g.shards[i].total = Cardinality(DOMAIN g.shards)
        value(i) == IF i \in Present(g) THEN g.shards[i].content
                    ELSE IF coherent THEN word[i + 1] ELSE Garbage
    IN [g EXCEPT !.shards = [i \in DOMAIN g.shards |->
            [size |-> longest, total |-> Cardinality(DOMAIN g.shards),
             content |-> IF i < DataShards THEN value(i) ELSE Empty,
             word |-> IF i < DataShards THEN <<>> ELSE word]]]

completeGroupIfDelivered(b, g) ==
    IF g.delivered = 0..(DataShards - 1)
    THEN [groups    |-> b.groups \ GroupsOf(b, g.id),
          bytes     |-> releaseGroupShards(b.bytes, {g}),
          completed |-> rememberCompletedGroup(b.completed, g.id)]
    ELSE Put(b, g)

deliver(contents) == deliveries' = [c \in Contents |-> deliveries[c] +
                                        Cardinality({i \in DOMAIN contents : contents[i] = c})]

\* AddPacket once it filed shard p in group g of buffer b: a real data shard is
\* delivered and nothing else is looked at; a repair shard may complete enough
\* shards to reconstruct the missing ones.
Filed(b, g, p) ==
    \/ /\ p.index < DataShards /\ ~p.fec
       /\ rx' = completeGroupIfDelivered(b, [g EXCEPT !.delivered = @ \cup {p.index}])
       /\ deliver([i \in {p.index} |-> p.content])
    \/ /\ p.fec
       /\ ~hasEnoughFECShards(g) \/ missingDataShardIndexes(g) = {}
       /\ rx' = Put(b, g)
       /\ UNCHANGED deliveries
    \/ /\ p.fec
       /\ hasEnoughFECShards(g) /\ missingDataShardIndexes(g) # {}
       /\ LET missing == missingDataShardIndexes(g)
              whole   == Reconstruct(g)
          IN /\ rx' = completeGroupIfDelivered(b, [whole EXCEPT !.delivered = @ \cup missing])
             /\ deliver([i \in missing |-> whole.shards[i].content])

\* group() has already opened a new group when the byte budget refuses a shard.
AddPacket(p) ==
    LET b == purgeExpiredGroups(rx)
        g == group(b, p)
    IN
    \/ /\ IsCompleted(b, p.group) \/ ~canOpenGroup(b, p)
       /\ rx' = b
       /\ UNCHANGED deliveries
    \/ /\ ~IsCompleted(b, p.group) /\ canOpenGroup(b, p)
       /\ \/ ~sameMetadata(g, p)
          \/ sameMetadata(g, p) /\ p.index \in Present(g)
          \/ sameMetadata(g, p) /\ p.index \notin Present(g) /\ b.bytes + p.size > MaxBufferedBytes
       /\ rx' = Put(b, g)
       /\ UNCHANGED deliveries
    \/ /\ ~IsCompleted(b, p.group) /\ canOpenGroup(b, p)
       /\ sameMetadata(g, p) /\ p.index \notin Present(g)
       /\ b.bytes + p.size <= MaxBufferedBytes
       /\ Filed([b EXCEPT !.bytes = @ + p.size], Stored(g, p), p)

\* A turn of the session's read loop.
receive(packet) ==
    /\ packet \in network
    /\ SeenFirst(packet.no)
    /\ dedup' = Remember(packet.no)
    /\ AddPacket(packet.shard)
    /\ UNCHANGED <<clock, sender, network>>

Tick == /\ clock < MaxClock
        /\ clock' = clock + 1
        /\ network' = {packet \in network : Deliverable(packet, clock')}
        /\ UNCHANGED <<sender, receiver>>

Next ==
    \/ \E s \in Streams, size \in Sizes : SendPacket(s, size)
    \/ fecFlush
    \/ \E calls \in outbox : sendWirePayload(calls) \/ sendFails(calls)
    \/ \E d \in 1..DataShards, r \in 0..DataShards : r <= d /\ observeFECDelivery(d, r)
    \/ \E packet \in network : receive(packet)
    \/ Tick

Spec == Init /\ [][Next]_vars

\* The flush loop's ticker keeps firing and time passes.  Nothing obliges a
\* caller to send or the network to deliver.
FairSpec == Spec /\ WF_vars(fecFlush) /\ WF_vars(Tick)

-----------------------------------------------------------------------------
(* Properties.                                                             *)

Payloads == 1..MaxPayloads

\* Every variable keeps its type, the sender never codes without parity and
\* the receive buffer respects its limits on groups, tombstones and bytes.
TypeOK ==
    /\ clock \in Nat /\ fecGroup \in Nat /\ packetNo \in Nat /\ offered \in 0..MaxPayloads
    /\ parity \in 1..MaxParityShards
    /\ adapt.delivered \in 0..(AdaptWindow - 1)
    /\ \A s \in Streams : Len(tx[s].payloads) <= DataShards
    /\ dedup.highest \in 0..packetNo /\ dedup.seen \subseteq 1..packetNo
    /\ Cardinality(dedup.seen) <= Window
    /\ Cardinality(rx.groups) <= MaxGroups
    /\ Len(rx.completed) <= MaxCompleted
    /\ rx.bytes \in 0..MaxBufferedBytes
    /\ deliveries \in [Contents -> Nat]

\* No payload reaches the stream twice: not by a late original after its
\* reconstruction, nor by repair shards that arrive after their group was
\* completed, nor by duplicated datagrams.
DeliveredOnce == \A n \in Payloads : deliveries[n] <= 1

\* A payload that nextFECShards refused never reaches the peer, though it stays in
\* the group that later payloads share and are coded with.  An error of a write says
\* less: its payload may have been sent, and the parity of its group carries it.
RefusedNotDelivered == \A payload \in refused : deliveries[payload.number] = 0

\* What is delivered was sent: shards of one group that were coded with
\* different parity counts are never decoded together.
NeverGarbage == deliveries[Garbage] = 0

\* The byte count never exceeds what the groups really retain, so that a
\* buffer whose groups were completed or purged has its whole budget back.
NeverOvercounts == rx.bytes <= Retained(rx.groups)

\* A group has its id for itself and is either pending or completed.
GroupsDistinct ==
    /\ \A g, h \in rx.groups : g.id = h.id => g = h
    /\ \A g \in rx.groups : ~IsCompleted(rx, g.id)
    /\ \A j, k \in DOMAIN rx.completed : rx.completed[j].id = rx.completed[k].id => j = k

\* A group that stops growing does not keep its payloads unprotected: it is
\* filled or flushed, unless a payload that was refused for its size is in it
\* (then it stays until the caller fills it, and those calls fail too).
GroupFlushed ==
    \A s \in Streams : (tx[s] # NoSendGroup)
                          ~> (tx[s] = NoSendGroup \/ ~CanEncode(tx[s].payloads))

\* The receive buffer keeps its books: limits and types, the byte count, and a
\* place of its own for every group (AddPacket updates them in five branches).
BufferSound == TypeOK /\ NeverOvercounts /\ GroupsDistinct
=============================================================================
