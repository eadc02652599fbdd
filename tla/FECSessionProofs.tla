-------------------------- MODULE FECSessionProofs --------------------------
(***************************************************************************)
(* Proofs about forward error correction, for any streams, options, limits *)
(* and lifetimes and for any number of payloads and datagrams.             *)
(*                                                                         *)
(* The inductive invariant Inv follows a payload from its group at the     *)
(* sender (Held), through the shards that name it (Sent), to the places of *)
(* the receive buffer that can still be reconstructed (Pending): these are *)
(* its claims.  A payload has one place, whatever claims it; a refused one *)
(* has no claim that could deliver it.  Books is what the receive buffer   *)
(* keeps: its groups, tombstones and bytes.                                *)
(*                                                                         *)
(* OnceInv adds that what was delivered stays settled at the receiver for  *)
(* as long as one of its datagrams can arrive.  It needs two conditions,   *)
(* which are hypotheses of DeliveredAtMostOnce: a datagram is gone before  *)
(* the group it belongs to expires (DatagramsDieFirst), and the table of   *)
(* completed groups drops no entry before its datagrams are gone           *)
(* (TombstonesSuffice), as in a session of few payloads                    *)
(* (ShortSessionsDeliverOnce).                                             *)
(***************************************************************************)
EXTENDS FECSession, FiniteSetTheorems, SequenceTheorems, WellFoundedInduction, TLAPS

-----------------------------------------------------------------------------
(* The inductive invariant.                                                *)

\* A payload of a group.
Payload == [number : Nat, size : Nat]

\* A group of the sender (fecTransmitGroup).
SendGroup == [id : Nat, createdAt : Nat, payloads : Seq(Payload)]

\* What a parity shard was computed from; other shards carry no word.
Words == [1..DataShards -> Nat] \cup {<<>>}

\* The shards that packets carry.
ShardSet == [group : Nat, index : Nat, total : Nat, fec : BOOLEAN, born : Nat,
             size : Nat, content : Nat, word : Words]

\* The places of a group.
Indexes == 0..(DataShards - 1)

\* A shard as the sender makes it: it lies in its encoding, whatever is beyond the
\* data shards carries the whole word, and a synthetic data shard is empty.
WellMade(shard) ==
    /\ shard \in ShardSet
    /\ shard.index < shard.total /\ DataShards < shard.total
    /\ shard.index >= DataShards => shard.fec /\ shard.word \in [1..DataShards -> Nat]
    /\ shard.fec /\ shard.index < DataShards => shard.content = Empty
    /\ shard.born <= clock /\ shard.group <= fecGroup

\* The sender's counters and groups: an open group is neither empty nor overfull.
SenderInv ==
    /\ clock \in Nat /\ fecGroup \in Nat /\ packetNo \in Nat /\ offered \in 0..MaxPayloads
    /\ parity \in 1..MaxParityShards
    /\ adapt \in [delivered : 0..(AdaptWindow - 1), recovered : Nat]
    /\ tx \in [Streams -> SendGroup]
    /\ \A s \in Streams : /\ Len(tx[s].payloads) <= DataShards
                          /\ tx[s].createdAt <= clock /\ tx[s].id <= fecGroup
                          /\ tx[s] # NoSendGroup => tx[s].payloads # <<>>

\* Every shard that is prepared or sent.
Shards == (UNION {{calls[k] : k \in DOMAIN calls} : calls \in outbox})
             \cup {packet.shard : packet \in network}

\* What is prepared or under way.
PacketInv ==
    /\ \A calls \in outbox : calls \in Seq(ShardSet) /\ calls # <<>>
    /\ \A shard \in Shards : WellMade(shard)
    /\ \A packet \in network : packet.no \in 1..packetNo /\ Deliverable(packet, clock)

\* The window of packet numbers: nothing older than the window is remembered.
DedupInv ==
    /\ dedup.highest \in 0..packetNo
    /\ dedup.seen \subseteq 1..dedup.highest
    /\ \A n \in dedup.seen : dedup.highest - n < Window

\* A slot of a group of the receive buffer.
StoredShard == [size : Nat, content : Nat, word : Words, total : Nat]

\* A group of the receive buffer.
RxGroup == [id : Nat, receivedAt : Nat, delivered : SUBSET Nat,
            shards : UNION {[0..(k - 1) -> StoredShard] : k \in Nat}]

\* A pending group was opened by a shard of the encoding that all its shards are of.
Coherent(g) ==
    /\ g \in RxGroup
    /\ Cardinality(DOMAIN g.shards) > DataShards
    /\ \A i \in Present(g) :
          /\ g.shards[i].total = Cardinality(DOMAIN g.shards)
          /\ i >= DataShards => g.shards[i].word \in [1..DataShards -> Nat]

\* The books of receive buffer b at a time when the sender has used the group ids
\* up to top.
Books(b, now, top) ==
    /\ b.bytes \in 0..MaxBufferedBytes
    /\ IsFiniteSet(b.groups) /\ Cardinality(b.groups) <= MaxGroups
    /\ \A g \in b.groups : Coherent(g) /\ g.receivedAt <= now /\ g.id <= top
    /\ \A g, h \in b.groups : g.id = h.id => g = h
    /\ b.completed \in Seq([id : Nat, at : Nat]) /\ Len(b.completed) <= MaxCompleted
    /\ \A k \in DOMAIN b.completed : b.completed[k].at <= now /\ b.completed[k].id <= top
    /\ \A g \in b.groups : ~IsCompleted(b, g.id)
    /\ \A j, k \in DOMAIN b.completed : b.completed[j].id = b.completed[k].id => j = k
    /\ b.bytes <= Retained(b.groups)

\* Payload n is the one at place i of the shard's group.
Names(shard, i, n) ==
    /\ n # Empty /\ i \in Indexes
    /\ \/ shard.index = i /\ n = shard.content
       \/ shard.index >= DataShards /\ n = shard.word[i + 1]

\* The payload that a shard under way, or one still to be prepared, names.
Sent(id, born, i, n) ==
    \E shard \in Shards : shard.group = id /\ shard.born = born /\ Names(shard, i, n)

\* The payload that an open group holds for its parity shards.
Held(id, born, i, n) ==
    \E s \in Streams : /\ tx[s].id = id /\ tx[s].createdAt = born
                       /\ i + 1 \in DOMAIN tx[s].payloads /\ n = tx[s].payloads[i + 1].number

\* A payload the receiver could still reconstruct.
Pending(b, id, i, n) ==
    /\ n # Empty /\ i \in Indexes
    /\ \E g \in b.groups : /\ g.id = id /\ i \notin Present(g)
                           /\ \E k \in Present(g) : k >= DataShards /\ g.shards[k].word[i + 1] = n

\* The place i of the group is not delivered again.
Settled(b, id, i) ==
    IsCompleted(b, id) \/ \E g \in b.groups : g.id = id /\ i \in Present(g)

\* What names a payload, anywhere.
Claim(id, i, n) ==
    \/ \E born \in Nat : Sent(id, born, i, n) \/ Held(id, born, i, n)
    \/ Pending(rx, id, i, n)

\* A payload has one place, and a number that was given to it.
ClaimsInv ==
    /\ \A id \in Nat, i \in Indexes, n \in Nat : Claim(id, i, n) => n \in 1..offered
    /\ \A id, jd \in Nat, i, j \in Indexes, n \in Nat :
          Claim(id, i, n) /\ Claim(jd, j, n) => id = jd /\ i = j

\* A refused payload is in no shard, and its group is never encoded.
RefusedInv ==
    \A payload \in refused :
        /\ payload.number \in 1..offered
        /\ deliveries[payload.number] = 0
        /\ \A id, born \in Nat, i \in Indexes :
              ~Sent(id, born, i, payload.number) /\ ~Pending(rx, id, i, payload.number)
        /\ \A s \in Streams : \A k \in DOMAIN tx[s].payloads :
              tx[s].payloads[k].number = payload.number =>
                  ~CanEncode(tx[s].payloads) \/ Len(tx[s].payloads) = DataShards

\* What was delivered had been offered, and was never garbage.
DeliveryInv ==
    /\ deliveries \in [Contents -> Nat]
    /\ NeverGarbage
    /\ \A n \in Payloads : deliveries[n] # 0 => n <= offered

\* The inductive invariant.
Inv == SenderInv /\ PacketInv /\ DedupInv /\ Books(rx, clock, fecGroup)
          /\ ClaimsInv /\ RefusedInv /\ DeliveryInv

\* What holds under the two assumptions on time and tombstones.
OnceInv ==
    /\ DeliveredOnce
    /\ \A id, born \in Nat, i \in Indexes, n \in Payloads :
          Sent(id, born, i, n) \/ Held(id, born, i, n) =>
              /\ \A g \in rx.groups : g.id = id => born <= g.receivedAt
              /\ \A k \in DOMAIN rx.completed : rx.completed[k].id = id => born <= rx.completed[k].at
              /\ deliveries[n] # 0 /\ clock - born <= MaxAge => Settled(rx, id, i)
    /\ \A id \in Nat, i \in Indexes, n \in Payloads : Pending(rx, id, i, n) => deliveries[n] = 0

\* A datagram is gone before the group it belongs to expires at the receiver.
DatagramsDieFirst == MaxAge < GroupLifetime

\* A tombstone that must make room for another is older than any datagram.
TombstonesSuffice ==
    LET completed == unexpired(rx.completed)
    IN Len(completed) >= MaxCompleted => clock - completed[1].at > MaxAge

-----------------------------------------------------------------------------
(* Sums over finite sets, by induction on the cardinality.                 *)

\* Ordinary induction, in the form the provers can use: a set that contains 0
\* and the successor of each of its elements contains every natural number.
LEMMA SetInduction ==
  ASSUME NEW Q, 0 \in Q, \A n \in Nat : n \in Q => n + 1 \in Q
  PROVE  Nat \subseteq Q
<1> DEFINE R == OpToRel(<, Nat)
<1>1. \A a, b \in Nat : <<a, b>> \in R <=> a < b
  BY DEF OpToRel
<1>2. IsWellFoundedOn(R, Nat)
  BY NatLessThanWellFounded
<1> HIDE DEF R
<1> SUFFICES ASSUME Nat \ Q # {} PROVE FALSE
  OBVIOUS
<1>3. PICK x \in Nat \ Q : \A y \in Nat \ Q : ~(<<y, x>> \in R)
  BY <1>2, WFMin
<1>4. x \in Nat /\ x \notin Q /\ x # 0
  BY <1>3
<1>5. x - 1 \in Nat /\ x - 1 < x /\ (x - 1) + 1 = x
  BY <1>4
<1>6. x - 1 \in Q
  BY <1>1, <1>3, <1>4, <1>5
<1> QED
  BY <1>4, <1>5, <1>6

\* One element less.
LEMMA OneLess ==
  ASSUME NEW s, IsFiniteSet(s), NEW x \in s, NEW n \in Nat, Cardinality(s) = n + 1
  PROVE  IsFiniteSet(s \ {x}) /\ Cardinality(s \ {x}) = n
<1>1. Cardinality(s \ {x}) = Cardinality(s) - 1 /\ IsFiniteSet(s \ {x})
  BY FS_RemoveElement
<1> QED BY <1>1

\* The sum of the values of F on S, as the byte counts are sums.
Sum(F, S) == SumFunctionOnSet(F, S)

\* The element the sum takes next out of s.
Pick(s) == CHOOSE x \in s : TRUE

\* The sums over all the subsets of S: the function that the fold builds.
Tally(F, S) ==
    CHOOSE t : t = [s \in SUBSET S |-> IF s = {} THEN 0 ELSE F[Pick(s)] + t[s \ {Pick(s)}]]

\* Sum is the last value of that function.
LEMMA SumIsTally ==
  ASSUME NEW F, NEW S PROVE Sum(F, S) = Tally(F, S)[S]
BY DEF Sum, SumFunctionOnSet, FoldFunctionOnSet, MapThenFoldSet, Tally, Pick

\* Pick(s) is an element of s, so removing it makes a finite set smaller.
LEMMA PickSmaller ==
  ASSUME NEW s, IsFiniteSet(s), s # {}
  PROVE  /\ Pick(s) \in s
         /\ IsFiniteSet(s \ {Pick(s)})
         /\ Cardinality(s \ {Pick(s)}) = Cardinality(s) - 1
         /\ Cardinality(s) \in Nat \ {0}
<1>1. Pick(s) \in s
  BY DEF Pick
<1>2. Cardinality(s) \in Nat /\ Cardinality(s) # 0
  BY FS_CardinalityType, FS_EmptySet
<1> HIDE DEF Pick
<1> QED
  BY <1>1, <1>2, FS_RemoveElement

\* T satisfies the equations of the recursive definition.
IsTally(F, S, T) ==
    /\ T[{}] = 0
    /\ \A s \in SUBSET S : s # {} => T[s] = F[Pick(s)] + T[s \ {Pick(s)}]

\* The recursive definition has a solution on the subsets of a finite set: a
\* solution on the subsets with n elements extends to those with n + 1.
LEMMA TallyRecursion ==
  ASSUME NEW F, NEW S, IsFiniteSet(S)
  PROVE  IsTally(F, S, Tally(F, S))
<1> DEFINE D(n) == {s \in SUBSET S : Cardinality(s) <= n}
           Step(g, s) == IF s = {} THEN 0 ELSE F[Pick(s)] + g[s \ {Pick(s)}]
           Q == {n \in Nat : \E g : g = [s \in D(n) |-> Step(g, s)]}
<1>1. 0 \in Q
  <2> DEFINE g == [s \in D(0) |-> 0]
  <2>1. \A s \in D(0) : s = {}
    <3>1. \A s \in SUBSET S : IsFiniteSet(s)
      BY FS_Subset
    <3> QED BY <3>1, FS_CardinalityType, FS_EmptySet
  <2>2. g = [s \in D(0) |-> Step(g, s)]
    BY <2>1
  <2> QED BY <2>2
<1>2. ASSUME NEW n \in Nat, n \in Q PROVE n + 1 \in Q
  <2>1. PICK g : g = [s \in D(n) |-> Step(g, s)]
    BY <1>2
  <2> DEFINE h == [s \in D(n + 1) |-> Step(g, s)]
  <2>2. ASSUME NEW s \in D(n + 1), s # {}
        PROVE  s \ {Pick(s)} \in D(n) /\ s \ {Pick(s)} \in D(n + 1)
    <3>1. IsFiniteSet(s)
      BY FS_Subset
    <3>2. Cardinality(s \ {Pick(s)}) = Cardinality(s) - 1 /\ Cardinality(s) \in Nat
      BY <2>2, <3>1, PickSmaller
    <3> QED BY <3>2
  <2>3. \A s \in D(n) : s \in D(n + 1)
    <3>1. \A s \in SUBSET S : IsFiniteSet(s)
      BY FS_Subset
    <3>2. \A s \in SUBSET S : Cardinality(s) \in Nat
      BY <3>1, FS_CardinalityType
    <3> QED BY <3>2
  <2>4. \A s \in D(n) : h[s] = g[s]
    BY <2>1, <2>3
  <2>5. ASSUME NEW s \in D(n + 1) PROVE Step(g, s) = Step(h, s)
    <3>1. CASE s = {}
      BY <3>1
    <3>2. CASE s # {}
      BY <3>2, <2>2, <2>4
    <3> QED BY <3>1, <3>2
  <2>6. h = [s \in D(n + 1) |-> Step(h, s)]
    BY <2>5
  <2> HIDE DEF h
  <2>7. \E k : k = [s \in D(n + 1) |-> Step(k, s)]
    BY <2>6, Zenon
  <2> HIDE DEF D, Step
  <2> QED BY <2>7
<1> HIDE DEF Q
<1>3. Nat \subseteq Q
  BY <1>1, <1>2, SetInduction
<1>4. Cardinality(S) \in Nat
  BY FS_CardinalityType
<1>5. Cardinality(S) \in Q
  BY <1>3, <1>4
<1>6. D(Cardinality(S)) = SUBSET S
  BY FS_Subset
<1>7. PICK g : g = [s \in SUBSET S |-> Step(g, s)]
  BY <1>5, <1>6 DEF Q
<1>8. Tally(F, S) = [s \in SUBSET S |-> Step(Tally(F, S), s)]
  BY <1>7 DEF Tally
<1> HIDE DEF Step
<1>9. \A s \in SUBSET S : Tally(F, S)[s] = Step(Tally(F, S), s)
  BY <1>8
<1> QED
  BY <1>9 DEF Step, IsTally

\* The tally of a set does not depend on the order in which it is taken.
LEMMA TallyRemove ==
  ASSUME NEW F, NEW S, IsFiniteSet(S), \A b \in S : F[b] \in Nat
  PROVE  \A s \in SUBSET S :
           /\ Tally(F, S)[s] \in Nat
           /\ \A x \in s : Tally(F, S)[s] = F[x] + Tally(F, S)[s \ {x}]
<1> DEFINE T == Tally(F, S)
           Good(s) == T[s] \in Nat /\ \A x \in s : T[s] = F[x] + T[s \ {x}]
           Q == {n \in Nat : \A s \in SUBSET S : Cardinality(s) <= n => Good(s)}
<1> HIDE DEF Good, Q, T
<1>0. IsTally(F, S, T)
  BY TallyRecursion DEF T
<1>1. T[{}] = 0 /\ \A s \in SUBSET S : s # {} => T[s] = F[Pick(s)] + T[s \ {Pick(s)}]
  BY <1>0 DEF IsTally
<1> USE DEF Good, Q
<1>2. \A s \in SUBSET S : IsFiniteSet(s) /\ Cardinality(s) \in Nat
  BY FS_Subset, FS_CardinalityType
<1>3. 0 \in Q
  <2>1. \A s \in SUBSET S : Cardinality(s) <= 0 => s = {}
    BY <1>2, FS_EmptySet
  <2>2. Good({})
    BY <1>1
  <2> QED BY <2>1, <2>2
<1>4. ASSUME NEW n \in Nat, n \in Q PROVE n + 1 \in Q
  <2> SUFFICES ASSUME NEW s \in SUBSET S, Cardinality(s) = n + 1 PROVE Good(s)
    <3> HIDE DEF Good
    <3> QED BY <1>2, <1>4
  <2>0. \A r \in SUBSET S : Cardinality(r) <= n => Good(r)
    BY <1>4
  <2> DEFINE y == Pick(s)
  <2>1. s # {}
    BY FS_EmptySet
  <2>2. y \in s /\ Cardinality(s \ {y}) = n
    BY <1>2, <2>1, PickSmaller
  <2>3. Good(s \ {y})
    <3> HIDE DEF Good, y
    <3> QED BY <2>0, <2>2
  <2>4. T[s] = F[y] + T[s \ {y}]
    BY <1>1, <2>1
  <2> HIDE DEF y
  <2>5. T[s] \in Nat
    BY <2>2, <2>3, <2>4
  <2>6. ASSUME NEW x \in s, x # y PROVE T[s] = F[x] + T[s \ {x}]
    <3>1. x \in s \ {y} /\ y \in s \ {x}
      BY <2>2, <2>6
    <3>2. T[(s \ {y}) \ {x}] = T[(s \ {x}) \ {y}]
      <4>1. (s \ {y}) \ {x} = (s \ {x}) \ {y}
        OBVIOUS
      <4> QED BY <4>1
    <3>3. T[s \ {y}] = F[x] + T[(s \ {y}) \ {x}]
      BY <2>3, <3>1
    <3>4. Cardinality(s \ {x}) = n
      BY <1>2, OneLess
    <3>5. Good(s \ {x})
      <4> HIDE DEF Good
      <4> QED BY <2>0, <3>4
    <3>6. T[s \ {x}] = F[y] + T[(s \ {x}) \ {y}]
      BY <3>1, <3>5
    <3>7. F[x] \in Nat /\ F[y] \in Nat
      BY <2>2
    <3>8. T[(s \ {y}) \ {x}] \in Nat
      <4>1. Cardinality((s \ {y}) \ {x}) <= Cardinality(s \ {y}) /\ (s \ {y}) \ {x} \in SUBSET S
        BY <1>2, FS_Subset
      <4>2. Cardinality((s \ {y}) \ {x}) <= n
        BY <2>2, <4>1
      <4> QED BY <2>0, <4>1, <4>2
    <3> QED BY <2>4, <3>2, <3>3, <3>6, <3>7, <3>8
  <2> QED BY <2>4, <2>5, <2>6
<1> HIDE DEF Q
<1>5. Nat \subseteq Q
  BY <1>3, <1>4, SetInduction
<1>6. ASSUME NEW s \in SUBSET S PROVE Good(s)
  <2>1. Cardinality(s) \in Q
    BY <1>2, <1>5
  <2> HIDE DEF Good
  <2> QED BY <1>2, <2>1 DEF Q
<1> QED
  BY <1>6 DEF T

\* The tally of a set depends only on the values on its members.
LEMMA TallyAgrees ==
  ASSUME NEW F, NEW G, NEW S, NEW U, IsFiniteSet(S), IsFiniteSet(U), S \subseteq U,
         \A b \in S : F[b] = G[b]
  PROVE  Tally(F, S)[S] = Tally(G, U)[S]
<1> DEFINE T == Tally(F, S)
           V == Tally(G, U)
           Q == {n \in Nat : \A s \in SUBSET S : Cardinality(s) <= n => T[s] = V[s]}
<1>1. IsTally(F, S, T) /\ IsTally(G, U, V)
  BY TallyRecursion
<1> HIDE DEF T, V
<1>2. \A s \in SUBSET S : IsFiniteSet(s) /\ Cardinality(s) \in Nat
  BY FS_Subset, FS_CardinalityType
<1>3. 0 \in Q
  <2>1. \A s \in SUBSET S : Cardinality(s) <= 0 => s = {}
    BY <1>2, FS_EmptySet
  <2>2. T[{}] = V[{}]
    BY <1>1 DEF IsTally
  <2> QED BY <2>1, <2>2
<1>4. ASSUME NEW n \in Nat, n \in Q PROVE n + 1 \in Q
  <2>0. \A r \in SUBSET S : Cardinality(r) <= n => T[r] = V[r]
    BY <1>4
  <2> SUFFICES ASSUME NEW s \in SUBSET S, Cardinality(s) = n + 1 PROVE T[s] = V[s]
    BY <1>2, <2>0
  <2>1. s # {}
    <3>1. Cardinality({}) = 0
      BY FS_EmptySet
    <3> QED BY <3>1
  <2>2. Pick(s) \in s /\ Cardinality(s \ {Pick(s)}) = n
    BY <1>2, <2>1, PickSmaller
  <2>3. T[s \ {Pick(s)}] = V[s \ {Pick(s)}]
    BY <2>0, <2>2
  <2>4. T[s] = F[Pick(s)] + T[s \ {Pick(s)}]
    BY <1>1, <2>1 DEF IsTally
  <2>5. V[s] = G[Pick(s)] + V[s \ {Pick(s)}]
    <3>1. s \in SUBSET U
      OBVIOUS
    <3> QED BY <1>1, <2>1, <3>1 DEF IsTally
  <2>6. F[Pick(s)] = G[Pick(s)]
    BY <2>2
  <2> QED BY <2>3, <2>4, <2>5, <2>6
<1> HIDE DEF Q
<1>5. Nat \subseteq Q
  BY <1>3, <1>4, SetInduction
<1>6. T[S] = V[S]
  BY <1>2, <1>5 DEF Q
<1> QED BY <1>6 DEF T, V

\* Taking an element out of a sum.
LEMMA SumRemove ==
  ASSUME NEW F, NEW S, IsFiniteSet(S), \A x \in S : F[x] \in Nat
  PROVE  /\ Sum(F, S) \in Nat
         /\ \A x \in S : Sum(F, S \ {x}) \in Nat /\ Sum(F, S) = F[x] + Sum(F, S \ {x})
<1>1. Tally(F, S)[S] \in Nat /\ \A x \in S : Tally(F, S)[S] = F[x] + Tally(F, S)[S \ {x}]
  BY TallyRemove
<1>2. ASSUME NEW x \in S
      PROVE  Tally(F, S)[S \ {x}] = Tally(F, S \ {x})[S \ {x}] /\ Tally(F, S \ {x})[S \ {x}] \in Nat
  <2>1. IsFiniteSet(S \ {x}) /\ S \ {x} \subseteq S
    BY FS_RemoveElement
  <2>2. Tally(F, S \ {x})[S \ {x}] = Tally(F, S)[S \ {x}]
    BY <2>1, TallyAgrees
  <2>3. \A y \in S \ {x} : F[y] \in Nat
    OBVIOUS
  <2>4. Tally(F, S \ {x})[S \ {x}] \in Nat
    BY <2>1, <2>3, TallyRemove
  <2> QED BY <2>2, <2>4
<1> QED BY <1>1, <1>2, SumIsTally

\* The sum over nothing.
LEMMA SumEmpty == ASSUME NEW F PROVE Sum(F, {}) = 0
<1>1. IsTally(F, {}, Tally(F, {}))
  BY FS_EmptySet, TallyRecursion
<1> QED BY <1>1, SumIsTally DEF IsTally

\* A sum depends only on the values that are summed.
LEMMA SumAgrees ==
  ASSUME NEW F, NEW G, NEW S, IsFiniteSet(S), \A x \in S : F[x] = G[x]
  PROVE  Sum(F, S) = Sum(G, S)
BY TallyAgrees, SumIsTally

\* Greater values have a greater sum.
LEMMA SumMonotone ==
  ASSUME NEW F, NEW G, NEW S, IsFiniteSet(S),
         \A x \in S : F[x] \in Nat /\ G[x] \in Nat /\ F[x] <= G[x]
  PROVE  Sum(F, S) <= Sum(G, S)
<1> DEFINE Q == {n \in Nat : \A s \in SUBSET S : Cardinality(s) <= n => Sum(F, s) <= Sum(G, s)}
<1>2. \A s \in SUBSET S : IsFiniteSet(s) /\ Cardinality(s) \in Nat
  BY FS_Subset, FS_CardinalityType
<1>3. 0 \in Q
  <2>1. \A s \in SUBSET S : Cardinality(s) <= 0 => s = {}
    BY <1>2, FS_EmptySet
  <2> QED BY <2>1, SumEmpty
<1>4. ASSUME NEW n \in Nat, n \in Q PROVE n + 1 \in Q
  <2>0. \A r \in SUBSET S : Cardinality(r) <= n => Sum(F, r) <= Sum(G, r)
    BY <1>4
  <2> SUFFICES ASSUME NEW s \in SUBSET S, Cardinality(s) = n + 1 PROVE Sum(F, s) <= Sum(G, s)
    BY <1>2, <2>0
  <2>1. s # {}
    BY FS_EmptySet
  <2>2. PICK x \in s : TRUE
    BY <2>1
  <2>3. Cardinality(s \ {x}) = n
    BY <1>2, OneLess
  <2>4. Sum(F, s \ {x}) <= Sum(G, s \ {x})
    BY <2>0, <2>3
  <2>5. Sum(F, s \ {x}) \in Nat /\ Sum(F, s) = F[x] + Sum(F, s \ {x})
    BY <1>2, SumRemove
  <2>6. Sum(G, s \ {x}) \in Nat /\ Sum(G, s) = G[x] + Sum(G, s \ {x})
    BY <1>2, SumRemove
  <2> QED BY <2>4, <2>5, <2>6
<1> HIDE DEF Q
<1>5. Nat \subseteq Q
  BY <1>3, <1>4, SetInduction
<1> QED BY <1>2, <1>5 DEF Q

\* A sum falls into the sums over a part and over the rest.
LEMMA SumSplit ==
  ASSUME NEW F, NEW S, NEW E \in SUBSET S, IsFiniteSet(S), \A x \in S : F[x] \in Nat
  PROVE  Sum(F, E) \in Nat /\ Sum(F, S \ E) \in Nat /\ Sum(F, S) = Sum(F, E) + Sum(F, S \ E)
<1> DEFINE Good(e) == Sum(F, S) = Sum(F, e) + Sum(F, S \ e)
           Q == {n \in Nat : \A e \in SUBSET S : Cardinality(e) <= n => Good(e)}
<1>1. \A s \in SUBSET S : Sum(F, s) \in Nat
  <2>1. \A s \in SUBSET S : IsFiniteSet(s)
    BY FS_Subset
  <2> QED BY <2>1, SumRemove
<1>2. \A s \in SUBSET S : IsFiniteSet(s) /\ Cardinality(s) \in Nat
  BY FS_Subset, FS_CardinalityType
<1>3. 0 \in Q
  <2>1. \A s \in SUBSET S : Cardinality(s) <= 0 => s = {}
    BY <1>2, FS_EmptySet
  <2>2. S \ {} = S /\ Sum(F, S) \in Nat
    BY <1>1
  <2>3. Good({})
    BY <2>2, SumEmpty
  <2> HIDE DEF Good
  <2> QED BY <2>1, <2>3
<1>4. ASSUME NEW n \in Nat, n \in Q PROVE n + 1 \in Q
  <2>0. \A e \in SUBSET S : Cardinality(e) <= n => Good(e)
    BY <1>4
  <2> SUFFICES ASSUME NEW e \in SUBSET S, Cardinality(e) = n + 1 PROVE Good(e)
    <3> HIDE DEF Good
    <3> QED BY <1>2, <2>0
  <2>1. e # {}
    BY FS_EmptySet
  <2>2. PICK x \in e : TRUE
    BY <2>1
  <2>3. Cardinality(e \ {x}) = n
    BY <1>2, OneLess
  <2>4. Sum(F, S) = Sum(F, e \ {x}) + Sum(F, S \ (e \ {x}))
    BY <2>0, <2>3
  <2>5. Sum(F, e \ {x}) \in Nat /\ Sum(F, e) = F[x] + Sum(F, e \ {x})
    BY <1>2, SumRemove
  <2>6. x \in S \ (e \ {x}) /\ (S \ (e \ {x})) \ {x} = S \ e /\ S \ (e \ {x}) \in SUBSET S
    BY <2>2
  <2>7. Sum(F, S \ (e \ {x})) = F[x] + Sum(F, S \ e) /\ Sum(F, S \ e) \in Nat
    BY <1>2, <2>6, SumRemove
  <2>8. F[x] \in Nat
    OBVIOUS
  <2> QED BY <2>4, <2>5, <2>7, <2>8
<1> HIDE DEF Q, Good
<1>5. Nat \subseteq Q
  BY <1>3, <1>4, SetInduction
<1>6. Good(E)
  BY <1>2, <1>5 DEF Q
<1> QED BY <1>1, <1>6 DEF Good

\* A finite set of numbers that is not empty has a greatest element.
LEMMA MaxExists ==
  ASSUME NEW S \in SUBSET Nat, IsFiniteSet(S), S # {}
  PROVE  Max(S) \in S /\ \A y \in S : Max(S) >= y
<1> DEFINE Top(s) == \E x \in s : \A y \in s : x >= y
           Q == {n \in Nat : \A s \in SUBSET S : Cardinality(s) <= n /\ s # {} => Top(s)}
<1>2. \A s \in SUBSET S : IsFiniteSet(s) /\ Cardinality(s) \in Nat
  BY FS_Subset, FS_CardinalityType
<1>3. 0 \in Q
  <2>1. \A s \in SUBSET S : Cardinality(s) <= 0 => s = {}
    BY <1>2, FS_EmptySet
  <2> HIDE DEF Top
  <2> QED BY <2>1
<1>4. ASSUME NEW n \in Nat, n \in Q PROVE n + 1 \in Q
  <2>0. \A e \in SUBSET S : Cardinality(e) <= n /\ e # {} => Top(e)
    BY <1>4
  <2> SUFFICES ASSUME NEW e \in SUBSET S, Cardinality(e) = n + 1 PROVE Top(e)
    <3> HIDE DEF Top
    <3> QED BY <1>2, <2>0
  <2>1. e # {}
    BY FS_EmptySet
  <2>2. PICK x \in e : TRUE
    BY <2>1
  <2>3. Cardinality(e \ {x}) = n
    BY <1>2, OneLess
  <2>4. CASE e \ {x} = {}
    BY <2>2, <2>4
  <2>5. CASE e \ {x} # {}
    <3>1. Top(e \ {x})
      <4> HIDE DEF Top
      <4> QED BY <2>0, <2>3, <2>5
    <3>2. PICK y \in e \ {x} : \A z \in e \ {x} : y >= z
      BY <3>1
    <3> QED BY <2>2, <3>2
  <2> QED BY <2>4, <2>5
<1> HIDE DEF Q
<1>5. Nat \subseteq Q
  BY <1>3, <1>4, SetInduction
<1>6. Top(S)
  <2> HIDE DEF Top
  <2> QED BY <1>2, <1>5 DEF Q
<1> QED BY <1>6 DEF Max

-----------------------------------------------------------------------------
(* The receive buffer.                                                     *)

\* A set of natural numbers that is not empty has a least element.
LEMMA LeastNumber ==
  ASSUME NEW S \in SUBSET Nat, S # {}
  PROVE  \E m \in S : \A y \in S : m <= y
<1> DEFINE Q == {n \in Nat : \A y \in S : n <= y}
<1> SUFFICES ASSUME \A m \in S : ~(m \in Q) PROVE FALSE
  BY DEF Q
<1>1. 0 \in Q
  OBVIOUS
<1>2. ASSUME NEW n \in Nat, n \in Q PROVE n + 1 \in Q
  <2>1. n \notin S
    BY <1>2
  <2>2. ASSUME NEW y \in S PROVE n + 1 <= y
    <3>1. n <= y /\ y # n /\ y \in Nat
      BY <1>2, <2>1
    <3> QED BY <3>1
  <2> QED BY <2>2
<1> HIDE DEF Q
<1>3. Nat \subseteq Q
  BY <1>1, <1>2, SetInduction
<1> QED BY <1>3

\* The shards of a pending group are numbered from 0.
LEMMA GroupShape ==
  ASSUME NEW g \in RxGroup
  PROVE  \E k \in Nat : /\ g.shards \in [0..(k - 1) -> StoredShard]
                        /\ DOMAIN g.shards = 0..(k - 1)
                        /\ Cardinality(DOMAIN g.shards) = k
                        /\ IsFiniteSet(DOMAIN g.shards)
<1>1. g.shards \in UNION {[0..(k - 1) -> StoredShard] : k \in Nat}
  BY DEF RxGroup
<1>2. PICK k \in Nat : g.shards \in [0..(k - 1) -> StoredShard]
  BY <1>1
<1>3. DOMAIN g.shards = 0..(k - 1)
  BY <1>2
<1>4. IsFiniteSet(0..(k - 1)) /\ Cardinality(0..(k - 1)) = k
  BY FS_Interval
<1> QED BY <1>2, <1>3, <1>4

\* The bytes of a group are the sum of the sizes of its shards.
LEMMA BytesSum ==
  ASSUME NEW g \in RxGroup, NEW F, \A i \in DOMAIN g.shards : F[i] = g.shards[i].size
  PROVE  Bytes(g) = Sum(F, DOMAIN g.shards) /\ Bytes(g) \in Nat
<1> DEFINE G == [i \in DOMAIN g.shards |-> g.shards[i].size]
<1>1. IsFiniteSet(DOMAIN g.shards) /\ \A i \in DOMAIN g.shards : g.shards[i] \in StoredShard
  BY GroupShape
<1>2. \A i \in DOMAIN g.shards : G[i] = F[i] /\ G[i] \in Nat
  BY <1>1 DEF StoredShard
<1>3. Bytes(g) = SumFunctionOnSet(G, DOMAIN G) /\ DOMAIN G = DOMAIN g.shards
  BY DEF Bytes, SumFunction
<1> HIDE DEF G
<1>4. Bytes(g) = Sum(G, DOMAIN g.shards)
  BY <1>3 DEF Sum
<1> QED BY <1>1, <1>2, <1>4, SumAgrees, SumRemove

\* What a finite set of groups retains, as a sum over a greater set.
LEMMA RetainedSum ==
  ASSUME NEW G, IsFiniteSet(G), NEW F, \A g \in G : F[g] = Bytes(g)
  PROVE  Retained(G) = Sum(F, G)
<1> DEFINE H == [g \in G |-> Bytes(g)]
<1>1. Retained(G) = SumFunctionOnSet(H, DOMAIN H) /\ DOMAIN H = G
  BY DEF Retained, SumFunction
<1>2. \A g \in G : H[g] = F[g]
  OBVIOUS
<1> HIDE DEF H
<1>3. Retained(G) = Sum(H, G)
  BY <1>1 DEF Sum
<1> QED BY <1>2, <1>3, SumAgrees

\* Groups that leave take their bytes with them.
LEMMA RetainedSplit ==
  ASSUME NEW G, IsFiniteSet(G), G \subseteq RxGroup, NEW E \in SUBSET G
  PROVE  /\ Retained(G) \in Nat /\ Retained(E) \in Nat /\ Retained(G \ E) \in Nat
         /\ Retained(G) = Retained(E) + Retained(G \ E)
<1> DEFINE H == [g \in G |-> Bytes(g)]
<1>1. \A g \in G : H[g] = Bytes(g)
  OBVIOUS
<1>2. \A g \in G : Bytes(g) \in Nat
  <2>1. ASSUME NEW g \in G PROVE Bytes(g) \in Nat
    <3>1. g \in RxGroup
      OBVIOUS
    <3> DEFINE F == [i \in DOMAIN g.shards |-> g.shards[i].size]
    <3>2. \A i \in DOMAIN g.shards : F[i] = g.shards[i].size
      OBVIOUS
    <3> HIDE DEF F
    <3> QED BY <3>1, <3>2, BytesSum
  <2> QED BY <2>1
<1> HIDE DEF H
<1>3. \A g \in G : H[g] \in Nat
  BY <1>1, <1>2
<1>4. IsFiniteSet(E) /\ IsFiniteSet(G \ E)
  BY FS_Subset
<1>5. Retained(G) = Sum(H, G) /\ Retained(E) = Sum(H, E) /\ Retained(G \ E) = Sum(H, G \ E)
  <2>1. (\A g \in E : H[g] = Bytes(g)) /\ (\A g \in G \ E : H[g] = Bytes(g))
    BY <1>1
  <2> QED BY <1>1, <1>4, <2>1, RetainedSum
<1>6. Sum(H, G) \in Nat
  BY <1>3, SumRemove
<1> QED BY <1>3, <1>5, <1>6, SumSplit

\* One group retains its own bytes.
LEMMA RetainedOne ==
  ASSUME NEW g \in RxGroup
  PROVE  Retained({g}) = Bytes(g) /\ Bytes(g) \in Nat
<1> DEFINE H == [h \in {g} |-> Bytes(h)]
<1>1. H[g] = Bytes(g) /\ \A h \in {g} : H[h] = Bytes(h)
  OBVIOUS
<1> HIDE DEF H
<1>2. Bytes(g) \in Nat
  <2> DEFINE F == [i \in DOMAIN g.shards |-> g.shards[i].size]
  <2>2. \A i \in DOMAIN g.shards : F[i] = g.shards[i].size
    OBVIOUS
  <2> HIDE DEF F
  <2> QED BY <2>2, BytesSum
<1>3. IsFiniteSet({g})
  BY FS_Singleton
<1>4. Retained({g}) = Sum(H, {g})
  BY <1>1, <1>3, RetainedSum
<1>5. Sum(H, {g}) = H[g] + Sum(H, {g} \ {g})
  BY <1>1, <1>2, <1>3, SumRemove
<1>6. {g} \ {g} = {}
  OBVIOUS
<1> QED BY <1>1, <1>2, <1>4, <1>5, <1>6, SumEmpty

\* A group more.
LEMMA RetainedAdd ==
  ASSUME NEW G, IsFiniteSet(G), G \subseteq RxGroup, NEW g \in RxGroup, g \notin G
  PROVE  /\ Retained(G) \in Nat /\ Bytes(g) \in Nat
         /\ Retained(G \cup {g}) = Retained(G) + Bytes(g)
<1>1. IsFiniteSet(G \cup {g}) /\ G \cup {g} \subseteq RxGroup /\ {g} \in SUBSET (G \cup {g})
  BY FS_AddElement
<1>2. (G \cup {g}) \ {g} = G
  OBVIOUS
<1>3. /\ Retained((G \cup {g}) \ {g}) \in Nat
      /\ Retained(G \cup {g}) = Retained({g}) + Retained((G \cup {g}) \ {g})
  BY <1>1, RetainedSplit
<1> QED BY <1>2, <1>3, RetainedOne

\* Tables of completed groups.
Tombstones == Seq([id : Nat, at : Nat])

\* Expired tombstones are popped, the others stay as they are.
LEMMA Unexpired ==
  ASSUME NEW c \in Tombstones, clock \in Nat
  PROVE  \E first \in 1..(Len(c) + 1) :
           /\ unexpired(c) \in Tombstones
           /\ Len(unexpired(c)) = Len(c) + 1 - first
           /\ \A k \in 1..Len(unexpired(c)) :
                 first + k - 1 \in 1..Len(c) /\ unexpired(c)[k] = c[first + k - 1]
           /\ \A j \in 1..(first - 1) : clock - c[j].at >= GroupLifetime
<1> DEFINE expired(k) == clock - c[k].at >= GroupLifetime
           First(k) == (k <= Len(c) => ~expired(k)) /\ \A j \in 1..(k - 1) : expired(j)
           S == {k \in 1..(Len(c) + 1) : k <= Len(c) => ~expired(k)}
<1>0. Len(c) \in Nat
  BY LenProperties DEF Tombstones
<1>1. \E k \in 1..(Len(c) + 1) : First(k)
  <2>1. S \in SUBSET Nat /\ Len(c) + 1 \in S
    BY <1>0
  <2>2. PICK k \in S : \A y \in S : k <= y
    <3> HIDE DEF S
    <3> QED BY <2>1, LeastNumber
  <2>3. ASSUME NEW j \in 1..(k - 1) PROVE expired(j)
    <3>1. j \notin S /\ j \in 1..(Len(c) + 1)
      BY <1>0, <2>2
    <3> QED BY <3>1
  <2> QED BY <2>2, <2>3
<1>2. PICK first \in 1..(Len(c) + 1) : First(first) /\ unexpired(c) = SubSeq(c, first, Len(c))
  <2>1. unexpired(c) = SubSeq(c, CHOOSE k \in 1..(Len(c) + 1) : First(k), Len(c))
    BY DEF unexpired
  <2> HIDE DEF First
  <2> QED BY <1>1, <2>1
<1>3. \A i \in first..Len(c) : c[i] \in [id : Nat, at : Nat]
  <2>1. c \in [1..Len(c) -> [id : Nat, at : Nat]]
    BY LenProperties DEF Tombstones
  <2>2. \A i \in first..Len(c) : i \in 1..Len(c)
    BY <1>0
  <2> QED BY <2>1, <2>2
<1>4. /\ unexpired(c) \in Tombstones
      /\ Len(unexpired(c)) = IF first <= Len(c) THEN Len(c) - first + 1 ELSE 0
      /\ \A k \in 1..(Len(c) - first + 1) : unexpired(c)[k] = c[first + k - 1]
  BY <1>0, <1>2, <1>3, SubSeqProperties DEF Tombstones
<1>5. Len(unexpired(c)) = Len(c) + 1 - first
  BY <1>0, <1>4
<1> QED BY <1>0, <1>2, <1>4, <1>5

\* d is what is left of c without its first s elements.
Rest(d, c, s) == \A k \in DOMAIN d : k + s \in DOMAIN c /\ d[k] = c[k + s]

\* The tombstones that are left are the latest ones.
LEMMA TombstonesLeft ==
  ASSUME NEW c \in Tombstones, clock \in Nat, NEW d, d = unexpired(c)
  PROVE  /\ d \in Tombstones /\ Len(d) <= Len(c)
         /\ DOMAIN d \subseteq Nat /\ DOMAIN c \subseteq Nat
         /\ \E s \in Nat : Rest(d, c, s)
         /\ \A j \in DOMAIN c : \/ clock - c[j].at >= GroupLifetime
                                \/ \E k \in DOMAIN d : d[k] = c[j]
<1>0. Len(c) \in Nat /\ DOMAIN c = 1..Len(c)
  BY LenProperties DEF Tombstones
<1>1. PICK first \in 1..(Len(c) + 1) :
           /\ d \in Tombstones
           /\ Len(d) = Len(c) + 1 - first
           /\ \A k \in 1..Len(d) : first + k - 1 \in 1..Len(c) /\ d[k] = c[first + k - 1]
           /\ \A j \in 1..(first - 1) : clock - c[j].at >= GroupLifetime
  BY Unexpired, Zenon
<1>2. Len(d) \in Nat /\ DOMAIN d = 1..Len(d)
  BY <1>1, LenProperties DEF Tombstones
<1>3. Len(d) <= Len(c)
  BY <1>0, <1>1
<1>4. \E s \in Nat : Rest(d, c, s)
  <2>1. ASSUME NEW k \in DOMAIN d PROVE k + (first - 1) \in DOMAIN c /\ d[k] = c[k + (first - 1)]
    <3>1. first + k - 1 \in 1..Len(c) /\ d[k] = c[first + k - 1] /\ k \in Nat
      BY <1>1, <1>2
    <3>2. first + k - 1 = k + (first - 1)
      BY <1>1, <3>1
    <3> QED BY <1>0, <3>1, <3>2
  <2>2. first - 1 \in Nat
    BY <1>1
  <2> QED BY <2>1, <2>2 DEF Rest
<1>6. ASSUME NEW j \in DOMAIN c, ~(clock - c[j].at >= GroupLifetime)
      PROVE  \E k \in DOMAIN d : d[k] = c[j]
  <2>1. j \in 1..Len(c) /\ j >= first
    BY <1>0, <1>1, <1>6
  <2> DEFINE k == j - first + 1
  <2>2. k \in 1..Len(d) /\ first + k - 1 = j
    BY <1>0, <1>1, <2>1
  <2> HIDE DEF k
  <2> QED BY <1>1, <1>2, <2>2
<1>7. DOMAIN d \subseteq Nat /\ DOMAIN c \subseteq Nat
  BY <1>0, <1>2
<1> QED BY <1>1, <1>3, <1>4, <1>6, <1>7

\* The conjuncts of the books, by the parts of the buffer they are about.
GroupsInOrder(groups, now, top) ==
    /\ IsFiniteSet(groups) /\ Cardinality(groups) <= MaxGroups
    /\ \A g \in groups : Coherent(g) /\ g.receivedAt <= now /\ g.id <= top
    /\ \A g, h \in groups : g.id = h.id => g = h

\* The part of Books about the tombstones.
TombstonesInOrder(completed, now, top) ==
    /\ completed \in Tombstones /\ Len(completed) <= MaxCompleted
    /\ \A k \in DOMAIN completed : completed[k].at <= now /\ completed[k].id <= top
    /\ \A j, k \in DOMAIN completed : completed[j].id = completed[k].id => j = k

\* The books are those of the groups, the tombstones and the bytes.
LEMMA BooksParts ==
  ASSUME NEW b, NEW now, NEW top
  PROVE  Books(b, now, top) <=>
           /\ GroupsInOrder(b.groups, now, top)
           /\ TombstonesInOrder(b.completed, now, top)
           /\ \A g \in b.groups : ~IsCompleted(b, g.id)
           /\ b.bytes \in 0..MaxBufferedBytes /\ b.bytes <= Retained(b.groups)
BY DEF Books, GroupsInOrder, TombstonesInOrder, Tombstones

\* What G retains is what H and the others retain.
Splits(G, H) ==
    /\ Retained(G) \in Nat /\ Retained(H) \in Nat /\ Retained(G \ H) \in Nat
    /\ Retained(G) = Retained(H) + Retained(G \ H)

\* Groups that leave, leave the others in order.
LEMMA FewerGroups ==
  ASSUME NEW G, NEW now, NEW top, GroupsInOrder(G, now, top), NEW H \in SUBSET G
  PROVE  /\ GroupsInOrder(H, now, top) /\ G \subseteq RxGroup /\ Splits(G, H)
<1>1. IsFiniteSet(G) /\ Cardinality(G) <= MaxGroups
  BY DEF GroupsInOrder
<1>2. IsFiniteSet(H) /\ Cardinality(H) <= Cardinality(G)
  BY <1>1, FS_Subset
<1>3. Cardinality(G) \in Nat /\ Cardinality(H) \in Nat /\ MaxGroups \in Nat
  BY <1>1, <1>2, FS_CardinalityType, LimitsAssumption
<1>4. Cardinality(H) <= MaxGroups
  BY <1>1, <1>2, <1>3
<1>5. G \subseteq RxGroup
  BY DEF GroupsInOrder, Coherent
<1>6. GroupsInOrder(H, now, top)
  BY <1>2, <1>4 DEF GroupsInOrder
<1>7. Splits(G, H)
  BY <1>1, <1>5, RetainedSplit DEF Splits
<1> QED BY <1>5, <1>6, <1>7

\* What purgeExpiredGroups leaves is in order, and what it removed had expired.
LEMMA PurgeBooks ==
  ASSUME NEW b, NEW top, clock \in Nat, Books(b, clock, top),
         NEW c, c = purgeExpiredGroups(b)
  PROVE  /\ Books(c, clock, top)
         /\ c = [groups |-> c.groups, bytes |-> c.bytes, completed |-> c.completed]
         /\ c.groups \subseteq b.groups /\ c.completed = unexpired(b.completed)
         /\ \A g \in b.groups \ c.groups : clock - g.receivedAt >= GroupLifetime
<1> DEFINE E == {g \in b.groups : clock - g.receivedAt >= GroupLifetime}
<1>1. /\ c = [groups |-> b.groups \ E, bytes |-> releaseGroupShards(b.bytes, E),
              completed |-> unexpired(b.completed)]
  BY DEF purgeExpiredGroups
<1>2. /\ c.groups = b.groups \ E /\ c.bytes = releaseGroupShards(b.bytes, E)
      /\ c.completed = unexpired(b.completed)
      /\ c = [groups |-> c.groups, bytes |-> c.bytes, completed |-> c.completed]
  BY <1>1
<1>3. /\ \A g \in b.groups \ c.groups : clock - g.receivedAt >= GroupLifetime
      /\ c.groups \in SUBSET b.groups /\ b.groups \ c.groups = E
  BY <1>2
<1> HIDE DEF E
<1>4. /\ GroupsInOrder(b.groups, clock, top) /\ TombstonesInOrder(b.completed, clock, top)
      /\ \A g \in b.groups : ~IsCompleted(b, g.id)
      /\ b.bytes \in 0..MaxBufferedBytes /\ b.bytes <= Retained(b.groups)
  BY BooksParts
<1>5. /\ GroupsInOrder(c.groups, clock, top)
      /\ Retained(c.groups) \in Nat /\ Retained(E) \in Nat
      /\ Retained(b.groups) = Retained(c.groups) + Retained(E)
  <2>1. GroupsInOrder(c.groups, clock, top) /\ Splits(b.groups, c.groups)
    BY <1>3, <1>4, FewerGroups
  <2> QED BY <1>3, <2>1 DEF Splits
<1>6. c.bytes \in 0..MaxBufferedBytes /\ c.bytes <= Retained(c.groups)
  BY <1>2, <1>4, <1>5, LimitsAssumption DEF releaseGroupShards
<1>7. TombstonesInOrder(c.completed, clock, top)
  <2>1. b.completed \in Tombstones /\ Len(b.completed) <= MaxCompleted
    BY <1>4 DEF TombstonesInOrder
  <2>0. c.completed = unexpired(b.completed)
    BY <1>2
  <2>2. PICK s \in Nat : Rest(c.completed, b.completed, s)
    BY <2>0, <2>1, TombstonesLeft
  <2>7. c.completed \in Tombstones /\ Len(c.completed) <= Len(b.completed)
           /\ DOMAIN c.completed \subseteq Nat
    BY <2>0, <2>1, TombstonesLeft
  <2>3. Len(c.completed) \in Nat /\ Len(b.completed) \in Nat
    BY <2>1, <2>7, LenProperties DEF Tombstones
  <2>4. Len(c.completed) <= MaxCompleted
    BY <2>1, <2>7, <2>3, LimitsAssumption
  <2>5. \A k \in DOMAIN c.completed : c.completed[k].at <= clock /\ c.completed[k].id <= top
    BY <1>4, <2>2 DEF TombstonesInOrder, Rest
  <2>6. ASSUME NEW j \in DOMAIN c.completed, NEW k \in DOMAIN c.completed,
               c.completed[j].id = c.completed[k].id
        PROVE  j = k
    <3>1. /\ j + s \in DOMAIN b.completed /\ k + s \in DOMAIN b.completed
          /\ b.completed[j + s].id = b.completed[k + s].id
      BY <2>2, <2>6 DEF Rest
    <3>2. j + s = k + s
      BY <1>4, <3>1 DEF TombstonesInOrder
    <3> QED BY <2>7, <3>2
  <2> QED BY <2>4, <2>5, <2>6, <2>7 DEF TombstonesInOrder
<1>8. \A g \in c.groups : ~IsCompleted(c, g.id)
  <2>1. \A k \in DOMAIN c.completed : \E j \in DOMAIN b.completed : c.completed[k] = b.completed[j]
    <3>1. b.completed \in Tombstones /\ c.completed = unexpired(b.completed)
      BY <1>2, <1>4 DEF TombstonesInOrder
    <3>2. PICK s \in Nat : Rest(c.completed, b.completed, s)
      BY <3>1, TombstonesLeft
    <3> QED BY <3>2 DEF Rest
  <2>2. \A id : IsCompleted(c, id) => IsCompleted(b, id)
    BY <2>1 DEF IsCompleted
  <2> QED BY <1>3, <1>4, <2>2
<1>9. Books(c, clock, top)
  BY <1>5, <1>6, <1>7, <1>8, BooksParts
<1> QED BY <1>2, <1>3, <1>9

\* What G retains when group g takes the place of groups O.
Swapped(G, O, g) ==
    /\ Retained(G) \in Nat /\ Retained(O) \in Nat /\ Retained(G \ O) \in Nat /\ Bytes(g) \in Nat
    /\ Retained(G) = Retained(O) + Retained(G \ O)
    /\ Retained((G \ O) \cup {g}) = Retained(G \ O) + Bytes(g)

\* A group takes the place of the one that had its id, or a place that was free.
LEMMA GroupsPut ==
  ASSUME NEW G, NEW now \in Nat, NEW top \in Nat, GroupsInOrder(G, now, top),
         NEW g, Coherent(g), g.receivedAt <= now, g.id <= top,
         NEW O, \A h : h \in O <=> h \in G /\ h.id = g.id, O # {} \/ Cardinality(G) < MaxGroups
  PROVE  /\ GroupsInOrder((G \ O) \cup {g}, now, top)
         /\ Swapped(G, O, g)
<1> DEFINE R == G \ O
<1>0. IsFiniteSet(G) /\ Cardinality(G) <= MaxGroups /\ O \in SUBSET G /\ R \in SUBSET G /\ G \ R = O
  BY DEF GroupsInOrder
<1>1. /\ GroupsInOrder(R, now, top) /\ G \subseteq RxGroup
      /\ Retained(G) \in Nat /\ Retained(R) \in Nat /\ Retained(O) \in Nat
      /\ Retained(G) = Retained(R) + Retained(O)
  <2>1. GroupsInOrder(R, now, top) /\ G \subseteq RxGroup /\ Splits(G, R)
    <3> HIDE DEF R
    <3> QED BY <1>0, FewerGroups
  <2> QED BY <1>0, <2>1 DEF Splits
<1>2. g \in RxGroup /\ g \notin R
  BY DEF Coherent
<1>3. /\ IsFiniteSet(R) /\ Cardinality(R) \in Nat
      /\ Cardinality(G) \in Nat /\ Cardinality(R) <= Cardinality(G)
  BY <1>0, FS_Subset, FS_CardinalityType
<1>4. Cardinality(R) < MaxGroups
  <2>1. MaxGroups \in Nat
    BY LimitsAssumption
  <2>2. CASE Cardinality(G) < MaxGroups
    BY <1>3, <2>1, <2>2
  <2>3. CASE O # {}
    <3>1. PICK x \in O : TRUE
      BY <2>3
    <3>2. x \in G /\ R \in SUBSET (G \ {x})
      BY <1>0
    <3>3. IsFiniteSet(G \ {x}) /\ Cardinality(G \ {x}) = Cardinality(G) - 1
      BY <1>0, <3>2, FS_RemoveElement
    <3>4. Cardinality(R) <= Cardinality(G \ {x})
      BY <3>2, <3>3, FS_Subset
    <3> QED BY <1>0, <1>3, <2>1, <3>3, <3>4
  <2> QED BY <2>2, <2>3
<1>5. IsFiniteSet(R \cup {g}) /\ Cardinality(R \cup {g}) = Cardinality(R) + 1
  BY <1>2, <1>3, FS_AddElement
<1>6. Cardinality(R \cup {g}) <= MaxGroups
  BY <1>3, <1>4, <1>5, LimitsAssumption
<1>7. \A h \in R \cup {g} : Coherent(h) /\ h.receivedAt <= now /\ h.id <= top
  BY <1>1 DEF GroupsInOrder
<1>8. \A h, k \in R \cup {g} : h.id = k.id => h = k
  BY <1>1 DEF GroupsInOrder
<1>9. GroupsInOrder(R \cup {g}, now, top)
  BY <1>5, <1>6, <1>7, <1>8 DEF GroupsInOrder
<1>10. R \subseteq RxGroup
  BY <1>1
<1>11. Bytes(g) \in Nat /\ Retained(R \cup {g}) = Retained(R) + Bytes(g)
  BY <1>2, <1>3, <1>10, RetainedAdd
<1>12. Retained(R \cup {g}) = Retained(R) + Bytes(g)
  BY <1>11
<1> QED BY <1>1, <1>9, <1>11, <1>12 DEF Swapped

\* A group that is put back with the d bytes it was given.
LEMMA PutBooks ==
  ASSUME NEW b, NEW now \in Nat, NEW top \in Nat, Books(b, now, top),
         NEW g, Coherent(g), g.receivedAt <= now, g.id <= top, ~IsCompleted(b, g.id),
         NEW O, O = GroupsOf(b, g.id), O # {} \/ Cardinality(b.groups) < MaxGroups,
         NEW d \in Nat, b.bytes + d <= MaxBufferedBytes, Retained(O) + d <= Bytes(g),
         NEW c, c.groups = (b.groups \ O) \cup {g}, c.bytes = b.bytes + d,
         c.completed = b.completed
  PROVE  Books(c, now, top)
<1>1. /\ GroupsInOrder(b.groups, now, top) /\ TombstonesInOrder(b.completed, now, top)
      /\ \A h \in b.groups : ~IsCompleted(b, h.id)
      /\ b.bytes \in 0..MaxBufferedBytes /\ b.bytes <= Retained(b.groups)
  BY BooksParts
<1>2. \A h : h \in O <=> h \in b.groups /\ h.id = g.id
  BY DEF GroupsOf
<1>3. /\ GroupsInOrder(c.groups, now, top)
      /\ Retained(O) \in Nat /\ Retained(b.groups \ O) \in Nat /\ Bytes(g) \in Nat
      /\ Retained(b.groups) = Retained(O) + Retained(b.groups \ O)
      /\ Retained(c.groups) = Retained(b.groups \ O) + Bytes(g)
  <2>1. GroupsInOrder((b.groups \ O) \cup {g}, now, top) /\ Swapped(b.groups, O, g)
    BY <1>1, <1>2, GroupsPut
  <2>2. c.groups = (b.groups \ O) \cup {g}
    OBVIOUS
  <2> QED BY <2>1, <2>2 DEF Swapped
<1>4. c.bytes \in 0..MaxBufferedBytes /\ c.bytes <= Retained(c.groups)
  BY <1>1, <1>3, LimitsAssumption
<1>5. \A id : IsCompleted(c, id) <=> IsCompleted(b, id)
  BY DEF IsCompleted
<1>6. \A h \in c.groups : ~IsCompleted(c, h.id)
  BY <1>1, <1>5
<1> QED BY <1>1, <1>3, <1>4, <1>6, BooksParts

\* Tombstones d are those of c and one of group id, without the first of a full c.
Buried(c, d, id) ==
    /\ d \in Tombstones /\ Len(d) \in Nat \ {0} /\ Len(d) <= MaxCompleted
    /\ DOMAIN d = 1..Len(d) /\ d[Len(d)] = [id |-> id, at |-> clock]
    /\ \A k \in DOMAIN d : k = Len(d) \/ \E j \in DOMAIN c : d[k] = c[j]
    /\ \A k \in DOMAIN c : \/ k = 1 /\ Len(c) >= MaxCompleted
                           \/ \E j \in DOMAIN d : d[j] = c[k]
    /\ \A j, k \in DOMAIN d : d[j].id = d[k].id => j = k

\* The oldest tombstone makes room for a new one.
LEMMA Remembered ==
  ASSUME NEW c \in Tombstones, NEW id \in Nat, clock \in Nat,
         NEW d, d = rememberCompletedGroup(c, id), Len(c) <= MaxCompleted,
         \A j, k \in DOMAIN c : c[j].id = c[k].id => j = k,
         \A k \in DOMAIN c : c[k].id # id
  PROVE  Buried(c, d, id)
<1> DEFINE Record == [id : Nat, at : Nat]
           e == IF Len(c) >= MaxCompleted THEN Tail(c) ELSE c
           s == IF Len(c) >= MaxCompleted THEN 1 ELSE 0
<1>1. Len(c) \in Nat /\ DOMAIN c = 1..Len(c) /\ MaxCompleted \in Nat \ {0}
  BY LenProperties, LimitsAssumption DEF Tombstones
<1>2. Len(c) >= MaxCompleted => Len(c) > 0 /\ c # <<>>
  BY <1>1
<1>3. /\ e \in Seq(Record) /\ Len(e) = Len(c) - s
      /\ \A k \in 1..Len(e) : e[k] = c[k + s]
  <2>1. CASE Len(c) >= MaxCompleted
    BY <1>1, <1>2, <2>1, HeadTailProperties DEF Tombstones
  <2>2. CASE ~(Len(c) >= MaxCompleted)
    BY <1>1, <2>2 DEF Tombstones
  <2> QED BY <2>1, <2>2
<1>4. s \in {0, 1} /\ Len(e) \in Nat /\ Len(e) < MaxCompleted
  BY <1>1, <1>2, <1>3
<1>5. d = Append(e, [id |-> id, at |-> clock]) /\ [id |-> id, at |-> clock] \in Record
  BY DEF rememberCompletedGroup
<1>10. s = 1 => Len(c) >= MaxCompleted
  OBVIOUS
<1> HIDE DEF e, s
<1>6. /\ d \in Seq(Record) /\ Len(d) = Len(e) + 1
      /\ \A k \in 1..Len(e) : d[k] = e[k]
      /\ d[Len(e) + 1] = [id |-> id, at |-> clock]
  BY <1>3, <1>5, AppendProperties
<1>7. DOMAIN d = 1..Len(d)
  BY <1>6, LenProperties
<1>8. ASSUME NEW k \in DOMAIN d
      PROVE  \/ k = Len(d)
             \/ k + s \in DOMAIN c /\ d[k] = c[k + s]
  <2>1. CASE k = Len(d)
    BY <2>1
  <2>2. CASE k # Len(d)
    <3>1. k \in 1..Len(e)
      BY <1>4, <1>6, <1>7, <2>2
    <3>2. d[k] = e[k] /\ e[k] = c[k + s]
      BY <1>3, <1>6, <3>1
    <3>3. k + s \in DOMAIN c
      BY <1>1, <1>3, <1>4, <3>1
    <3> QED BY <3>2, <3>3
  <2> QED BY <2>1, <2>2
<1>9. ASSUME NEW k \in DOMAIN c
      PROVE  \/ k = 1 /\ Len(c) >= MaxCompleted
             \/ \E j \in DOMAIN d : d[j] = c[k]
  <2>0. k \in Int /\ 1 <= k /\ k <= Len(c)
    BY <1>1
  <2>1. CASE k - s \in 1..Len(e)
    <3>1. k - s \in DOMAIN d
      BY <1>4, <1>6, <1>7, <2>1
    <3>4. d[k - s] = e[k - s]
      BY <1>6, <2>1
    <3>2. e[k - s] = c[(k - s) + s]
      BY <1>3, <2>1
    <3>3. (k - s) + s = k
      BY <1>4, <2>0
    <3> QED BY <3>1, <3>2, <3>3, <3>4
  <2>2. CASE k - s \notin 1..Len(e)
    <3>1. Len(e) = Len(c) - s
      BY <1>3
    <3>2. k - s < 1
      BY <1>1, <1>4, <2>0, <2>2, <3>1
    <3>3. k = 1 /\ s = 1
      BY <1>4, <2>0, <3>2
    <3> QED BY <1>10, <3>3
  <2> QED BY <2>1, <2>2
<1>11. ASSUME NEW j \in DOMAIN d, NEW k \in DOMAIN d, d[j].id = d[k].id
       PROVE  j = k
  <2>1. d[Len(d)].id = id
    BY <1>4, <1>6
  <2>2. CASE j # Len(d) /\ k # Len(d)
    <3>1. j + s = k + s
      <4>1. j + s \in DOMAIN c /\ d[j] = c[j + s] /\ k + s \in DOMAIN c /\ d[k] = c[k + s]
        BY <1>8, <2>2
      <4> QED BY <1>11, <4>1
    <3> QED BY <1>4, <1>6, <1>7, <3>1
  <2>3. CASE j = Len(d) \/ k = Len(d)
    BY <1>8, <1>11, <2>1, <2>3
  <2> QED BY <2>2, <2>3
<1>12. /\ d \in Tombstones /\ Len(d) \in Nat \ {0} /\ Len(d) <= MaxCompleted
       /\ d[Len(d)] = [id |-> id, at |-> clock]
  BY <1>1, <1>4, <1>6 DEF Tombstones
<1> QED BY <1>7, <1>8, <1>9, <1>11, <1>12 DEF Buried

\* A group as AddPacket finds it for shard p: open already, or new and empty.
LEMMA Fetched ==
  ASSUME NEW b, NEW top \in Nat, clock \in Nat, Books(b, clock, top),
         NEW p, WellMade(p), p.group <= top, NEW g, g = group(b, p)
  PROVE  /\ Coherent(g) /\ g.id = p.group /\ g.receivedAt <= clock /\ g.id <= top
         /\ \/ g \in b.groups /\ GroupsOf(b, p.group) = {g}
            \/ GroupsOf(b, p.group) = {} /\ Present(g) = {} /\ g.receivedAt = clock
<1>1. /\ p \in ShardSet /\ p.group \in Nat /\ p.total \in Nat /\ p.total > DataShards
      /\ DataShards \in Nat \ {0}
  BY OptionsAssumption DEF WellMade, ShardSet
<1>2. CASE GroupsOf(b, p.group) = {}
  <2>1. g = newGroup(p)
    BY <1>2 DEF group
  <2>2. /\ g.id = p.group /\ g.receivedAt = clock /\ g.delivered = {}
        /\ g.shards = [i \in 0..(p.total - 1) |-> NoShard]
        /\ g = [id |-> p.group, receivedAt |-> clock, delivered |-> {}, shards |-> g.shards]
    BY <2>1 DEF newGroup
  <2>3. NoShard \in StoredShard
    BY DEF NoShard, StoredShard, Words, Empty
  <2>4. g.shards \in [0..(p.total - 1) -> StoredShard]
    BY <2>2, <2>3
  <2>5. g \in RxGroup
    BY <1>1, <2>2, <2>4 DEF RxGroup
  <2>6. DOMAIN g.shards = 0..(p.total - 1) /\ Cardinality(DOMAIN g.shards) = p.total
    <3>1. DOMAIN g.shards = 0..(p.total - 1)
      BY <2>2
    <3> DEFINE m == p.total - 1
    <3>2. m \in Int /\ ~(0 > m) /\ m - 0 + 1 = p.total /\ 0 \in Int
      BY <1>1
    <3> HIDE DEF m
    <3>3. Cardinality(0..m) = m - 0 + 1
      BY <3>2, FS_Interval
    <3> QED BY <3>1, <3>2, <3>3 DEF m
  <2>7. Present(g) = {}
    BY <2>2, <2>6 DEF Present
  <2>8. Coherent(g)
    BY <1>1, <2>5, <2>6, <2>7 DEF Coherent
  <2>9. g.receivedAt <= clock
    BY <2>2
  <2> QED BY <1>2, <2>2, <2>7, <2>8, <2>9
<1>3. CASE GroupsOf(b, p.group) # {}
  <2>1. g = CHOOSE h \in b.groups : h.id = p.group
    BY <1>3 DEF group
  <2>2. \E h \in b.groups : h.id = p.group
    BY <1>3 DEF GroupsOf
  <2>3. g \in b.groups /\ g.id = p.group
    BY <2>1, <2>2
  <2>4. Coherent(g) /\ g.receivedAt <= clock /\ \A h \in b.groups : h.id = g.id => h = g
    BY <2>3 DEF Books
  <2>5. GroupsOf(b, p.group) = {g}
    BY <2>3, <2>4 DEF GroupsOf
  <2> QED BY <2>3, <2>4, <2>5
<1> QED BY <1>2, <1>3

\* What GroupsOf retains is no more than the group that is fetched.
LEMMA FetchedBytes ==
  ASSUME NEW b, NEW p, NEW g, Coherent(g),
         GroupsOf(b, p.group) = {g} \/ GroupsOf(b, p.group) = {}
  PROVE  /\ Retained(GroupsOf(b, p.group)) \in Nat /\ Bytes(g) \in Nat
         /\ Retained(GroupsOf(b, p.group)) <= Bytes(g)
<1>1. g \in RxGroup
  BY DEF Coherent
<1>2. Retained({g}) = Bytes(g) /\ Bytes(g) \in Nat
  BY <1>1, RetainedOne
<1>3. Retained({}) = 0
  <2> DEFINE H == [h \in {} |-> Bytes(h)]
  <2>1. \A h \in {} : H[h] = Bytes(h)
    OBVIOUS
  <2> HIDE DEF H
  <2>2. Retained({}) = Sum(H, {})
    BY <2>1, FS_EmptySet, RetainedSum
  <2> QED BY <2>2, SumEmpty
<1> QED BY <1>2, <1>3

\* Group h is g with shard p in it.
Grown(g, h, p) ==
    /\ Coherent(h) /\ h.id = g.id /\ h.receivedAt = g.receivedAt
    /\ DOMAIN h.shards = DOMAIN g.shards /\ p.index \in DOMAIN g.shards
    /\ Present(h) = Present(g) \cup {p.index}
    /\ h.shards[p.index].word = p.word /\ h.shards[p.index].content = p.content
    /\ \A i \in Present(g) : h.shards[i] = g.shards[i]
    /\ Bytes(g) \in Nat /\ Bytes(h) \in Nat /\ Bytes(h) = Bytes(g) + p.size

\* Storing a shard that was missing adds exactly its size.
LEMMA StoredGrows ==
  ASSUME NEW g, Coherent(g), NEW p, WellMade(p), sameMetadata(g, p), p.index \notin Present(g),
         NEW h, h = Stored(g, p)
  PROVE  Grown(g, h, p)
<1>1. /\ p.index \in Nat /\ p.total \in Nat /\ p.index < p.total /\ p.size \in Nat
      /\ p.content \in Nat /\ p.word \in Words /\ p.total > DataShards
      /\ p.index >= DataShards => p.word \in [1..DataShards -> Nat]
      /\ DataShards \in Nat \ {0}
  BY OptionsAssumption DEF WellMade, ShardSet
<1>2. g \in RxGroup /\ Cardinality(DOMAIN g.shards) = p.total
  BY DEF Coherent, sameMetadata
<1>3. /\ g.shards \in [0..(p.total - 1) -> StoredShard] /\ DOMAIN g.shards = 0..(p.total - 1)
      /\ IsFiniteSet(DOMAIN g.shards)
  BY <1>2, GroupShape
<1>4. p.index \in DOMAIN g.shards
  BY <1>1, <1>3
<1> DEFINE new == [size |-> p.size, content |-> p.content, word |-> p.word, total |-> p.total]
<1>5. /\ new \in StoredShard /\ new # NoShard /\ new.size = p.size /\ new.total = p.total
      /\ new.word = p.word /\ new.content = p.content
  BY <1>1 DEF StoredShard, NoShard
<1>6. g = [id |-> g.id, receivedAt |-> g.receivedAt, delivered |-> g.delivered, shards |-> g.shards]
         /\ g.id \in Nat /\ g.receivedAt \in Nat /\ g.delivered \in SUBSET Nat
  BY <1>2 DEF RxGroup
<1>7. h = [id |-> g.id, receivedAt |-> g.receivedAt, delivered |-> g.delivered,
           shards |-> [g.shards EXCEPT ![p.index] = new]]
  BY <1>6 DEF Stored
<1>8. /\ h.id = g.id /\ h.receivedAt = g.receivedAt /\ h.delivered = g.delivered
      /\ h.shards = [g.shards EXCEPT ![p.index] = new]
  BY <1>7
<1> HIDE DEF new
<1>9. /\ h.shards \in [0..(p.total - 1) -> StoredShard] /\ DOMAIN h.shards = DOMAIN g.shards
      /\ h.shards[p.index] = new
      /\ \A i \in DOMAIN g.shards : i # p.index => h.shards[i] = g.shards[i]
  BY <1>3, <1>4, <1>5, <1>8
<1>10. h \in RxGroup
  <2>1. h.shards \in UNION {[0..(k - 1) -> StoredShard] : k \in Nat}
    BY <1>1, <1>9
  <2>2. h = [id |-> h.id, receivedAt |-> h.receivedAt, delivered |-> h.delivered, shards |-> h.shards]
    BY <1>7
  <2> QED BY <1>6, <1>8, <2>1, <2>2 DEF RxGroup
<1>11. Present(h) = Present(g) \cup {p.index}
  BY <1>4, <1>5, <1>9 DEF Present
<1>12. \A i \in Present(g) : h.shards[i] = g.shards[i]
  BY <1>9 DEF Present
<1>13. Coherent(h)
  <2>1. Cardinality(DOMAIN h.shards) = p.total
    BY <1>2, <1>9
  <2>2. ASSUME NEW i \in Present(h)
        PROVE  /\ h.shards[i].total = p.total
               /\ i >= DataShards => h.shards[i].word \in [1..DataShards -> Nat]
    <3>1. CASE i = p.index
      BY <1>1, <1>5, <1>9, <3>1
    <3>2. CASE i # p.index
      BY <1>2, <1>11, <1>12, <3>2 DEF Coherent
    <3> QED BY <3>1, <3>2
  <2> QED BY <1>1, <1>10, <2>1, <2>2 DEF Coherent
<1>14. Bytes(g) \in Nat /\ Bytes(h) \in Nat /\ Bytes(h) = Bytes(g) + p.size
  <2> DEFINE F == [i \in DOMAIN g.shards |-> g.shards[i].size]
             H == [i \in DOMAIN g.shards |-> h.shards[i].size]
             D == DOMAIN g.shards
  <2>1. /\ \A i \in D : F[i] = g.shards[i].size
        /\ \A i \in DOMAIN h.shards : H[i] = h.shards[i].size
    BY <1>9
  <2>2. \A i \in D : F[i] \in Nat /\ H[i] \in Nat
    BY <1>3, <1>9 DEF StoredShard
  <2>3. F[p.index] = 0 /\ H[p.index] = p.size /\ \A i \in D \ {p.index} : F[i] = H[i]
    <3>1. g.shards[p.index] = NoShard
      BY <1>4 DEF Present
    <3>2. g.shards[p.index].size = 0
      BY <3>1 DEF NoShard
    <3> QED BY <1>4, <1>5, <1>9, <3>2
  <2> HIDE DEF F, H
  <2>4. /\ Bytes(g) = Sum(F, D) /\ Bytes(g) \in Nat
        /\ Bytes(h) = Sum(H, DOMAIN h.shards) /\ Bytes(h) \in Nat
    BY <1>2, <1>10, <2>1, BytesSum
  <2>5. Bytes(h) = Sum(H, D)
    BY <1>9, <2>4
  <2> HIDE DEF D
  <2>6. p.index \in D /\ IsFiniteSet(D)
    BY <1>3, <1>4 DEF D
  <2>7. /\ Sum(F, D \ {p.index}) \in Nat /\ Sum(F, D) = F[p.index] + Sum(F, D \ {p.index})
        /\ Sum(H, D \ {p.index}) \in Nat /\ Sum(H, D) = H[p.index] + Sum(H, D \ {p.index})
    <3> DEFINE x == p.index
    <3>1. x \in D
      BY <2>6
    <3> HIDE DEF x
    <3>2. Sum(F, D) \in Nat /\ Sum(F, D \ {x}) \in Nat /\ Sum(F, D) = F[x] + Sum(F, D \ {x})
      <4>1. \A i \in D : F[i] \in Nat
        BY <2>2
      <4>2. /\ Sum(F, D) \in Nat
            /\ \A i \in D : Sum(F, D \ {i}) \in Nat /\ Sum(F, D) = F[i] + Sum(F, D \ {i})
        BY <2>6, <4>1, SumRemove
      <4> QED BY <3>1, <4>2
    <3>3. Sum(H, D) \in Nat /\ Sum(H, D \ {x}) \in Nat /\ Sum(H, D) = H[x] + Sum(H, D \ {x})
      <4>1. \A i \in D : H[i] \in Nat
        BY <2>2
      <4>2. /\ Sum(H, D) \in Nat
            /\ \A i \in D : Sum(H, D \ {i}) \in Nat /\ Sum(H, D) = H[i] + Sum(H, D \ {i})
        BY <2>6, <4>1, SumRemove
      <4> QED BY <3>1, <4>2
    <3> QED BY <3>2, <3>3 DEF x
  <2>8. IsFiniteSet(D \ {p.index})
    BY <2>6, FS_RemoveElement
  <2>9. Sum(F, D \ {p.index}) = Sum(H, D \ {p.index})
    BY <2>3, <2>8, SumAgrees
  <2> QED BY <1>1, <2>3, <2>4, <2>5, <2>7, <2>9
<1> QED BY <1>4, <1>5, <1>8, <1>9, <1>11, <1>12, <1>13, <1>14 DEF Grown

\* The greatest of finitely many numbers.
LEMMA Greatest ==
  ASSUME NEW D, IsFiniteSet(D), D # {}, NEW F \in [D -> Nat], NEW S, S = {F[i] : i \in D}
  PROVE  Max(S) \in Nat /\ \A i \in D : F[i] <= Max(S)
<1>1. F \in Surjection(D, S)
  <2>1. F \in [D -> S]
    OBVIOUS
  <2> QED BY <2>1 DEF Surjection
<1>2. IsFiniteSet(S)
  BY <1>1, FS_Surjection
<1>3. S \in SUBSET Nat /\ S # {}
  OBVIOUS
<1>4. Max(S) \in S /\ \A y \in S : Max(S) >= y
  BY <1>2, <1>3, MaxExists
<1>5. \A i \in D : F[i] \in S /\ F[i] \in Nat
  OBVIOUS
<1>6. Max(S) \in Nat
  BY <1>3, <1>4
<1> HIDE DEF Max
<1> QED BY <1>4, <1>5, <1>6

\* A group with enough shards that lacks a data shard has a parity shard.
LEMMA ParityPresent ==
  ASSUME NEW g, Coherent(g), hasEnoughFECShards(g), missingDataShardIndexes(g) # {}
  PROVE  \E k \in Present(g) : k >= DataShards
<1> SUFFICES ASSUME \A k \in Present(g) : ~(k >= DataShards) PROVE FALSE
  OBVIOUS
<1>1. PICK n \in Nat : DOMAIN g.shards = 0..(n - 1)
  BY GroupShape DEF Coherent
<1>2. PICK m \in Indexes : m \notin Present(g)
  BY DEF missingDataShardIndexes, Indexes
<1>3. Present(g) \subseteq Indexes \ {m}
  BY <1>1, <1>2, OptionsAssumption DEF Present, Indexes
<1>4. IsFiniteSet(Indexes) /\ Cardinality(Indexes) = DataShards
  <2>1. DataShards - 1 \in Int /\ ~(0 > DataShards - 1) /\ (DataShards - 1) - 0 + 1 = DataShards
    BY OptionsAssumption
  <2> QED BY <2>1, FS_Interval DEF Indexes
<1>5. IsFiniteSet(Indexes \ {m}) /\ Cardinality(Indexes \ {m}) = DataShards - 1
  BY <1>2, <1>4, FS_RemoveElement
<1>6. IsFiniteSet(Present(g)) /\ Cardinality(Present(g)) <= DataShards - 1
  BY <1>3, <1>5, FS_Subset
<1>7. Cardinality(Present(g)) \in Nat /\ Cardinality(Present(g)) >= DataShards
  BY <1>6, FS_CardinalityType DEF hasEnoughFECShards
<1> QED BY <1>6, <1>7, OptionsAssumption

\* Group w is g with all its shards recovered.
Decoded(g, w) ==
    /\ Coherent(w) /\ w.id = g.id /\ w.receivedAt = g.receivedAt
    /\ DOMAIN w.shards = DOMAIN g.shards /\ Present(w) = DOMAIN g.shards
    /\ Bytes(g) \in Nat /\ Bytes(w) \in Nat /\ Bytes(g) <= Bytes(w)
    /\ \E k \in Present(g) :
          /\ k >= DataShards
          /\ \A i \in missingDataShardIndexes(g) : w.shards[i].content = g.shards[k].word[i + 1]

\* Decoding recovers the missing payloads out of one parity shard's word, and
\* never reads shards of two encodings: the group has only one.
LEMMA Reconstructed ==
  ASSUME NEW g, Coherent(g), hasEnoughFECShards(g), missingDataShardIndexes(g) # {},
         NEW w, w = Reconstruct(g)
  PROVE  Decoded(g, w)
<1> DEFINE D == DOMAIN g.shards
           parities == {i \in Present(g) : i >= DataShards}
           k == CHOOSE i \in parities : TRUE
           S == {g.shards[i].size : i \in D}
           longest == Max(S)
           word == g.shards[k].word
           n == Cardinality(D)
           value(i) == IF i \in Present(g) THEN g.shards[i].content ELSE word[i + 1]
           shards == [i \in D |-> [size |-> longest, total |-> n,
                                   content |-> IF i < DataShards THEN value(i) ELSE Empty,
                                   word |-> IF i < DataShards THEN <<>> ELSE word]]
<1>1. /\ g \in RxGroup /\ Cardinality(D) > DataShards
      /\ \A i \in Present(g) : /\ g.shards[i].total = n
                               /\ i >= DataShards => g.shards[i].word \in [1..DataShards -> Nat]
  BY DEF Coherent
<1>2. /\ n \in Nat /\ D = 0..(n - 1) /\ g.shards \in [D -> StoredShard] /\ IsFiniteSet(D)
  BY <1>1, GroupShape
<1>3. k \in Present(g) /\ k >= DataShards
  <2>1. parities # {}
    BY ParityPresent
  <2>2. k \in parities
    BY <2>1
  <2> QED BY <2>2
<1>4. DataShards \in Nat \ {0} /\ n > DataShards /\ D # {}
  <2>1. DataShards \in Nat \ {0} /\ n > DataShards
    BY <1>1, OptionsAssumption
  <2> HIDE DEF n, D
  <2>2. 0 \in 0..(n - 1)
    BY <1>2, <2>1
  <2> QED BY <1>2, <2>1, <2>2
<1>5. word \in [1..DataShards -> Nat]
  BY <1>1, <1>3
<1>6. w = [g EXCEPT !.shards = shards]
  <2>1. \A i \in parities : g.shards[i].total = n
    BY <1>1
  <2> QED BY <2>1 DEF Reconstruct
<1>7. longest \in Nat /\ \A i \in D : g.shards[i].size <= longest
  <2> DEFINE F == [i \in D |-> g.shards[i].size]
  <2>1. \A i \in D : F[i] = g.shards[i].size /\ g.shards[i].size \in Nat
    BY <1>2 DEF StoredShard
  <2>2. F \in [D -> Nat] /\ S = {F[i] : i \in D}
    BY <2>1
  <2> HIDE DEF F, S, D
  <2>3. Max(S) \in Nat /\ \A i \in D : F[i] <= Max(S)
    BY <1>2, <1>4, <2>2, Greatest
  <2> QED BY <2>1, <2>3
<1>8. \A i \in D : value(i) \in Nat \/ ~(i < DataShards)
  <2>1. ASSUME NEW i \in D, i < DataShards PROVE value(i) \in Nat
    <3>1. i + 1 \in 1..DataShards
      BY <1>2, <1>4, <2>1
    <3>2. word[i + 1] \in Nat
      BY <1>5, <3>1
    <3>3. g.shards[i].content \in Nat
      BY <1>2 DEF StoredShard
    <3> QED BY <3>2, <3>3
  <2> QED BY <2>1
<1> HIDE DEF k, S, longest, word, value
<1>9. \A i \in D : /\ shards[i] \in StoredShard /\ shards[i].size = longest
                   /\ shards[i].total = n /\ shards[i] # NoShard
                   /\ i < DataShards => shards[i].content = value(i)
                   /\ i >= DataShards => shards[i].word = word
  <2>1. ASSUME NEW i \in D
        PROVE  /\ shards[i] \in StoredShard /\ shards[i].size = longest
               /\ shards[i].total = n
               /\ i < DataShards => shards[i].content = value(i)
               /\ i >= DataShards => shards[i].word = word
    <3>1. word \in Words /\ <<>> \in Words /\ Empty \in Nat
      BY <1>5 DEF Words, Empty
    <3>2. i \in Nat
      BY <1>2
    <3>3. CASE i < DataShards
      BY <1>2, <1>4, <1>7, <1>8, <3>1, <3>2, <3>3 DEF StoredShard
    <3>4. CASE ~(i < DataShards)
      BY <1>2, <1>4, <1>7, <3>1, <3>2, <3>4 DEF StoredShard
    <3> QED BY <3>3, <3>4
  <2>2. NoShard.total = 0
    BY DEF NoShard
  <2>3. \A i \in D : shards[i] # NoShard
    <3> HIDE DEF shards
    <3>1. n # 0
      BY <1>4
    <3> QED BY <2>1, <2>2, <3>1
  <2> HIDE DEF shards
  <2> QED BY <2>1, <2>3
<1> HIDE DEF shards
<1>10. g = [id |-> g.id, receivedAt |-> g.receivedAt, delivered |-> g.delivered, shards |-> g.shards]
         /\ g.id \in Nat /\ g.receivedAt \in Nat /\ g.delivered \in SUBSET Nat
  BY <1>1 DEF RxGroup
<1>11. w = [id |-> g.id, receivedAt |-> g.receivedAt, delivered |-> g.delivered, shards |-> shards]
  BY <1>6, <1>10
<1>12. /\ w.id = g.id /\ w.receivedAt = g.receivedAt /\ w.shards = shards
       /\ DOMAIN shards = D /\ shards \in [D -> StoredShard]
  BY <1>9, <1>11 DEF shards
<1>13. w \in RxGroup
  <2>1. shards \in UNION {[0..(m - 1) -> StoredShard] : m \in Nat}
    BY <1>2, <1>12
  <2> QED BY <1>10, <1>11, <2>1 DEF RxGroup
<1>14. Present(w) = D
  BY <1>9, <1>12 DEF Present
<1>15. Coherent(w)
  <2>1. ASSUME NEW i \in D PROVE i >= DataShards => shards[i].word \in [1..DataShards -> Nat]
    BY <1>5, <1>9
  <2> QED BY <1>1, <1>9, <1>12, <1>13, <1>14, <2>1 DEF Coherent
<1>16. Bytes(g) \in Nat /\ Bytes(w) \in Nat /\ Bytes(g) <= Bytes(w)
  <2> DEFINE F == [i \in D |-> g.shards[i].size]
             H == [i \in D |-> w.shards[i].size]
  <2>1. /\ \A i \in D : F[i] = g.shards[i].size
        /\ \A i \in DOMAIN w.shards : H[i] = w.shards[i].size
    BY <1>12
  <2>2. \A i \in D : F[i] \in Nat /\ H[i] \in Nat /\ F[i] <= H[i]
    BY <1>2, <1>7, <1>9, <1>12 DEF StoredShard
  <2> HIDE DEF F, H
  <2>3. Bytes(g) = Sum(F, D) /\ Bytes(g) \in Nat
    BY <1>1, <2>1, BytesSum
  <2>4. Bytes(w) = Sum(H, DOMAIN w.shards) /\ Bytes(w) \in Nat
    BY <1>13, <2>1, BytesSum
  <2>5. Sum(F, D) <= Sum(H, D)
    BY <1>2, <2>2, SumMonotone
  <2> QED BY <1>12, <2>3, <2>4, <2>5
<1>17. \A i \in missingDataShardIndexes(g) : w.shards[i].content = g.shards[k].word[i + 1]
  <2>1. ASSUME NEW i \in missingDataShardIndexes(g) PROVE w.shards[i].content = word[i + 1]
    <3>1. i \in D /\ i < DataShards /\ i \notin Present(g)
      BY <1>2, <1>4 DEF missingDataShardIndexes
    <3> QED BY <1>9, <1>12, <3>1 DEF value
  <2> QED BY <2>1 DEF word
<1> QED BY <1>3, <1>12, <1>14, <1>15, <1>16, <1>17 DEF Decoded

-----------------------------------------------------------------------------
(* What accepting a shard does to the receive buffer.                      *)

\* Shard p may hand contents to the stream: of places that were not settled, as
\* the shard itself or a pending group names them.
Recovers(b, p, contents) ==
    /\ DOMAIN contents \subseteq Indexes
    /\ \A i \in DOMAIN contents :
          /\ ~Settled(b, p.group, i)
          /\ contents[i] \in Nat
          /\ contents[i] # Empty => Names(p, i, contents[i]) \/ Pending(b, p.group, i, contents[i])

\* Buffer c is in order, has settled places D of p's group, and otherwise what b
\* had settled, except for what a tombstone that made room had; it could recover
\* nothing more than b and p name, and its groups are those of b or new.
Advances(b, c, p, D) ==
    /\ Books(c, clock, fecGroup)
    /\ \A i \in D : Settled(c, p.group, i)
    /\ \A id \in Nat, i \in Indexes, n \in Nat :
          Pending(c, id, i, n) => Pending(b, id, i, n) \/ (id = p.group /\ Names(p, i, n))
    /\ \A id \in Nat, i \in Indexes :
          Settled(b, id, i) => \/ Settled(c, id, i)
                               \/ Len(b.completed) >= MaxCompleted /\ b.completed[1].id = id
    /\ \A g \in c.groups : \/ \E h \in b.groups : h.id = g.id /\ h.receivedAt = g.receivedAt
                           \/ g.id = p.group /\ g.receivedAt = clock
    /\ \A k \in DOMAIN c.completed :
          \/ \E j \in DOMAIN b.completed : c.completed[k] = b.completed[j]
          \/ c.completed[k] = [id |-> p.group, at |-> clock]

\* Group g is the one of shard p in b, or a new one for it.
Found(b, g, p) ==
    /\ Coherent(g) /\ g.id = p.group /\ g.receivedAt <= clock /\ g.id <= fecGroup
    /\ ~IsCompleted(b, p.group)
    /\ \/ g \in b.groups /\ GroupsOf(b, p.group) = {g}
       \/ GroupsOf(b, p.group) = {} /\ Present(g) = {} /\ g.receivedAt = clock

\* Group h is g with shard p at most, or with all its shards.
Kept(g, h, p) ==
    /\ Coherent(h) /\ h.id = g.id /\ h.receivedAt = g.receivedAt
    /\ Present(g) \subseteq Present(h)
    /\ \A i \in Indexes \ Present(h) : \A k \in Present(h) :
          k >= DataShards => \/ k \in Present(g) /\ h.shards[k].word = g.shards[k].word
                             \/ k = p.index /\ h.shards[k].word = p.word

\* The marks on what was delivered change nothing else.
LEMMA Marked ==
  ASSUME NEW g, Coherent(g), NEW X \in SUBSET Nat, NEW h, h = [g EXCEPT !.delivered = X]
  PROVE  /\ Coherent(h) /\ h.id = g.id /\ h.receivedAt = g.receivedAt /\ h.shards = g.shards
         /\ Present(h) = Present(g) /\ Bytes(h) = Bytes(g)
<1>1. g \in RxGroup
  BY DEF Coherent
<1>2. /\ g = [id |-> g.id, receivedAt |-> g.receivedAt, delivered |-> g.delivered, shards |-> g.shards]
      /\ g.id \in Nat /\ g.receivedAt \in Nat
      /\ g.shards \in UNION {[0..(k - 1) -> StoredShard] : k \in Nat}
  BY <1>1 DEF RxGroup
<1>3. h = [id |-> g.id, receivedAt |-> g.receivedAt, delivered |-> X, shards |-> g.shards]
  BY <1>2
<1>4. h.id = g.id /\ h.receivedAt = g.receivedAt /\ h.shards = g.shards /\ h \in RxGroup
  BY <1>2, <1>3 DEF RxGroup
<1>5. Present(h) = Present(g)
  BY <1>4 DEF Present
<1>6. Bytes(h) = Bytes(g)
  BY <1>4 DEF Bytes
<1>7. Coherent(h)
  BY <1>4, <1>5 DEF Coherent
<1> QED BY <1>4, <1>5, <1>6, <1>7

\* A place is not settled when its group is pending without it.
LEMMA NotSettled ==
  ASSUME NEW b, NEW p, NEW g, Found(b, g, p), NEW i, i \notin Present(g)
  PROVE  ~Settled(b, p.group, i)
<1>1. \A h \in b.groups : h.id = p.group => h \in GroupsOf(b, p.group)
  BY DEF GroupsOf
<1>2. \A h \in b.groups : h.id = p.group => h = g
  BY <1>1 DEF Found
<1> QED BY <1>2 DEF Settled, Found

\* Putting a group back, with shard p or not, settles what it has.
LEMMA PutAdvances ==
  ASSUME NEW b, Books(b, clock, fecGroup), clock \in Nat, fecGroup \in Nat,
         NEW p, WellMade(p), NEW g, Found(b, g, p), NEW h, Kept(g, h, p),
         NEW d \in Nat, NEW total \in Nat, total = b.bytes + d, total <= MaxBufferedBytes,
         Bytes(g) \in Nat, Bytes(h) \in Nat,
         Bytes(g) + d <= Bytes(h),
         NEW O, O = GroupsOf(b, p.group), O # {} \/ Cardinality(b.groups) < MaxGroups,
         NEW c, c.groups = (b.groups \ O) \cup {h}, c.bytes = total,
         c.completed = b.completed,
         NEW D \in SUBSET Present(h)
  PROVE  Advances(b, c, p, D)
<1>1. /\ Coherent(h) /\ h.id = p.group /\ h.receivedAt = g.receivedAt /\ h.receivedAt <= clock
      /\ h.id <= fecGroup /\ ~IsCompleted(b, h.id) /\ O = GroupsOf(b, h.id)
      /\ Present(g) \subseteq Present(h)
  BY DEF Found, Kept
<1>2. Retained(O) \in Nat /\ Retained(O) <= Bytes(g)
  BY FetchedBytes DEF Found
<1>3. Retained(O) + d <= Bytes(h)
  BY <1>2
<1>4. Books(c, clock, fecGroup)
  BY <1>1, <1>3, PutBooks
<1>5. \A k \in b.groups : k \in O <=> k.id = p.group
  BY DEF GroupsOf
<1>6. \A i \in D : Settled(c, p.group, i)
  BY <1>1 DEF Settled
<1>7. \A id \in Nat, i \in Indexes : Settled(b, id, i) => Settled(c, id, i)
  <2>1. ASSUME NEW id \in Nat, NEW i \in Indexes, Settled(b, id, i) PROVE Settled(c, id, i)
    <3>1. CASE IsCompleted(b, id)
      BY <3>1 DEF IsCompleted, Settled
    <3>2. CASE \E k \in b.groups : k.id = id /\ i \in Present(k)
      <4>1. PICK k \in b.groups : k.id = id /\ i \in Present(k)
        BY <3>2
      <4>2. CASE k \in O
        <5>1. k = g
          BY <4>2 DEF Found
        <5>2. id = p.group
          BY <1>5, <4>1, <4>2
        <5> QED BY <1>1, <4>1, <5>1, <5>2 DEF Settled
      <4>3. CASE k \notin O
        BY <4>1, <4>3 DEF Settled
      <4> QED BY <4>2, <4>3
    <3> QED BY <2>1, <3>1, <3>2 DEF Settled
  <2> QED BY <2>1
<1>8. ASSUME NEW id \in Nat, NEW i \in Indexes, NEW n \in Nat, Pending(c, id, i, n)
      PROVE  Pending(b, id, i, n) \/ (id = p.group /\ Names(p, i, n))
  <2>1. n # Empty
    BY <1>8 DEF Pending
  <2>2. PICK k \in c.groups : /\ k.id = id /\ i \notin Present(k)
                              /\ \E j \in Present(k) : j >= DataShards /\ k.shards[j].word[i + 1] = n
    BY <1>8 DEF Pending
  <2>3. PICK j \in Present(k) : j >= DataShards /\ k.shards[j].word[i + 1] = n
    BY <2>2
  <2>4. CASE k \in b.groups
    BY <2>1, <2>2, <2>3, <2>4 DEF Pending
  <2>5. CASE k = h
    <3>1. \/ j \in Present(g) /\ h.shards[j].word = g.shards[j].word
          \/ j = p.index /\ h.shards[j].word = p.word
      BY <2>2, <2>3, <2>5 DEF Kept
    <3>2. CASE j = p.index /\ h.shards[j].word = p.word
      BY <1>1, <2>1, <2>2, <2>3, <2>5, <3>2 DEF Names
    <3>3. CASE j \in Present(g) /\ h.shards[j].word = g.shards[j].word
      <4>1. g \in b.groups /\ i \notin Present(g) /\ g.id = id
        BY <1>1, <2>2, <2>5, <3>3 DEF Found
      <4>2. g.shards[j].word[i + 1] = n
        BY <2>3, <2>5, <3>3
      <4> QED BY <2>1, <2>3, <3>3, <4>1, <4>2 DEF Pending
    <3> QED BY <3>1, <3>2, <3>3
  <2> QED BY <2>2, <2>4, <2>5
<1>9. ASSUME NEW k \in c.groups
      PROVE  \/ \E j \in b.groups : j.id = k.id /\ j.receivedAt = k.receivedAt
             \/ k.id = p.group /\ k.receivedAt = clock
  <2>1. CASE k \in b.groups
    BY <2>1
  <2>2. CASE k = h
    BY <1>1, <2>2 DEF Found
  <2> QED BY <2>1, <2>2
<1> QED BY <1>4, <1>6, <1>7, <1>8, <1>9 DEF Advances

\* Completing a group leaves a tombstone for it and gives its bytes back.
LEMMA CompleteAdvances ==
  ASSUME NEW b, Books(b, clock, fecGroup), clock \in Nat, fecGroup \in Nat,
         NEW p, WellMade(p), NEW g, Found(b, g, p), NEW h, Kept(g, h, p),
         NEW d \in Nat, NEW total \in Nat, total = b.bytes + d, total <= MaxBufferedBytes,
         Bytes(g) \in Nat, Bytes(h) \in Nat,
         Bytes(g) + d <= Bytes(h),
         NEW O, O = GroupsOf(b, p.group),
         NEW c, c.groups = b.groups \ O, c.bytes = releaseGroupShards(total, {h}),
         c.completed = rememberCompletedGroup(b.completed, p.group),
         NEW D \in SUBSET Indexes
  PROVE  Advances(b, c, p, D)
<1> DEFINE R == b.groups \ O
<1>1. /\ Coherent(h) /\ g.id = p.group /\ ~IsCompleted(b, p.group) /\ p.group \in Nat
      /\ h \in RxGroup /\ p.group <= fecGroup
  BY DEF Found, Kept, Coherent, WellMade, ShardSet
<1>2. /\ GroupsInOrder(b.groups, clock, fecGroup) /\ TombstonesInOrder(b.completed, clock, fecGroup)
      /\ \A k \in b.groups : ~IsCompleted(b, k.id)
      /\ b.bytes \in 0..MaxBufferedBytes /\ b.bytes <= Retained(b.groups)
  BY BooksParts
<1>3. Retained(O) \in Nat /\ Retained(O) <= Bytes(g)
  BY FetchedBytes DEF Found
<1>4. \A k \in b.groups : k \in O <=> k.id = p.group
  BY DEF GroupsOf
<1>5. O \in SUBSET b.groups
  BY DEF GroupsOf
<1>6. /\ GroupsInOrder(R, clock, fecGroup)
      /\ Retained(R) \in Nat /\ Retained(b.groups) \in Nat /\ Retained(O) \in Nat
      /\ Retained(b.groups) = Retained(O) + Retained(R)
  <2>1. R \in SUBSET b.groups /\ b.groups \ R = O
    BY <1>5
  <2>2. GroupsInOrder(R, clock, fecGroup) /\ Splits(b.groups, R)
    <3> HIDE DEF R
    <3> QED BY <1>2, <2>1, FewerGroups
  <2> HIDE DEF R
  <2>3. /\ Retained(b.groups) \in Nat /\ Retained(R) \in Nat /\ Retained(b.groups \ R) \in Nat
        /\ Retained(b.groups) = Retained(R) + Retained(b.groups \ R)
    BY <2>2 DEF Splits
  <2>4. Retained(b.groups \ R) = Retained(O)
    BY <2>1
  <2> QED BY <2>2, <2>3, <2>4
<1>7. Retained({h}) = Bytes(h)
  BY <1>1, RetainedOne
<1>8. c.bytes \in 0..MaxBufferedBytes /\ c.bytes <= Retained(R)
  <2> HIDE DEF R
  <2>1. /\ b.bytes \in Nat /\ total \in Nat /\ total = b.bytes + d /\ total <= MaxBufferedBytes
        /\ c.bytes = releaseGroupShards(total, {h})
    BY <1>2, LimitsAssumption
  <2>2. c.bytes = IF total - Retained({h}) < 0 THEN 0 ELSE total - Retained({h})
    BY <2>1 DEF releaseGroupShards
  <2>3. total <= Retained(R) + Bytes(h)
    BY <1>2, <1>3, <1>6, <2>1
  <2> QED BY <1>6, <1>7, <2>1, <2>2, <2>3, LimitsAssumption
<1> DEFINE last == Len(c.completed)
<1>9. /\ b.completed \in Tombstones /\ Len(b.completed) <= MaxCompleted
      /\ \A k \in DOMAIN b.completed : b.completed[k].id # p.group
      /\ \A j, k \in DOMAIN b.completed : b.completed[j].id = b.completed[k].id => j = k
  BY <1>1, <1>2 DEF TombstonesInOrder, IsCompleted
<1>23. Buried(b.completed, c.completed, p.group)
  BY <1>1, <1>9, Remembered
<1>10. /\ c.completed \in Tombstones /\ last \in DOMAIN c.completed /\ last <= MaxCompleted
       /\ c.completed[last] = [id |-> p.group, at |-> clock]
  BY <1>23 DEF Buried
<1>11. \A k \in DOMAIN c.completed :
          \/ k = last
          \/ \E j \in DOMAIN b.completed : c.completed[k] = b.completed[j]
  BY <1>23 DEF Buried
<1>12. \A k \in DOMAIN b.completed :
          \/ k = 1 /\ Len(b.completed) >= MaxCompleted
          \/ \E j \in DOMAIN c.completed : c.completed[j] = b.completed[k]
  BY <1>23 DEF Buried
<1>13. \A j, k \in DOMAIN c.completed : c.completed[j].id = c.completed[k].id => j = k
  BY <1>23 DEF Buried
<1> HIDE DEF last
<1>14. c.completed[last].id = p.group /\ c.completed[last].at = clock
  BY <1>10
<1>15. TombstonesInOrder(c.completed, clock, fecGroup)
  <2>1. ASSUME NEW k \in DOMAIN c.completed
        PROVE  c.completed[k].at <= clock /\ c.completed[k].id <= fecGroup
    <3>1. CASE k = last
      BY <1>1, <1>14, <3>1
    <3>2. CASE \E j \in DOMAIN b.completed : c.completed[k] = b.completed[j]
      BY <1>2, <3>2 DEF TombstonesInOrder
    <3> QED BY <1>11, <3>1, <3>2
  <2> QED BY <1>10, <1>13, <2>1 DEF TombstonesInOrder, last
<1>16. ASSUME NEW k \in R PROVE ~IsCompleted(c, k.id)
  <2>1. SUFFICES ASSUME NEW j \in DOMAIN c.completed, c.completed[j].id = k.id PROVE FALSE
    BY DEF IsCompleted
  <2>2. k.id # p.group /\ ~IsCompleted(b, k.id)
    BY <1>2, <1>4
  <2>3. CASE j = last
    BY <1>14, <2>1, <2>2, <2>3
  <2>4. CASE \E i \in DOMAIN b.completed : c.completed[j] = b.completed[i]
    BY <2>1, <2>2, <2>4 DEF IsCompleted
  <2> QED BY <1>11, <2>3, <2>4
<1>17. Books(c, clock, fecGroup)
  <2>1. c.groups = R
    OBVIOUS
  <2> HIDE DEF R
  <2> QED BY <1>6, <1>8, <1>15, <1>16, <2>1, BooksParts
<1>18. \A i \in D : Settled(c, p.group, i)
  BY <1>10, <1>14 DEF Settled, IsCompleted
<1>19. \A id \in Nat, i \in Indexes, n \in Nat : Pending(c, id, i, n) => Pending(b, id, i, n)
  BY DEF Pending
<1>20. ASSUME NEW id \in Nat, NEW i \in Indexes, Settled(b, id, i)
       PROVE  \/ Settled(c, id, i)
              \/ Len(b.completed) >= MaxCompleted /\ b.completed[1].id = id
  <2>1. CASE IsCompleted(b, id)
    <3>1. PICK k \in DOMAIN b.completed : b.completed[k].id = id
      BY <2>1 DEF IsCompleted
    <3> QED BY <1>12, <3>1 DEF Settled, IsCompleted
  <2>2. CASE \E k \in b.groups : k.id = id /\ i \in Present(k)
    <3>1. CASE id = p.group
      BY <1>10, <1>14, <3>1 DEF Settled, IsCompleted
    <3>2. CASE id # p.group
      BY <1>4, <2>2, <3>2 DEF Settled
    <3> QED BY <3>1, <3>2
  <2> QED BY <1>20, <2>1, <2>2 DEF Settled
<1>21. ASSUME NEW k \in c.groups
       PROVE  \E j \in b.groups : j.id = k.id /\ j.receivedAt = k.receivedAt
  OBVIOUS
<1>22. \A k \in DOMAIN c.completed :
          \/ \E j \in DOMAIN b.completed : c.completed[k] = b.completed[j]
          \/ c.completed[k] = [id |-> p.group, at |-> clock]
  BY <1>10, <1>11
<1> QED BY <1>17, <1>18, <1>19, <1>20, <1>21, <1>22 DEF Advances

\* A receive buffer has these parts and no other.
Parts(b) == b = [groups |-> b.groups, bytes |-> b.bytes, completed |-> b.completed]

\* The parts of a buffer in which group h is put, d bytes later.
LEMMA PutParts ==
  ASSUME NEW b, Parts(b), NEW total, NEW h, NEW a, Parts(a),
         a.groups = b.groups, a.bytes = total, a.completed = b.completed,
         NEW c, c = Put(a, h)
  PROVE  /\ c.groups = (b.groups \ GroupsOf(b, h.id)) \cup {h}
         /\ c.bytes = total /\ c.completed = b.completed
<1>1. a = [groups |-> b.groups, bytes |-> total, completed |-> b.completed]
  BY DEF Parts
<1>2. GroupsOf(a, h.id) = GroupsOf(b, h.id)
  BY <1>1 DEF GroupsOf
<1>3. c = [groups |-> (b.groups \ GroupsOf(b, h.id)) \cup {h}, bytes |-> total,
           completed |-> b.completed]
  BY <1>1, <1>2 DEF Put
<1> QED BY <1>3

\* Completion is one of the two things that happen to a group.
LEMMA CompleteParts ==
  ASSUME NEW b, Parts(b), NEW total, NEW h, NEW a, Parts(a),
         a.groups = b.groups, a.bytes = total, a.completed = b.completed,
         NEW c, c = completeGroupIfDelivered(a, h)
  PROVE  \/ c = Put(a, h)
         \/ /\ c.groups = b.groups \ GroupsOf(b, h.id)
            /\ c.bytes = releaseGroupShards(total, {h})
            /\ c.completed = rememberCompletedGroup(b.completed, h.id)
<1>1. a = [groups |-> b.groups, bytes |-> total, completed |-> b.completed]
  BY DEF Parts
<1>2. GroupsOf(a, h.id) = GroupsOf(b, h.id)
  BY <1>1 DEF GroupsOf
<1>3. CASE h.delivered = 0..(DataShards - 1)
  <2>1. c = [groups |-> b.groups \ GroupsOf(b, h.id), bytes |-> releaseGroupShards(total, {h}),
             completed |-> rememberCompletedGroup(b.completed, h.id)]
    BY <1>1, <1>2, <1>3 DEF completeGroupIfDelivered
  <2> QED BY <2>1
<1>4. CASE h.delivered # 0..(DataShards - 1)
  BY <1>4 DEF completeGroupIfDelivered
<1> QED BY <1>3, <1>4

\* Both ways advance the buffer.
LEMMA FiledBooks ==
  ASSUME NEW b, Parts(b), Books(b, clock, fecGroup), clock \in Nat, fecGroup \in Nat,
         NEW p, WellMade(p), NEW g, Found(b, g, p), NEW h, Kept(g, h, p),
         NEW d \in Nat, NEW total \in Nat, total = b.bytes + d, total <= MaxBufferedBytes,
         Bytes(g) \in Nat, Bytes(h) \in Nat,
         Bytes(g) + d <= Bytes(h),
         GroupsOf(b, p.group) # {} \/ Cardinality(b.groups) < MaxGroups,
         NEW a, Parts(a), a.groups = b.groups, a.bytes = total, a.completed = b.completed,
         NEW c, c = Put(a, h) \/ c = completeGroupIfDelivered(a, h),
         NEW D \in SUBSET Indexes, D \subseteq Present(h)
  PROVE  Advances(b, c, p, D)
<1>1. h.id = p.group
  BY DEF Found, Kept
<1> DEFINE O == GroupsOf(b, p.group)
<1>2. O # {} \/ Cardinality(b.groups) < MaxGroups
  OBVIOUS
<1>3. CASE c = Put(a, h)
  <2>1. c.groups = (b.groups \ O) \cup {h} /\ c.bytes = total /\ c.completed = b.completed
    BY <1>1, <1>3, PutParts
  <2>2. O = GroupsOf(b, p.group)
    OBVIOUS
  <2> HIDE DEF O
  <2> QED BY <1>2, <2>1, <2>2, PutAdvances
<1>4. CASE /\ c.groups = b.groups \ O
           /\ c.bytes = releaseGroupShards(total, {h})
           /\ c.completed = rememberCompletedGroup(b.completed, p.group)
  <2>1. O = GroupsOf(b, p.group)
    OBVIOUS
  <2> HIDE DEF O
  <2> QED BY <1>4, <2>1, CompleteAdvances
<1>5. c = completeGroupIfDelivered(a, h) =>
         \/ c = Put(a, h)
         \/ /\ c.groups = b.groups \ O
            /\ c.bytes = releaseGroupShards(total, {h})
            /\ c.completed = rememberCompletedGroup(b.completed, p.group)
  BY <1>1, CompleteParts
<1> QED BY <1>3, <1>4, <1>5

\* The data shards have places in every group.
LEMMA IndexesInside ==
  ASSUME NEW g, Coherent(g)
  PROVE  Indexes \subseteq DOMAIN g.shards /\ Present(g) \subseteq DOMAIN g.shards
<1>1. PICK n \in Nat : DOMAIN g.shards = 0..(n - 1) /\ Cardinality(DOMAIN g.shards) = n
  BY GroupShape DEF Coherent
<1>2. n > DataShards
  BY <1>1 DEF Coherent
<1> QED BY <1>1, <1>2, OptionsAssumption DEF Indexes, Present

\* What follows an accepted shard.
Outcome(b, p) ==
    \E contents : /\ Recovers(b, p, contents)
                  /\ Advances(b, rx', p, DOMAIN contents)
                  /\ \/ DOMAIN contents = {} /\ UNCHANGED deliveries
                     \/ deliver(contents)

\* Nothing is delivered.
LEMMA NothingDelivered ==
  ASSUME NEW b, NEW p, Advances(b, rx', p, {}), UNCHANGED deliveries
  PROVE  Outcome(b, p)
<1> DEFINE contents == [i \in {} |-> 0]
<1>1. DOMAIN contents = {}
  OBVIOUS
<1> HIDE DEF contents
<1> QED BY <1>1 DEF Outcome, Recovers

\* A group with the shard in it keeps what it had.
LEMMA GrownKept ==
  ASSUME NEW g, NEW s, NEW p, Grown(g, s, p), NEW X \in SUBSET Nat,
         NEW h, h = s \/ h = [s EXCEPT !.delivered = X]
  PROVE  Kept(g, h, p) /\ Present(h) = Present(g) \cup {p.index}
         /\ Bytes(h) = Bytes(s)
<1>1. /\ Coherent(s) /\ s.id = g.id /\ s.receivedAt = g.receivedAt
      /\ Present(s) = Present(g) \cup {p.index}
      /\ s.shards[p.index].word = p.word /\ \A i \in Present(g) : s.shards[i] = g.shards[i]
  BY DEF Grown
<1>2. Coherent(h) /\ h.id = s.id /\ h.receivedAt = s.receivedAt /\ h.shards = s.shards
      /\ Present(h) = Present(s) /\ Bytes(h) = Bytes(s)
  BY <1>1, Marked
<1> QED BY <1>1, <1>2 DEF Kept

\* So does a group that was decoded, which then has everything.
LEMMA DecodedKept ==
  ASSUME NEW g, NEW s, NEW p, Grown(g, s, p), NEW w, Decoded(s, w), NEW X \in SUBSET Nat,
         NEW h, h = [w EXCEPT !.delivered = X]
  PROVE  Kept(g, h, p) /\ Indexes \subseteq Present(h) /\ Bytes(h) = Bytes(w)
<1>1. /\ Coherent(s) /\ s.id = g.id /\ s.receivedAt = g.receivedAt
      /\ Present(s) = Present(g) \cup {p.index}
  BY DEF Grown
<1>2. /\ Coherent(w) /\ w.id = s.id /\ w.receivedAt = s.receivedAt
      /\ Present(w) = DOMAIN s.shards
  BY DEF Decoded
<1>3. Coherent(h) /\ h.id = w.id /\ h.receivedAt = w.receivedAt
      /\ Present(h) = Present(w) /\ Bytes(h) = Bytes(w)
  BY <1>2, Marked
<1>4. Indexes \subseteq Present(h) /\ Present(s) \subseteq Present(h)
  BY <1>1, <1>2, <1>3, IndexesInside
<1> QED BY <1>1, <1>2, <1>3, <1>4 DEF Kept

\* Filing a shard in its group: the three ways AddPacket ends.
LEMMA FiledOutcome ==
  ASSUME clock \in Nat, fecGroup \in Nat,
         NEW b, Parts(b), Books(b, clock, fecGroup),
         NEW p, WellMade(p), NEW g, Found(b, g, p), sameMetadata(g, p), p.index \notin Present(g),
         GroupsOf(b, p.group) # {} \/ Cardinality(b.groups) < MaxGroups,
         NEW total \in Nat, total = b.bytes + p.size, total <= MaxBufferedBytes,
         NEW a, Parts(a), a.groups = b.groups, a.bytes = total, a.completed = b.completed,
         NEW s, s = Stored(g, p), Filed(a, s, p)
  PROVE  Outcome(b, p)
<1>1. Coherent(g)
  BY DEF Found
<1>2. Grown(g, s, p)
  BY <1>1, StoredGrows
<1>3. /\ Coherent(s) /\ Present(s) = Present(g) \cup {p.index} /\ DOMAIN s.shards = DOMAIN g.shards
      /\ s.shards[p.index].word = p.word /\ s.shards[p.index].content = p.content
      /\ \A i \in Present(g) : s.shards[i] = g.shards[i]
      /\ Bytes(g) \in Nat /\ Bytes(s) \in Nat /\ Bytes(s) = Bytes(g) + p.size
  BY <1>2 DEF Grown
<1>4. /\ p.index \in Nat /\ p.size \in Nat /\ p.content \in Nat
      /\ p.index >= DataShards => p.fec /\ p.word \in [1..DataShards -> Nat]
      /\ p.fec /\ p.index < DataShards => p.content = Empty
      /\ p.fec \in BOOLEAN /\ DataShards \in Nat \ {0}
  BY OptionsAssumption DEF WellMade, ShardSet
<1>5. s.delivered \in SUBSET Nat
  BY <1>3 DEF Coherent, RxGroup
<1>6. CASE /\ p.index < DataShards /\ ~p.fec
           /\ rx' = completeGroupIfDelivered(a, [s EXCEPT !.delivered = @ \cup {p.index}])
           /\ deliver([i \in {p.index} |-> p.content])
  <2> DEFINE X == s.delivered \cup {p.index}
             h == [s EXCEPT !.delivered = X]
             contents == [i \in {p.index} |-> p.content]
  <2>1. X \in SUBSET Nat
    BY <1>4, <1>5
  <2>2. rx' = completeGroupIfDelivered(a, h) /\ deliver(contents)
    BY <1>6
  <2>3. Kept(g, h, p) /\ Present(h) = Present(g) \cup {p.index} /\ Bytes(h) = Bytes(s)
    <3>1. h = [s EXCEPT !.delivered = X]
      OBVIOUS
    <3> HIDE DEF h, X
    <3> QED BY <1>2, <2>1, <3>1, GrownKept
  <2>4. DOMAIN contents = {p.index} /\ contents[p.index] = p.content
    OBVIOUS
  <2>5. p.index \in Indexes
    BY <1>4, <1>6 DEF Indexes
  <2> HIDE DEF h, contents
  <2>6. Recovers(b, p, contents)
    <3>1. ~Settled(b, p.group, p.index)
      BY NotSettled
    <3>2. p.content # Empty => Names(p, p.index, p.content)
      BY <2>5 DEF Names
    <3> QED BY <1>4, <2>4, <2>5, <3>1, <3>2 DEF Recovers
  <2>7. Advances(b, rx', p, DOMAIN contents)
    <3>1. DOMAIN contents \in SUBSET Indexes /\ DOMAIN contents \subseteq Present(h)
      BY <2>3, <2>4, <2>5
    <3>2. Bytes(h) \in Nat /\ Bytes(g) + p.size <= Bytes(h)
      BY <1>3, <1>4, <2>3
    <3> QED BY <1>3, <1>4, <2>2, <2>3, <3>1, <3>2, FiledBooks
  <2> QED BY <2>2, <2>6, <2>7 DEF Outcome
<1>7. CASE p.fec /\ rx' = Put(a, s) /\ UNCHANGED deliveries
  <2>1. Kept(g, s, p)
    BY <1>2, <1>5, GrownKept
  <2>2. Bytes(g) + p.size <= Bytes(s) /\ {} \in SUBSET Indexes /\ {} \subseteq Present(s)
    BY <1>3, <1>4
  <2>3. Advances(b, rx', p, {})
    BY <1>3, <1>4, <1>7, <2>1, <2>2, FiledBooks
  <2> QED BY <1>7, <2>3, NothingDelivered
<1>8. ASSUME hasEnoughFECShards(s), missingDataShardIndexes(s) # {}, p.fec,
             NEW missing, missing = missingDataShardIndexes(s),
             NEW w, w = Reconstruct(s),
             NEW h, h = [w EXCEPT !.delivered = @ \cup missing],
             NEW contents, contents = [i \in missing |-> w.shards[i].content],
             rx' = completeGroupIfDelivered(a, h), deliver(contents)
      PROVE  Outcome(b, p)
  <2>1. Decoded(s, w)
    BY <1>3, <1>8, Reconstructed
  <2>2. Coherent(w) /\ Bytes(w) \in Nat /\ Bytes(s) <= Bytes(w)
    BY <2>1 DEF Decoded
  <2>3. missing \subseteq Indexes /\ missing \cap Present(s) = {} /\ Indexes \subseteq Nat
    BY <1>8 DEF missingDataShardIndexes, Indexes
  <2> DEFINE X == w.delivered \cup missing
  <2>4. X \in SUBSET Nat /\ h = [w EXCEPT !.delivered = X]
    BY <1>8, <2>2, <2>3 DEF Coherent, RxGroup
  <2> HIDE DEF X
  <2>5. Kept(g, h, p) /\ Indexes \subseteq Present(h) /\ Bytes(h) = Bytes(w)
    BY <1>2, <2>1, <2>4, DecodedKept
  <2>6. DOMAIN contents = missing /\ \A i \in missing : contents[i] = w.shards[i].content
    BY <1>8
  <2>7. PICK k \in Present(s) : /\ k >= DataShards
                                /\ \A i \in missing : w.shards[i].content = s.shards[k].word[i + 1]
    BY <1>8, <2>1 DEF Decoded
  <2>8. Recovers(b, p, contents)
    <3>1. ASSUME NEW i \in missing
          PROVE  /\ ~Settled(b, p.group, i)
                 /\ contents[i] \in Nat
                 /\ contents[i] # Empty =>
                       Names(p, i, contents[i]) \/ Pending(b, p.group, i, contents[i])
      <4>1. i \in Indexes /\ i \notin Present(s) /\ i \notin Present(g)
        BY <1>3, <2>3
      <4>2. ~Settled(b, p.group, i)
        BY <4>1, NotSettled
      <4>3. contents[i] = s.shards[k].word[i + 1]
        BY <2>6, <2>7
      <4>4. s.shards[k].word \in [1..DataShards -> Nat] /\ i + 1 \in 1..DataShards
        <5>1. i + 1 \in 1..DataShards
          BY <1>4, <4>1 DEF Indexes
        <5>2. s.shards[k].word \in [1..DataShards -> Nat]
          BY <1>3, <2>7 DEF Coherent
        <5> QED BY <5>1, <5>2
      <4>5. contents[i] \in Nat
        BY <4>3, <4>4
      <4>6. CASE k = p.index
        <5>1. p.index >= DataShards /\ contents[i] = p.word[i + 1]
          BY <1>3, <2>7, <4>3, <4>6
        <5> QED BY <4>1, <4>2, <4>5, <5>1 DEF Names
      <4>7. CASE k \in Present(g)
        <5>1. g \in b.groups /\ g.id = p.group
          BY <4>7 DEF Found
        <5>2. contents[i] = g.shards[k].word[i + 1]
          BY <1>3, <4>3, <4>7
        <5>3. contents[i] # Empty => Pending(b, p.group, i, contents[i])
          BY <2>7, <4>1, <4>7, <5>1, <5>2 DEF Pending
        <5> QED BY <4>2, <4>5, <5>3
      <4> QED BY <1>3, <4>2, <4>5, <4>6, <4>7
    <3> QED BY <2>3, <2>6, <3>1 DEF Recovers
  <2>9. Advances(b, rx', p, DOMAIN contents)
    <3>1. DOMAIN contents \in SUBSET Indexes /\ DOMAIN contents \subseteq Present(h)
      BY <2>3, <2>5, <2>6
    <3>2. Bytes(h) \in Nat /\ Bytes(g) + p.size <= Bytes(h)
      BY <1>3, <1>4, <2>2, <2>5
    <3>3. rx' = Put(a, h) \/ rx' = completeGroupIfDelivered(a, h)
      BY <1>8
    <3>4. Bytes(g) \in Nat /\ p.size \in Nat
      BY <1>3, <1>4
    <3> QED BY <2>5, <3>1, <3>2, <3>3, <3>4, FiledBooks
  <2> QED BY <1>8, <2>8, <2>9 DEF Outcome
<1> QED
  <2>1. CASE /\ p.fec
             /\ hasEnoughFECShards(s) /\ missingDataShardIndexes(s) # {}
             /\ LET missing == missingDataShardIndexes(s)
                    whole   == Reconstruct(s)
                IN /\ rx' = completeGroupIfDelivered(a, [whole EXCEPT !.delivered = @ \cup missing])
                   /\ deliver([i \in missing |-> whole.shards[i].content])
    BY <1>8, <2>1
  <2> QED BY <1>6, <1>7, <2>1 DEF Filed

\* Accepting a shard keeps the books in order and only delivers what it may.
LEMMA AddPacketOutcome ==
  ASSUME clock \in Nat, fecGroup \in Nat, Books(rx, clock, fecGroup),
         NEW p, WellMade(p), AddPacket(p), NEW b, b = purgeExpiredGroups(rx)
  PROVE  Books(b, clock, fecGroup) /\ Outcome(b, p)
<1>1. /\ Books(b, clock, fecGroup) /\ Parts(b)
  BY PurgeBooks DEF Parts
<1>2. p.group \in Nat /\ p.group <= fecGroup /\ p.size \in Nat
  BY DEF WellMade, ShardSet
<1> DEFINE g == group(b, p)
<1>3. CASE (IsCompleted(b, p.group) \/ ~canOpenGroup(b, p)) /\ rx' = b /\ UNCHANGED deliveries
  <2>1. Advances(b, b, p, {})
    BY <1>1 DEF Advances
  <2> QED BY <1>1, <1>3, <2>1, NothingDelivered
<1>4. ASSUME ~IsCompleted(b, p.group), canOpenGroup(b, p)
      PROVE  /\ Found(b, g, p)
             /\ GroupsOf(b, p.group) # {} \/ Cardinality(b.groups) < MaxGroups
  <2>1. g = group(b, p)
    OBVIOUS
  <2> HIDE DEF g
  <2> QED BY <1>1, <1>2, <1>4, <2>1, Fetched DEF Found, canOpenGroup
<1>5. CASE ~IsCompleted(b, p.group) /\ canOpenGroup(b, p) /\ rx' = Put(b, g) /\ UNCHANGED deliveries
  <2> HIDE DEF g
  <2>1. Found(b, g, p) /\ (GroupsOf(b, p.group) # {} \/ Cardinality(b.groups) < MaxGroups)
    BY <1>4, <1>5
  <2>2. Kept(g, g, p)
    BY <2>1 DEF Found, Kept
  <2>3. Bytes(g) \in Nat
    BY <2>1, RetainedOne DEF Found, Coherent
  <2>4. b.bytes \in Nat /\ b.bytes = b.bytes + 0 /\ b.bytes <= MaxBufferedBytes /\ 0 \in Nat
        /\ Bytes(g) + 0 <= Bytes(g) /\ {} \in SUBSET Indexes /\ {} \subseteq Present(g)
    BY <1>1, <2>3 DEF Books
  <2>5. Advances(b, rx', p, {})
    <3>1. ASSUME NEW d \in Nat, NEW total \in Nat, total = b.bytes + d, total <= MaxBufferedBytes,
                 Bytes(g) + d <= Bytes(g), b.bytes = total
          PROVE  Advances(b, rx', p, {})
      BY <1>1, <1>5, <2>1, <2>2, <2>3, <2>4, <3>1, FiledBooks
    <3> QED BY <2>4, <3>1
  <2> QED BY <1>1, <1>5, <2>5, NothingDelivered
<1>6. CASE /\ ~IsCompleted(b, p.group) /\ canOpenGroup(b, p)
           /\ sameMetadata(g, p) /\ p.index \notin Present(g)
           /\ b.bytes + p.size <= MaxBufferedBytes
           /\ Filed([b EXCEPT !.bytes = @ + p.size], Stored(g, p), p)
  <2> DEFINE total == b.bytes + p.size
             a == [b EXCEPT !.bytes = @ + p.size]
             s == Stored(g, p)
  <2>1. Found(b, g, p) /\ (GroupsOf(b, p.group) # {} \/ Cardinality(b.groups) < MaxGroups)
    BY <1>4, <1>6
  <2>2. b.bytes \in Nat
    BY <1>1 DEF Books
  <2>3. total \in Nat /\ total = b.bytes + p.size /\ total <= MaxBufferedBytes
    BY <1>2, <1>6, <2>2
  <2>4. a = [groups |-> b.groups, bytes |-> total, completed |-> b.completed]
    BY <1>1 DEF Parts
  <2>5. Parts(a) /\ a.groups = b.groups /\ a.bytes = total /\ a.completed = b.completed
    BY <2>4 DEF Parts
  <2>6. Filed(a, s, p) /\ s = Stored(g, p) /\ sameMetadata(g, p) /\ p.index \notin Present(g)
    BY <1>6
  <2> HIDE DEF g, total, a, s
  <2> QED BY <1>1, <2>1, <2>3, <2>5, <2>6, FiledOutcome
<1> QED BY <1>3, <1>5, <1>6 DEF AddPacket

\* What reaches the stream with contents: nothing else, and each payload once
\* when the contents are different.
Handed(contents) ==
    /\ deliveries' \in [Contents -> Nat] /\ deliveries'[Garbage] = deliveries[Garbage]
    /\ \A n \in Payloads :
          /\ (\A i \in DOMAIN contents : contents[i] # n) => deliveries'[n] = deliveries[n]
          /\ (\A i, j \in DOMAIN contents : contents[i] = n /\ contents[j] = n => i = j)
                => deliveries'[n] <= deliveries[n] + 1

\* Nothing delivered leaves the counts alone.
LEMMA HandedNothing ==
  ASSUME deliveries \in [Contents -> Nat], UNCHANGED deliveries, NEW contents
  PROVE  Handed(contents)
<1>1. Payloads \subseteq Contents
  BY LimitsAssumption DEF Payloads, Contents, Garbage
<1>2. ASSUME NEW n \in Payloads
      PROVE  deliveries'[n] = deliveries[n] /\ deliveries'[n] <= deliveries[n] + 1
  <2>1. deliveries[n] \in Nat /\ deliveries'[n] = deliveries[n]
    BY <1>1
  <2> QED BY <2>1
<1>3. deliveries' \in [Contents -> Nat] /\ deliveries'[Garbage] = deliveries[Garbage]
  OBVIOUS
<1> QED BY <1>2, <1>3 DEF Handed

\* A set of at most one number.
LEMMA AtMostOne ==
  ASSUME NEW S, IsFiniteSet(S), \A i, j \in S : i = j
  PROVE  Cardinality(S) \in Nat /\ Cardinality(S) <= 1
<1>1. CASE S = {}
  BY <1>1, FS_EmptySet
<1>2. CASE S # {}
  <2>1. PICK i \in S : TRUE
    BY <1>2
  <2>2. S = {i}
    BY <2>1
  <2> QED BY <2>2, FS_Singleton
<1> QED BY <1>1, <1>2

\* Delivering contents adds how often each occurs in them.
LEMMA DeliverHands ==
  ASSUME deliveries \in [Contents -> Nat], NEW contents, DOMAIN contents \subseteq Indexes,
         \A i \in DOMAIN contents : contents[i] \in Nat, deliver(contents)
  PROVE  Handed(contents)
<1> DEFINE At(n) == {i \in DOMAIN contents : contents[i] = n}
<1>1. Payloads \subseteq Contents /\ Garbage \in Contents /\ Garbage = -1
  BY LimitsAssumption DEF Payloads, Contents, Garbage
<1>2. IsFiniteSet(DOMAIN contents)
  <2>1. IsFiniteSet(Indexes)
    <3>1. 0 \in Int /\ DataShards - 1 \in Int
      BY OptionsAssumption
    <3> QED BY <3>1, FS_Interval DEF Indexes
  <2> QED BY <2>1, FS_Subset
<1>3. \A n : At(n) \in SUBSET DOMAIN contents
  OBVIOUS
<1>4. deliveries' = [c \in Contents |-> deliveries[c] + Cardinality(At(c))]
  BY DEF deliver
<1>5. \A n : At(n) = {} <=> \A i \in DOMAIN contents : contents[i] # n
  OBVIOUS
<1>6. \A n : (\A i, j \in At(n) : i = j) <=>
               (\A i, j \in DOMAIN contents : contents[i] = n /\ contents[j] = n => i = j)
  OBVIOUS
<1>7. At(Garbage) = {}
  BY <1>1, <1>5
<1> HIDE DEF At
<1>8. \A n : IsFiniteSet(At(n)) /\ Cardinality(At(n)) \in Nat
  BY <1>2, <1>3, FS_Subset, FS_CardinalityType
<1>9. \A c \in Contents : deliveries'[c] = deliveries[c] + Cardinality(At(c)) /\ deliveries[c] \in Nat
  BY <1>4
<1>10. deliveries' \in [Contents -> Nat]
  <2>1. \A c \in Contents : deliveries[c] + Cardinality(At(c)) \in Nat
    BY <1>8, <1>9
  <2> QED BY <1>4, <2>1
<1>11. deliveries'[Garbage] = deliveries[Garbage]
  <2>1. Cardinality(At(Garbage)) = 0
    BY <1>7, FS_EmptySet
  <2> QED BY <1>1, <1>9, <2>1
<1>12. ASSUME NEW n \in Payloads, \A i \in DOMAIN contents : contents[i] # n
       PROVE  deliveries'[n] = deliveries[n]
  <2>1. Cardinality(At(n)) = 0
    BY <1>5, <1>12, FS_EmptySet
  <2> QED BY <1>1, <1>9, <2>1
<1>13. ASSUME NEW n \in Payloads,
              \A i, j \in DOMAIN contents : contents[i] = n /\ contents[j] = n => i = j
       PROVE  deliveries'[n] <= deliveries[n] + 1
  <2>1. Cardinality(At(n)) <= 1
    BY <1>6, <1>8, <1>13, AtMostOne
  <2>2. Cardinality(At(n)) \in Nat /\ n \in Contents
    BY <1>1, <1>8
  <2> QED BY <1>9, <2>1, <2>2
<1> QED BY <1>10, <1>11, <1>12, <1>13 DEF Handed

\* What a turn of the receive loop does: shard p advances buffer b, which is what
\* had not expired, and contents reach the stream.
Received(b, p, contents) ==
    /\ b = purgeExpiredGroups(rx) /\ Books(b, clock, fecGroup)
    /\ p \in Shards /\ WellMade(p) /\ clock - p.born <= MaxAge
    /\ Recovers(b, p, contents) /\ Advances(b, rx', p, DOMAIN contents) /\ Handed(contents)

\* A turn of the receive loop does that.
LEMMA ReceiveReceives ==
  ASSUME SenderInv, PacketInv, Books(rx, clock, fecGroup), DeliveryInv,
         NEW packet \in network, receive(packet)
  PROVE  \E b, contents : Received(b, packet.shard, contents)
<1> DEFINE p == packet.shard
           b == purgeExpiredGroups(rx)
<1>1. /\ p \in Shards /\ WellMade(p) /\ clock - p.born <= MaxAge
  <2>1. p \in Shards
    BY DEF Shards
  <2>2. Deliverable(packet, clock)
    BY DEF PacketInv
  <2> QED BY <2>1, <2>2 DEF PacketInv, Deliverable
<1>2. clock \in Nat /\ fecGroup \in Nat /\ deliveries \in [Contents -> Nat] /\ AddPacket(p)
  BY DEF SenderInv, DeliveryInv, receive
<1>3. b = purgeExpiredGroups(rx)
  OBVIOUS
<1> HIDE DEF p, b
<1>4. Books(b, clock, fecGroup) /\ Outcome(b, p)
  BY <1>1, <1>2, <1>3, AddPacketOutcome
<1>5. PICK contents : /\ Recovers(b, p, contents)
                      /\ Advances(b, rx', p, DOMAIN contents)
                      /\ \/ DOMAIN contents = {} /\ UNCHANGED deliveries
                         \/ deliver(contents)
  BY <1>4 DEF Outcome
<1>6. Handed(contents)
  <2>1. DOMAIN contents \subseteq Indexes /\ \A i \in DOMAIN contents : contents[i] \in Nat
    BY <1>5 DEF Recovers
  <2> QED BY <1>2, <1>5, <2>1, DeliverHands, HandedNothing
<1>7. Received(b, p, contents)
  BY <1>1, <1>3, <1>4, <1>5, <1>6 DEF Received
<1> QED BY <1>7 DEF p

\* A place that is pending is not settled.
LEMMA PendingOpen ==
  ASSUME NEW b, NEW now, NEW top, Books(b, now, top), NEW id, NEW i, NEW n, Pending(b, id, i, n)
  PROVE  ~Settled(b, id, i)
<1>1. PICK g \in b.groups : g.id = id /\ i \notin Present(g)
  BY DEF Pending
<1>2. ~IsCompleted(b, id) /\ \A h \in b.groups : h.id = id => h = g
  BY <1>1 DEF Books
<1> QED BY <1>1, <1>2 DEF Settled

\* What a shard under way names is sent.
LEMMA NamesSent ==
  ASSUME NEW p \in Shards, NEW i, NEW n, Names(p, i, n)
  PROVE  Sent(p.group, p.born, i, n)
BY DEF Sent

\* What purgeExpiredGroups leaves of what was pending.
LEMMA PurgePending ==
  ASSUME clock \in Nat, NEW top, Books(rx, clock, top), NEW b, b = purgeExpiredGroups(rx)
  PROVE  \A id, i, n : Pending(b, id, i, n) => Pending(rx, id, i, n)
<1>1. b.groups \subseteq rx.groups
  BY PurgeBooks
<1> QED BY <1>1 DEF Pending

\* Receiving shards claims nothing new.
LEMMA ReceiveClaims ==
  ASSUME SenderInv, Books(rx, clock, fecGroup), NEW b, NEW p, NEW contents, Received(b, p, contents),
         UNCHANGED <<clock, sender, network>>
  PROVE  /\ \A id, i, n : \A born : (Sent(id, born, i, n)' <=> Sent(id, born, i, n))
                             /\ (Held(id, born, i, n)' <=> Held(id, born, i, n))
         /\ \A id \in Nat, i \in Indexes, n \in Nat :
              /\ Pending(rx', id, i, n) =>
                    \/ Pending(rx, id, i, n)
                    \/ id = p.group /\ Names(p, i, n) /\ Sent(p.group, p.born, i, n)
              /\ Claim(id, i, n)' => Claim(id, i, n)
<1>1. tx' = tx /\ network' = network /\ outbox' = outbox /\ clock' = clock
  BY DEF sender
<1>2. Shards' = Shards
  BY <1>1 DEF Shards
<1>3. \A id, i, n : \A born : (Sent(id, born, i, n)' <=> Sent(id, born, i, n))
                             /\ (Held(id, born, i, n)' <=> Held(id, born, i, n))
  BY <1>1, <1>2 DEF Sent, Held
<1>4. clock \in Nat /\ p \in Shards /\ p.born \in Nat
  BY DEF SenderInv, Received, WellMade, ShardSet
<1>5. \A id, i, n : Pending(b, id, i, n) => Pending(rx, id, i, n)
  BY <1>4, PurgePending DEF Received
<1>6. ASSUME NEW id \in Nat, NEW i \in Indexes, NEW n \in Nat, Pending(rx', id, i, n)
      PROVE  \/ Pending(rx, id, i, n)
             \/ id = p.group /\ Names(p, i, n) /\ Sent(p.group, p.born, i, n)
  <2>1. Pending(b, id, i, n) \/ (id = p.group /\ Names(p, i, n))
    BY <1>6 DEF Received, Advances
  <2> QED BY <1>4, <1>5, <2>1, NamesSent
<1>7. ASSUME NEW id \in Nat, NEW i \in Indexes, NEW n \in Nat, Claim(id, i, n)'
      PROVE  Claim(id, i, n)
  <2>1. (\E born \in Nat : Sent(id, born, i, n)' \/ Held(id, born, i, n)') \/ Pending(rx', id, i, n)
    BY <1>7 DEF Claim, Pending
  <2> QED BY <1>3, <1>4, <1>6, <2>1 DEF Claim
<1> QED BY <1>3, <1>6, <1>7

\* What is delivered was claimed: by the shard, or by a group pending for it.
LEMMA DeliveredClaim ==
  ASSUME SenderInv, Books(rx, clock, fecGroup), NEW b, NEW p, NEW contents, Received(b, p, contents),
         NEW i \in DOMAIN contents, contents[i] # Empty
  PROVE  /\ i \in Indexes /\ contents[i] \in Nat /\ p.group \in Nat
         /\ \/ Sent(p.group, p.born, i, contents[i]) /\ p.born \in Nat
            \/ Pending(rx, p.group, i, contents[i])
         /\ Claim(p.group, i, contents[i])
<1>1. /\ i \in Indexes /\ contents[i] \in Nat
      /\ Names(p, i, contents[i]) \/ Pending(b, p.group, i, contents[i])
  BY DEF Received, Recovers
<1>2. p \in Shards /\ p.group \in Nat /\ p.born \in Nat /\ clock \in Nat
  BY DEF Received, WellMade, ShardSet, SenderInv
<1>3. Sent(p.group, p.born, i, contents[i]) \/ Pending(rx, p.group, i, contents[i])
  BY <1>1, <1>2, NamesSent, PurgePending DEF Received
<1> QED BY <1>1, <1>2, <1>3 DEF Claim

\* Receiving keeps the claims.
LEMMA ReceiveClaimsInv ==
  ASSUME SenderInv, Books(rx, clock, fecGroup), ClaimsInv,
         NEW b, NEW p, NEW contents, Received(b, p, contents),
         UNCHANGED <<clock, sender, network>>
  PROVE  ClaimsInv'
<1>1. offered' = offered
  BY DEF sender
<1>2. \A id \in Nat, i \in Indexes, n \in Nat : Claim(id, i, n)' => Claim(id, i, n)
  BY ReceiveClaims
<1> QED BY <1>1, <1>2 DEF ClaimsInv

\* Receiving hands out no refused payload.
LEMMA ReceiveRefused ==
  ASSUME SenderInv, Books(rx, clock, fecGroup), RefusedInv, DeliveryInv,
         NEW b, NEW p, NEW contents, Received(b, p, contents),
         UNCHANGED <<clock, sender, network>>
  PROVE  RefusedInv'
<1>1. tx' = tx /\ refused' = refused /\ offered' = offered
  BY DEF sender
<1>2. ASSUME NEW payload \in refused'
      PROVE  /\ payload.number \in 1..offered'
             /\ deliveries'[payload.number] = 0
             /\ \A id, born \in Nat, i \in Indexes :
                   ~Sent(id, born, i, payload.number)' /\ ~Pending(rx', id, i, payload.number)
             /\ \A s \in Streams : \A k \in DOMAIN tx'[s].payloads :
                   tx'[s].payloads[k].number = payload.number =>
                       ~CanEncode(tx'[s].payloads) \/ Len(tx'[s].payloads) = DataShards
  <2> DEFINE n == payload.number
  <2>1. /\ n \in 1..offered /\ deliveries[n] = 0
        /\ \A id, born \in Nat, i \in Indexes : ~Sent(id, born, i, n) /\ ~Pending(rx, id, i, n)
        /\ \A s \in Streams : \A k \in DOMAIN tx[s].payloads :
              tx[s].payloads[k].number = n =>
                  ~CanEncode(tx[s].payloads) \/ Len(tx[s].payloads) = DataShards
    BY <1>1, <1>2 DEF RefusedInv
  <2> HIDE DEF n
  <2>2. n \in Payloads /\ n \in Nat /\ n # Empty
    <3>1. offered \in 0..MaxPayloads /\ MaxPayloads \in Nat /\ n \in 1..offered
      BY <2>1, LimitsAssumption DEF SenderInv
    <3> QED BY <3>1 DEF Payloads, Empty
  <2>3. \A i \in DOMAIN contents : contents[i] # n
    BY <2>1, <2>2, DeliveredClaim
  <2>4. deliveries'[n] = 0
    BY <2>1, <2>2, <2>3 DEF Received, Handed
  <2>5. p.group \in Nat /\ p.born \in Nat
    BY DEF Received, WellMade, ShardSet
  <2>6. \A id, born \in Nat, i \in Indexes : ~Sent(id, born, i, n)' /\ ~Pending(rx', id, i, n)
    <3>1. \A id, i : \A born : Sent(id, born, i, n)' <=> Sent(id, born, i, n)
      BY ReceiveClaims
    <3>2. \A id \in Nat, i \in Indexes :
             Pending(rx', id, i, n) =>
                \/ Pending(rx, id, i, n)
                \/ id = p.group /\ Names(p, i, n) /\ Sent(p.group, p.born, i, n)
      BY <2>2, ReceiveClaims
    <3> QED BY <2>1, <2>5, <3>1, <3>2
  <2> QED BY <1>1, <2>1, <2>4, <2>6 DEF n
<1> QED BY <1>2 DEF RefusedInv, Pending, CanEncode, frameFits

\* Settled places stay settled as long as datagrams of their group can arrive:
\* a group and its tombstone outlive them.
LEMMA StaysSettled ==
  ASSUME SenderInv, Books(rx, clock, fecGroup), NEW b, NEW p, NEW contents, Received(b, p, contents),
         DatagramsDieFirst, TombstonesSuffice,
         NEW id \in Nat, NEW i \in Indexes, NEW born \in Nat, clock - born <= MaxAge,
         \A g \in rx.groups : g.id = id => born <= g.receivedAt,
         \A k \in DOMAIN rx.completed : rx.completed[k].id = id => born <= rx.completed[k].at,
         Settled(rx, id, i)
  PROVE  Settled(b, id, i) /\ Settled(rx', id, i)
<1>1. clock \in Nat /\ GroupLifetime \in Nat /\ MaxAge \in Nat /\ MaxAge < GroupLifetime
  BY LimitsAssumption DEF SenderInv, DatagramsDieFirst
<1>2. /\ Books(b, clock, fecGroup) /\ b.groups \subseteq rx.groups
      /\ b.completed = unexpired(rx.completed)
      /\ \A g \in rx.groups \ b.groups : clock - g.receivedAt >= GroupLifetime
  BY <1>1, PurgeBooks DEF Received
<1>3. rx.completed \in Tombstones /\ b.completed \in Tombstones
      /\ \A g \in rx.groups : g.receivedAt \in Nat
  BY <1>2 DEF Books, Tombstones, Coherent, RxGroup
<1>4. /\ DOMAIN rx.completed = 1..Len(rx.completed) /\ DOMAIN b.completed = 1..Len(b.completed)
      /\ \A k \in DOMAIN rx.completed : rx.completed[k].at \in Nat
  <2>1. \A k \in DOMAIN rx.completed : rx.completed[k] \in [id : Nat, at : Nat]
    BY <1>3, LenProperties DEF Tombstones
  <2> QED BY <1>3, <2>1, LenProperties DEF Tombstones
<1>5. \A j \in DOMAIN rx.completed : \/ clock - rx.completed[j].at >= GroupLifetime
                                     \/ \E k \in DOMAIN b.completed : b.completed[k] = rx.completed[j]
  BY <1>1, <1>2, <1>3, TombstonesLeft
<1>6. Settled(b, id, i)
  <2>1. CASE IsCompleted(rx, id)
    <3>1. PICK j \in DOMAIN rx.completed : rx.completed[j].id = id
      BY <2>1 DEF IsCompleted
    <3>2. ~(clock - rx.completed[j].at >= GroupLifetime)
      BY <1>1, <1>4, <3>1
    <3>3. PICK k \in DOMAIN b.completed : b.completed[k] = rx.completed[j]
      BY <1>5, <3>2
    <3> QED BY <3>1, <3>3 DEF Settled, IsCompleted
  <2>2. CASE \E g \in rx.groups : g.id = id /\ i \in Present(g)
    <3>1. PICK g \in rx.groups : g.id = id /\ i \in Present(g)
      BY <2>2
    <3>2. ~(clock - g.receivedAt >= GroupLifetime)
      BY <1>1, <1>3, <3>1
    <3>3. g \in b.groups
      BY <1>2, <3>2
    <3> QED BY <3>1, <3>3 DEF Settled
  <2> QED BY <2>1, <2>2 DEF Settled
<1>7. Settled(rx', id, i)
  <2>1. ASSUME Len(b.completed) >= MaxCompleted, b.completed[1].id = id PROVE FALSE
    <3>1. clock - b.completed[1].at > MaxAge
      BY <1>2, <2>1 DEF TombstonesSuffice
    <3>2. 1 \in DOMAIN b.completed
      <4>1. Len(b.completed) \in Nat /\ MaxCompleted \in Nat \ {0}
        BY <1>3, LenProperties, LimitsAssumption DEF Tombstones
      <4> QED BY <1>4, <2>1, <4>1
    <3>3. PICK j \in DOMAIN rx.completed : b.completed[1] = rx.completed[j]
      <4>1. PICK s \in Nat : Rest(b.completed, rx.completed, s)
        BY <1>1, <1>2, <1>3, TombstonesLeft
      <4> QED BY <3>2, <4>1 DEF Rest
    <3>4. rx.completed[j].id = id
      BY <2>1, <3>3
    <3>5. born <= rx.completed[j].at
      BY <3>4
    <3>6. clock - rx.completed[j].at > MaxAge
      BY <3>1, <3>3
    <3> QED BY <1>1, <1>4, <3>5, <3>6
  <2> QED BY <1>6, <2>1 DEF Received, Advances
<1> QED BY <1>6, <1>7

\* The conjunct of OnceInv about what is under way or still to be coded.
ClaimOnce(id, born, i, n) ==
    /\ \A g \in rx.groups : g.id = id => born <= g.receivedAt
    /\ \A k \in DOMAIN rx.completed : rx.completed[k].id = id => born <= rx.completed[k].at
    /\ deliveries[n] # 0 /\ clock - born <= MaxAge => Settled(rx, id, i)

\* The parts of OnceInv.
LEMMA OnceParts ==
  OnceInv <=> /\ DeliveredOnce
              /\ \A id, born \in Nat, i \in Indexes, n \in Payloads :
                    Sent(id, born, i, n) \/ Held(id, born, i, n) => ClaimOnce(id, born, i, n)
              /\ \A id \in Nat, i \in Indexes, n \in Payloads :
                    Pending(rx, id, i, n) => deliveries[n] = 0
BY Zenon DEF OnceInv, ClaimOnce

\* A claim to something the shard names is that of the shard's group and place.
LEMMA OneClaim ==
  ASSUME ClaimsInv, NEW id \in Nat, NEW jd \in Nat, NEW i \in Indexes, NEW j \in Indexes,
         NEW n \in Nat, Claim(id, i, n), Claim(jd, j, n)
  PROVE  id = jd /\ i = j /\ n \in 1..offered
BY DEF ClaimsInv

\* Receiving never delivers a payload a second time.
LEMMA ReceiveOnce ==
  ASSUME SenderInv, PacketInv, Books(rx, clock, fecGroup), ClaimsInv, DeliveryInv, OnceInv,
         DatagramsDieFirst, TombstonesSuffice,
         NEW b, NEW p, NEW contents, Received(b, p, contents),
         UNCHANGED <<clock, sender, network>>
  PROVE  OnceInv'
<1>0. /\ clock \in Nat /\ offered' = offered /\ clock' = clock /\ tx' = tx
      /\ deliveries \in [Contents -> Nat] /\ Payloads \subseteq Contents /\ Payloads \subseteq Nat
      /\ 0 \notin Payloads /\ offered \in Nat /\ MaxAge \in Nat
  BY LimitsAssumption DEF SenderInv, DeliveryInv, sender, Payloads, Contents, Garbage
<1>1. /\ Books(rx', clock, fecGroup) /\ Handed(contents)
      /\ \A i \in DOMAIN contents : Settled(rx', p.group, i) /\ ~Settled(b, p.group, i)
      /\ p \in Shards /\ p.group \in Nat /\ p.born \in Nat /\ clock - p.born <= MaxAge
      /\ p.born <= clock
  BY DEF Received, Recovers, Advances, WellMade, ShardSet
<1>2. /\ \A n \in Payloads : deliveries[n] <= 1
      /\ \A id, born \in Nat, i \in Indexes, n \in Payloads :
            Sent(id, born, i, n) \/ Held(id, born, i, n) => ClaimOnce(id, born, i, n)
      /\ \A id \in Nat, i \in Indexes, n \in Payloads : Pending(rx, id, i, n) => deliveries[n] = 0
  BY OnceParts DEF DeliveredOnce
<1>3. ASSUME NEW id \in Nat, NEW born \in Nat, NEW i \in Indexes, NEW n \in Payloads,
             Sent(id, born, i, n) \/ Held(id, born, i, n), deliveries[n] # 0, clock - born <= MaxAge
      PROVE  Settled(b, id, i) /\ Settled(rx', id, i)
  <2>1. ClaimOnce(id, born, i, n)
    BY <1>2, <1>3
  <2> QED BY <1>3, <2>1, StaysSettled DEF ClaimOnce
<1>4. ASSUME NEW n \in Payloads, NEW i \in DOMAIN contents, contents[i] = n
      PROVE  i \in Indexes /\ Claim(p.group, i, n) /\ deliveries[n] = 0
  <2>1. /\ i \in Indexes
        /\ Sent(p.group, p.born, i, n) \/ Pending(rx, p.group, i, n)
        /\ Claim(p.group, i, n)
    BY <1>0, <1>4, DeliveredClaim DEF Empty
  <2>2. CASE Sent(p.group, p.born, i, n)
    BY <1>1, <1>3, <2>1, <2>2
  <2>3. CASE Pending(rx, p.group, i, n)
    BY <1>1, <1>2, <2>1, <2>3
  <2> QED BY <2>1, <2>2, <2>3
<1>5. ASSUME NEW n \in Payloads
      PROVE  /\ deliveries'[n] <= 1
             /\ (\A i \in DOMAIN contents : contents[i] # n) => deliveries'[n] = deliveries[n]
  <2>0. deliveries[n] \in Nat /\ n \in Nat /\ deliveries'[n] \in Nat
    BY <1>0, <1>1 DEF Handed
  <2>1. CASE \A i \in DOMAIN contents : contents[i] # n
    BY <1>1, <1>2, <2>1 DEF Handed
  <2>2. CASE \E i \in DOMAIN contents : contents[i] = n
    <3>1. PICK i \in DOMAIN contents : contents[i] = n
      BY <2>2
    <3>2. i \in Indexes /\ Claim(p.group, i, n) /\ deliveries[n] = 0
      BY <1>4, <3>1
    <3>3. \A j, k \in DOMAIN contents : contents[j] = n /\ contents[k] = n => j = k
      BY <1>1, <1>4, <2>0, OneClaim
    <3>4. deliveries'[n] <= deliveries[n] + 1
      BY <1>1, <3>3 DEF Handed
    <3> QED BY <2>0, <2>2, <3>2, <3>4
  <2> QED BY <2>1, <2>2
<1>6. ASSUME NEW id \in Nat, NEW i \in Indexes, NEW n \in Payloads, Claim(id, i, n),
             NEW j \in DOMAIN contents, contents[j] = n
      PROVE  Settled(rx', id, i)
  <2>1. j \in Indexes /\ Claim(p.group, j, n) /\ n \in Nat
    BY <1>0, <1>4, <1>6
  <2>2. id = p.group /\ i = j
    BY <1>1, <1>6, <2>1, OneClaim
  <2> QED BY <1>1, <2>2
<1>7. ASSUME NEW id \in Nat, NEW born \in Nat, NEW i \in Indexes, NEW n \in Payloads,
             Sent(id, born, i, n) \/ Held(id, born, i, n)
      PROVE  ClaimOnce(id, born, i, n)'
  <2>1. ClaimOnce(id, born, i, n) /\ Claim(id, i, n) /\ n \in Nat
    BY <1>0, <1>2, <1>7 DEF Claim
  <2>2. born <= clock
    <3>1. CASE Sent(id, born, i, n)
      BY <3>1 DEF Sent, PacketInv, WellMade
    <3>2. CASE Held(id, born, i, n)
      BY <3>2 DEF Held, SenderInv
    <3> QED BY <1>7, <3>1, <3>2
  <2>3. b.groups \subseteq rx.groups /\ b.completed = unexpired(rx.completed)
    BY <1>0, PurgeBooks DEF Received
  <2>4. \A g \in rx'.groups : g.id = id => born <= g.receivedAt
    BY <2>1, <2>2, <2>3 DEF Received, Advances, ClaimOnce
  <2>5. \A k \in DOMAIN rx'.completed : rx'.completed[k].id = id => born <= rx'.completed[k].at
    <3>1. SUFFICES ASSUME NEW k \in DOMAIN rx'.completed, rx'.completed[k].id = id
                   PROVE  born <= rx'.completed[k].at
      OBVIOUS
    <3>2. \/ \E j \in DOMAIN b.completed : rx'.completed[k] = b.completed[j]
          \/ rx'.completed[k] = [id |-> p.group, at |-> clock]
      BY DEF Received, Advances
    <3>3. CASE \E j \in DOMAIN b.completed : rx'.completed[k] = b.completed[j]
      <4>1. PICK j \in DOMAIN b.completed : rx'.completed[k] = b.completed[j]
        BY <3>3
      <4>2. rx.completed \in Tombstones
        BY DEF Books, Tombstones
      <4>3. PICK s \in Nat : Rest(b.completed, rx.completed, s)
        BY <1>0, <2>3, <4>2, TombstonesLeft
      <4>4. PICK m \in DOMAIN rx.completed : rx'.completed[k] = rx.completed[m]
        BY <4>1, <4>3 DEF Rest
      <4> QED BY <2>1, <3>1, <4>4 DEF ClaimOnce
    <3>4. CASE rx'.completed[k] = [id |-> p.group, at |-> clock]
      BY <2>2, <3>4
    <3> QED BY <3>2, <3>3, <3>4
  <2>6. deliveries'[n] # 0 /\ clock - born <= MaxAge => Settled(rx', id, i)
    BY <1>3, <1>5, <1>6, <1>7, <2>1
  <2> QED BY <1>0, <2>4, <2>5, <2>6 DEF ClaimOnce, Settled, IsCompleted
<1>8. ASSUME NEW id \in Nat, NEW i \in Indexes, NEW n \in Payloads, Pending(rx', id, i, n)
      PROVE  deliveries'[n] = 0
  <2>1. ~Settled(rx', id, i)
    BY <1>1, <1>8, PendingOpen
  <2>2. n \in Nat /\ \/ Pending(rx, id, i, n)
                     \/ id = p.group /\ Sent(p.group, p.born, i, n)
    BY <1>0, <1>8, ReceiveClaims
  <2>3. Claim(id, i, n)
    BY <1>1, <2>2 DEF Claim
  <2>4. \A j \in DOMAIN contents : contents[j] # n
    BY <1>6, <2>1, <2>3
  <2>5. deliveries'[n] = deliveries[n]
    BY <1>5, <2>4
  <2>6. deliveries[n] = 0
    BY <1>1, <1>2, <1>3, <2>1, <2>2
  <2> QED BY <2>5, <2>6
<1>9. \A id, i, n : \A born : (Sent(id, born, i, n)' <=> Sent(id, born, i, n))
                             /\ (Held(id, born, i, n)' <=> Held(id, born, i, n))
  BY ReceiveClaims
<1>10. DeliveredOnce'
  BY <1>5 DEF DeliveredOnce
<1> QED
  <2>1. \A id, born \in Nat, i \in Indexes, n \in Payloads :
            Sent(id, born, i, n)' \/ Held(id, born, i, n)' => ClaimOnce(id, born, i, n)'
    BY <1>7, <1>9
  <2>3. \A id \in Nat, i \in Indexes, n \in Payloads : Pending(rx, id, i, n)' => deliveries'[n] = 0
    BY <1>8 DEF Pending
  <2> QED BY <1>10, <2>1, <2>3, Zenon DEF OnceInv, ClaimOnce

\* The window of packet numbers keeps its shape.
LEMMA ReceiveDedup ==
  ASSUME SenderInv, PacketInv, DedupInv, NEW packet \in network, receive(packet)
  PROVE  DedupInv'
<1> DEFINE n == packet.no
           top == dedup.highest
           highest == IF n > top THEN n ELSE top
           oldest == IF highest >= Window THEN highest - Window + 1 ELSE 0
           seen == {x \in dedup.seen : n <= top \/ x >= oldest} \cup {n}
<1>1. /\ n \in 1..packetNo /\ packetNo \in Nat /\ packetNo' = packetNo /\ Window \in Nat \ {0}
      /\ top \in 0..packetNo /\ dedup.seen \subseteq 1..top /\ \A x \in dedup.seen : top - x < Window
      /\ top - n < Window
  BY LimitsAssumption DEF PacketInv, SenderInv, DedupInv, receive, SeenFirst, sender
<1>2. dedup' = [highest |-> highest, seen |-> seen]
  BY DEF receive, Remember
<1>3. dedup'.highest = highest /\ dedup'.seen = seen
  BY <1>2
<1>4. /\ highest \in 0..packetNo /\ highest \in Nat /\ top <= highest /\ n <= highest
      /\ n \in Nat /\ top \in Nat
  BY <1>1
<1>5. ASSUME NEW x \in seen PROVE x \in 1..highest /\ highest - x < Window
  <2>1. CASE x = n
    BY <1>1, <1>4, <2>1
  <2>2. CASE x \in dedup.seen /\ n <= top
    BY <1>1, <1>4, <2>2
  <2>3. CASE x \in dedup.seen /\ x >= oldest
    <3>1. x \in 1..top
      BY <1>1, <2>3
    <3>2. CASE highest >= Window
      BY <1>1, <1>4, <2>3, <3>1, <3>2
    <3>3. CASE highest < Window
      BY <1>1, <1>4, <3>1, <3>3
    <3> QED BY <1>1, <1>4, <3>2, <3>3
  <2> QED BY <2>1, <2>2, <2>3
<1> HIDE DEF highest, seen
<1> QED BY <1>1, <1>3, <1>4, <1>5 DEF DedupInv

\* What is delivered has been offered, and is never garbage.
LEMMA ReceiveDelivery ==
  ASSUME SenderInv, Books(rx, clock, fecGroup), ClaimsInv, DeliveryInv,
         NEW b, NEW p, NEW contents, Received(b, p, contents), UNCHANGED <<clock, sender, network>>
  PROVE  DeliveryInv'
<1>1. offered' = offered /\ offered \in Nat /\ Payloads \subseteq Nat /\ 0 \notin Payloads
  BY DEF sender, SenderInv, Payloads
<1>2. deliveries' \in [Contents -> Nat] /\ deliveries'[Garbage] = deliveries[Garbage]
  BY DEF Received, Handed
<1>3. NeverGarbage'
  BY <1>2 DEF DeliveryInv, NeverGarbage
<1>4. ASSUME NEW n \in Payloads, deliveries'[n] # 0 PROVE n <= offered
  <2>1. CASE \A i \in DOMAIN contents : contents[i] # n
    BY <1>4, <2>1 DEF Received, Handed, DeliveryInv
  <2>2. CASE \E i \in DOMAIN contents : contents[i] = n
    <3>1. PICK i \in DOMAIN contents : contents[i] = n
      BY <2>2
    <3>2. i \in Indexes /\ p.group \in Nat /\ n \in Nat /\ Claim(p.group, i, n)
      BY <1>1, <3>1, DeliveredClaim DEF Empty
    <3> QED BY <1>1, <3>2, OneClaim
  <2> QED BY <2>1, <2>2
<1> QED BY <1>1, <1>2, <1>3, <1>4 DEF DeliveryInv

\* Receiving changes nothing of the sender and the network.
LEMMA ReceiveSender ==
  ASSUME SenderInv, PacketInv, UNCHANGED <<clock, sender, network>>
  PROVE  SenderInv' /\ PacketInv'
<1>1. /\ clock' = clock /\ network' = network /\ fecGroup' = fecGroup /\ packetNo' = packetNo
      /\ offered' = offered /\ parity' = parity /\ adapt' = adapt /\ tx' = tx /\ outbox' = outbox
  BY DEF sender
<1>2. SenderInv'
  BY <1>1 DEF SenderInv
<1>3. Shards' = Shards
  BY <1>1 DEF Shards
<1>4. \A shard \in Shards' : WellMade(shard)'
  BY <1>1, <1>3 DEF PacketInv, WellMade
<1>5. \A packet \in network' : packet.no \in 1..packetNo' /\ Deliverable(packet, clock')
  BY <1>1 DEF PacketInv
<1>6. \A calls \in outbox' : calls \in Seq(ShardSet) /\ calls # <<>>
  BY <1>1 DEF PacketInv
<1> QED BY <1>2, <1>4, <1>5, <1>6 DEF PacketInv, Deliverable

\* A turn of the receive loop preserves the invariant.
LEMMA ReceiveInv ==
  ASSUME Inv, NEW packet \in network, receive(packet)
  PROVE  /\ Inv'
         /\ OnceInv /\ DatagramsDieFirst /\ TombstonesSuffice => OnceInv'
<1>1. /\ SenderInv /\ PacketInv /\ DedupInv /\ Books(rx, clock, fecGroup)
      /\ ClaimsInv /\ RefusedInv /\ DeliveryInv
  BY DEF Inv
<1>2. UNCHANGED <<clock, sender, network>>
  BY DEF receive
<1>3. PICK b, contents : Received(b, packet.shard, contents)
  BY <1>1, ReceiveReceives
<1>4. clock' = clock /\ fecGroup' = fecGroup
  BY <1>2 DEF sender
<1>5. Books(rx, clock, fecGroup)'
  <2>1. Books(rx', clock, fecGroup)
    BY <1>3 DEF Received, Advances
  <2> QED BY <1>4, <2>1 DEF Books, IsCompleted
<1>6. SenderInv' /\ PacketInv'
  BY <1>1, <1>2, ReceiveSender
<1>7. DedupInv'
  BY <1>1, ReceiveDedup
<1>8. ClaimsInv'
  BY <1>1, <1>2, <1>3, ReceiveClaimsInv
<1>9. RefusedInv'
  BY <1>1, <1>2, <1>3, ReceiveRefused
<1>10. DeliveryInv'
  BY <1>1, <1>2, <1>3, ReceiveDelivery
<1>11. OnceInv /\ DatagramsDieFirst /\ TombstonesSuffice => OnceInv'
  BY <1>1, <1>2, <1>3, ReceiveOnce
<1> QED BY <1>5, <1>6, <1>7, <1>8, <1>9, <1>10, <1>11 DEF Inv

-----------------------------------------------------------------------------
(* The sender, the network and time.                                       *)

\* The receive buffer stays in order when time passes and groups are opened.
LEMMA BooksLater ==
  ASSUME NEW b, NEW now \in Nat, NEW top \in Nat, Books(b, now, top),
         NEW later \in Nat, now <= later, NEW more \in Nat, top <= more
  PROVE  Books(b, later, more)
<1>1. \A g \in b.groups : g.receivedAt \in Nat /\ g.id \in Nat
  BY DEF Books, Coherent, RxGroup
<1>2. \A g \in b.groups : g.receivedAt <= later /\ g.id <= more
  BY <1>1 DEF Books
<1>3. \A k \in DOMAIN b.completed : b.completed[k] \in [id : Nat, at : Nat]
  <2>1. b.completed \in Seq([id : Nat, at : Nat])
    BY DEF Books
  <2>2. b.completed \in [1..Len(b.completed) -> [id : Nat, at : Nat]]
    BY <2>1, LenProperties
  <2> QED BY <2>2
<1>4. \A k \in DOMAIN b.completed : b.completed[k].at <= later /\ b.completed[k].id <= more
  BY <1>3 DEF Books
<1> QED BY <1>2, <1>4 DEF Books

\* Whatever the sender and the network do, short of taking a new payload: no claim
\* is new except that a held payload may be sent.
LEMMA SenderStep ==
  ASSUME Inv, UNCHANGED <<receiver, offered, refused, fecGroup>>, SenderInv', PacketInv',
         clock <= clock', packetNo <= packetNo',
         \A s \in Streams : tx'[s] = tx[s] \/ tx'[s] = NoSendGroup,
         \A id, born \in Nat, i \in Indexes, n \in Nat :
            Sent(id, born, i, n)' => Sent(id, born, i, n) \/ Held(id, born, i, n),
         \A payload \in refused, id, born \in Nat, i \in Indexes :
            ~Sent(id, born, i, payload.number)'
  PROVE  Inv' /\ (OnceInv => OnceInv')
<1>1. /\ SenderInv /\ PacketInv /\ DedupInv /\ Books(rx, clock, fecGroup)
      /\ ClaimsInv /\ RefusedInv /\ DeliveryInv
  BY DEF Inv
<1>2. /\ dedup' = dedup /\ rx' = rx /\ deliveries' = deliveries /\ offered' = offered
      /\ refused' = refused /\ fecGroup' = fecGroup
  BY DEF receiver
<1>3. /\ clock \in Nat /\ clock' \in Nat /\ fecGroup \in Nat /\ MaxAge \in Nat
      /\ packetNo \in Nat /\ packetNo' \in Nat
  BY <1>1, LimitsAssumption DEF SenderInv
<1>4. Books(rx, clock, fecGroup)'
  <2>1. Books(rx, clock', fecGroup)
    BY <1>1, <1>3, BooksLater
  <2> QED BY <1>2, <2>1 DEF Books, IsCompleted
<1>5. DedupInv'
  BY <1>1, <1>2, <1>3 DEF DedupInv
<1>6. DeliveryInv'
  BY <1>1, <1>2 DEF DeliveryInv, NeverGarbage
<1>7. ASSUME NEW id, NEW born, NEW i, NEW n, Held(id, born, i, n)' PROVE Held(id, born, i, n)
  <2>1. PICK s \in Streams : /\ tx'[s].id = id /\ tx'[s].createdAt = born
                             /\ i + 1 \in DOMAIN tx'[s].payloads
                             /\ n = tx'[s].payloads[i + 1].number
    BY <1>7 DEF Held
  <2>2. tx'[s] # NoSendGroup
    <3>1. NoSendGroup.payloads = <<>> /\ DOMAIN <<>> = {}
      BY DEF NoSendGroup
    <3> QED BY <2>1, <3>1
  <2>3. tx'[s] = tx[s]
    BY <2>2
  <2> QED BY <2>1, <2>3 DEF Held
<1>8. ASSUME NEW id \in Nat, NEW i \in Indexes, NEW n \in Nat, Claim(id, i, n)' PROVE Claim(id, i, n)
  <2>1. CASE \E born \in Nat : Sent(id, born, i, n)' \/ Held(id, born, i, n)'
    BY <1>7, <2>1 DEF Claim
  <2>2. CASE Pending(rx, id, i, n)'
    <3>1. Pending(rx, id, i, n)
      BY <1>2, <2>2 DEF Pending
    <3> QED BY <3>1 DEF Claim
  <2> QED BY <1>8, <2>1, <2>2 DEF Claim
<1>9. ClaimsInv'
  BY <1>1, <1>2, <1>8 DEF ClaimsInv
<1>10. RefusedInv'
  <2>1. ASSUME NEW payload \in refused
        PROVE  /\ payload.number \in 1..offered'
               /\ deliveries'[payload.number] = 0
               /\ \A id, born \in Nat, i \in Indexes :
                     ~Sent(id, born, i, payload.number)' /\ ~Pending(rx', id, i, payload.number)
               /\ \A s \in Streams : \A k \in DOMAIN tx'[s].payloads :
                     tx'[s].payloads[k].number = payload.number =>
                         ~CanEncode(tx'[s].payloads) \/ Len(tx'[s].payloads) = DataShards
    <3>1. /\ payload.number \in 1..offered /\ deliveries[payload.number] = 0
          /\ \A id \in Nat, i \in Indexes : ~Pending(rx, id, i, payload.number)
          /\ \A s \in Streams : \A k \in DOMAIN tx[s].payloads :
                     tx[s].payloads[k].number = payload.number =>
                         ~CanEncode(tx[s].payloads) \/ Len(tx[s].payloads) = DataShards
      BY <1>1 DEF RefusedInv
    <3>2. NoSendGroup.payloads = <<>> /\ DOMAIN <<>> = {}
      BY DEF NoSendGroup
    <3>3. ASSUME NEW s \in Streams, NEW k \in DOMAIN tx'[s].payloads,
                 tx'[s].payloads[k].number = payload.number
          PROVE  ~CanEncode(tx'[s].payloads) \/ Len(tx'[s].payloads) = DataShards
      <4>1. tx'[s] = tx[s]
        BY <3>2, <3>3
      <4> QED BY <3>1, <3>3, <4>1
    <3> QED BY <1>2, <3>1, <3>3
  <2> QED BY <1>2, <2>1 DEF RefusedInv, Pending, CanEncode, frameFits
<1>11. ASSUME OnceInv PROVE OnceInv'
  <2>1. /\ DeliveredOnce
        /\ \A id, born \in Nat, i \in Indexes, n \in Payloads :
                    Sent(id, born, i, n) \/ Held(id, born, i, n) => ClaimOnce(id, born, i, n)
        /\ \A id \in Nat, i \in Indexes, n \in Payloads : Pending(rx, id, i, n) => deliveries[n] = 0
    BY <1>11, OnceParts
  <2>2. DeliveredOnce'
    BY <1>2, <2>1 DEF DeliveredOnce
  <2>3. ASSUME NEW id \in Nat, NEW born \in Nat, NEW i \in Indexes, NEW n \in Payloads,
               Sent(id, born, i, n)' \/ Held(id, born, i, n)'
        PROVE  ClaimOnce(id, born, i, n)'
    <3>1. Sent(id, born, i, n) \/ Held(id, born, i, n)
      BY <1>7, <2>3 DEF Payloads
    <3>2. ClaimOnce(id, born, i, n)
      BY <2>1, <3>1
    <3>3. clock' - born <= MaxAge => clock - born <= MaxAge
      BY <1>3
    <3> QED BY <1>2, <3>2, <3>3 DEF ClaimOnce, Settled, IsCompleted
  <2>4. \A id \in Nat, i \in Indexes, n \in Payloads : Pending(rx, id, i, n)' => deliveries'[n] = 0
    BY <1>2, <2>1 DEF Pending
  <2> QED BY <2>2, <2>3, <2>4, Zenon DEF OnceInv, ClaimOnce
<1> QED BY <1>4, <1>5, <1>6, <1>9, <1>10, <1>11 DEF Inv

\* Shards that were already under way name nothing new, and none of them names a
\* payload that was refused.
LEMMA NothingSent ==
  ASSUME RefusedInv, Shards' \subseteq Shards
  PROVE  /\ \A id, born, i, n : Sent(id, born, i, n)' => Sent(id, born, i, n)
         /\ \A payload \in refused, id, born \in Nat, i \in Indexes :
               ~Sent(id, born, i, payload.number)'
<1>1. \A id, born, i, n : Sent(id, born, i, n)' => Sent(id, born, i, n)
  BY DEF Sent
<1> QED BY <1>1 DEF RefusedInv

\* A tick of the clock.
LEMMA TickInv ==
  ASSUME Inv, Tick
  PROVE  Inv' /\ (OnceInv => OnceInv')
<1>1. /\ clock \in Nat /\ clock' = clock + 1 /\ UNCHANGED <<sender, receiver>>
      /\ network' = {packet \in network : Deliverable(packet, clock')}
      /\ SenderInv /\ PacketInv /\ RefusedInv
  BY DEF Inv, SenderInv, Tick
<1>2. /\ fecGroup' = fecGroup /\ packetNo' = packetNo /\ offered' = offered /\ refused' = refused
      /\ parity' = parity /\ adapt' = adapt /\ tx' = tx /\ outbox' = outbox
      /\ clock' \in Nat /\ clock <= clock' /\ packetNo \in Nat
  BY <1>1 DEF sender, SenderInv
<1>3. SenderInv'
  <2>1. ASSUME NEW s \in Streams PROVE tx[s].createdAt <= clock'
    <3>1. tx[s] \in SendGroup /\ tx[s].createdAt <= clock
      BY <1>1 DEF SenderInv
    <3> QED BY <1>1, <3>1 DEF SendGroup
  <2> QED BY <1>1, <1>2, <2>1 DEF SenderInv
<1>4. Shards' \subseteq Shards
  BY <1>1, <1>2 DEF Shards
<1>5. PacketInv'
  <2>1. ASSUME NEW shard \in Shards' PROVE WellMade(shard)'
    <3>1. WellMade(shard)
      BY <1>1, <1>4 DEF PacketInv
    <3>2. shard.born \in Nat /\ shard.born <= clock
      BY <3>1 DEF WellMade, ShardSet
    <3> QED BY <1>1, <1>2, <3>1, <3>2 DEF WellMade
  <2>2. \A packet \in network' : packet.no \in 1..packetNo' /\ Deliverable(packet, clock')
    BY <1>1, <1>2 DEF PacketInv
  <2>3. \A calls \in outbox' : calls \in Seq(ShardSet) /\ calls # <<>>
    BY <1>1, <1>2 DEF PacketInv
  <2> QED BY <2>1, <2>2, <2>3 DEF PacketInv, Deliverable
<1>6. /\ \A id, born \in Nat, i \in Indexes, n \in Nat :
            Sent(id, born, i, n)' => Sent(id, born, i, n) \/ Held(id, born, i, n)
      /\ \A payload \in refused, id, born \in Nat, i \in Indexes :
            ~Sent(id, born, i, payload.number)'
  BY <1>1, <1>4, NothingSent
<1>7. packetNo <= packetNo'
  BY <1>2
<1> QED BY <1>1, <1>2, <1>3, <1>5, <1>6, <1>7, SenderStep

\* The parity controller keeps at least one parity shard, and no more than allowed.
LEMMA ObserveInv ==
  ASSUME Inv, NEW d \in 1..DataShards, NEW r \in 0..DataShards, observeFECDelivery(d, r)
  PROVE  Inv' /\ (OnceInv => OnceInv')
<1>1. /\ UNCHANGED <<clock, fecGroup, tx, outbox, packetNo, offered, refused, network, receiver>>
      /\ SenderInv /\ PacketInv /\ RefusedInv
  BY DEF Inv, observeFECDelivery
<1>2. /\ DataShards \in Nat \ {0} /\ MaxParityShards \in Nat \ {0} /\ AdaptWindow \in Nat \ {0}
      /\ parity \in 1..MaxParityShards /\ d \in Nat /\ r \in Nat
      /\ adapt.delivered \in 0..(AdaptWindow - 1) /\ adapt.recovered \in Nat
  BY <1>1, OptionsAssumption DEF SenderInv
<1>3. maxParity \in 1..MaxParityShards
  BY <1>2 DEF maxParity
<1>4. \A v \in Int : clampInt(v, 1, maxParity) \in 1..MaxParityShards
  BY <1>2, <1>3 DEF clampInt
<1>5. (DataShards + 1) \div 2 \in Int /\ (DataShards + 3) \div 4 \in Int
  BY <1>2
<1>6. \A x, y : parityForLoss(x, y) \in 1..MaxParityShards
  BY <1>3, <1>4, <1>5 DEF parityForLoss
<1>7. parity' \in 1..MaxParityShards /\ adapt' \in [delivered : 0..(AdaptWindow - 1), recovered : Nat]
  <2> DEFINE total == [delivered |-> adapt.delivered + d, recovered |-> adapt.recovered + r]
  <2>1. total.delivered = adapt.delivered + d /\ total.delivered \in Nat /\ total.recovered \in Nat
    BY <1>2
  <2>2. CASE total.delivered < AdaptWindow
    BY <1>2, <2>1, <2>2 DEF observeFECDelivery
  <2>3. CASE ~(total.delivered < AdaptWindow)
    BY <1>2, <1>6, <2>3 DEF observeFECDelivery
  <2> QED BY <2>2, <2>3
<1>8. SenderInv'
  BY <1>1, <1>7 DEF SenderInv
<1>9. Shards' \subseteq Shards
  BY <1>1 DEF Shards
<1>10. PacketInv'
  <2>1. \A shard \in Shards' : WellMade(shard)'
    BY <1>1, <1>9 DEF PacketInv, WellMade
  <2>2. /\ \A packet \in network' : packet.no \in 1..packetNo' /\ Deliverable(packet, clock')
        /\ \A calls \in outbox' : calls \in Seq(ShardSet) /\ calls # <<>>
    BY <1>1 DEF PacketInv
  <2> QED BY <2>1, <2>2 DEF PacketInv, Deliverable
<1>11. /\ \A id, born \in Nat, i \in Indexes, n \in Nat :
            Sent(id, born, i, n)' => Sent(id, born, i, n) \/ Held(id, born, i, n)
       /\ \A payload \in refused, id, born \in Nat, i \in Indexes :
            ~Sent(id, born, i, payload.number)'
  BY <1>1, <1>9, NothingSent
<1>12. clock <= clock' /\ packetNo <= packetNo'
  BY <1>1 DEF SenderInv
<1> QED BY <1>1, <1>8, <1>10, <1>11, <1>12, SenderStep

\* Writing the next packet of a call, or failing to: either way at most that packet
\* gets on its way, and what is left of the call is its tail or nothing.
LEMMA WireInv ==
  ASSUME Inv, NEW calls \in outbox, sendWirePayload(calls) \/ sendFails(calls)
  PROVE  Inv' /\ (OnceInv => OnceInv')
<1> DEFINE packet == [no |-> packetNo + 1, shard |-> Head(calls)]
<1>1. /\ UNCHANGED <<clock, parity, adapt, fecGroup, tx, offered, refused, receiver>>
      /\ packetNo' = packetNo \/ packetNo' = packetNo + 1
      /\ \A q \in network' :
            \/ q \in network
            \/ q = packet /\ Deliverable(packet, clock) /\ packetNo' = packetNo + 1
      /\ \A c \in outbox' : c \in outbox \/ (c = Tail(calls) /\ Len(calls) > 1)
      /\ SenderInv /\ PacketInv /\ RefusedInv
  <2>1. CASE sendWirePayload(calls)
    BY <2>1 DEF Inv, sendWirePayload, transmit
  <2>2. CASE sendFails(calls)
    BY <2>2 DEF Inv, sendFails, transmit
  <2> QED BY <2>1, <2>2
<1>2. calls \in Seq(ShardSet) /\ calls # <<>> /\ packetNo \in Nat
  BY <1>1 DEF PacketInv, SenderInv
<1>3. /\ Len(calls) \in Nat \ {0} /\ DOMAIN calls = 1..Len(calls)
      /\ Head(calls) = calls[1] /\ 1 \in DOMAIN calls
  <2>1. Len(calls) \in Nat /\ DOMAIN calls = 1..Len(calls)
    BY <1>2, LenProperties
  <2>2. Len(calls) # 0
    BY <1>2, EmptySeq
  <2>3. Head(calls) = calls[1]
    BY <1>2
  <2> QED BY <2>1, <2>2, <2>3
<1>4. /\ Tail(calls) \in Seq(ShardSet) /\ Len(Tail(calls)) = Len(calls) - 1
      /\ \A k \in 1..Len(Tail(calls)) : Tail(calls)[k] = calls[k + 1]
  BY <1>2, HeadTailProperties
<1>5. DOMAIN Tail(calls) = 1..Len(Tail(calls))
  BY <1>4, LenProperties
<1>6. \A k \in DOMAIN Tail(calls) : k + 1 \in DOMAIN calls /\ Tail(calls)[k] = calls[k + 1]
  BY <1>3, <1>4, <1>5
<1>7. \A k \in DOMAIN calls : calls[k] \in Shards
  BY DEF Shards
<1>8. Shards' \subseteq Shards
  <2>1. SUFFICES ASSUME NEW shard \in Shards' PROVE shard \in Shards
    OBVIOUS
  <2>2. CASE \E c \in outbox' : \E k \in DOMAIN c : shard = c[k]
    <3>1. PICK c \in outbox' : \E k \in DOMAIN c : shard = c[k]
      BY <2>2
    <3>2. CASE c \in outbox
      BY <3>1, <3>2 DEF Shards
    <3>3. CASE c = Tail(calls)
      BY <1>6, <1>7, <3>1, <3>3
    <3> QED BY <1>1, <3>1, <3>2, <3>3
  <2>3. CASE \E q \in network' : shard = q.shard
    <3>1. PICK q \in network' : shard = q.shard
      BY <2>3
    <3>2. CASE q \in network
      BY <3>1, <3>2 DEF Shards
    <3>3. CASE q = packet
      BY <1>3, <1>7, <3>1, <3>3
    <3> QED BY <1>1, <3>1, <3>2, <3>3
  <2> QED BY <2>1, <2>2, <2>3 DEF Shards
<1>9. SenderInv'
  BY <1>1, <1>2 DEF SenderInv
<1>10. PacketInv'
  <2>1. \A shard \in Shards' : WellMade(shard)'
    BY <1>1, <1>8 DEF PacketInv, WellMade
  <2>2. ASSUME NEW q \in network'
        PROVE  q.no \in 1..packetNo' /\ Deliverable(q, clock')
    <3>1. CASE q \in network
      BY <1>1, <1>2, <3>1 DEF PacketInv
    <3>2. CASE q = packet /\ Deliverable(packet, clock) /\ packetNo' = packetNo + 1
      BY <1>1, <1>2, <3>2
    <3> QED BY <1>1, <3>1, <3>2
  <2>3. ASSUME NEW c \in outbox' PROVE c \in Seq(ShardSet) /\ c # <<>>
    <3>1. CASE c \in outbox
      BY <1>1, <3>1 DEF PacketInv
    <3>2. CASE c = Tail(calls) /\ Len(calls) > 1
      <4>1. Len(c) > 0
        BY <1>3, <1>4, <3>2
      <4>2. c # <<>>
        BY <4>1, EmptySeq
      <4> QED BY <1>4, <3>2, <4>2
    <3> QED BY <1>1, <3>1, <3>2
  <2> QED BY <2>1, <2>2, <2>3 DEF PacketInv, Deliverable
<1>11. /\ \A id, born \in Nat, i \in Indexes, n \in Nat :
            Sent(id, born, i, n)' => Sent(id, born, i, n) \/ Held(id, born, i, n)
       /\ \A payload \in refused, id, born \in Nat, i \in Indexes :
            ~Sent(id, born, i, payload.number)'
  BY <1>1, <1>8, NothingSent
<1>12. clock <= clock' /\ packetNo <= packetNo'
  BY <1>1, <1>2 DEF SenderInv
<1> HIDE DEF packet
<1> QED BY <1>1, <1>9, <1>10, <1>11, <1>12, SenderStep

\* The shards of an encoding, of whatever group is being coded.
MadeOf(shard, g) ==
    /\ shard \in ShardSet /\ shard.index < shard.total /\ DataShards < shard.total
    /\ shard.index >= DataShards => shard.fec /\ shard.word \in [1..DataShards -> Nat]
    /\ shard.fec /\ shard.index < DataShards => shard.content = Empty
    /\ shard.group = g.id /\ shard.born = g.createdAt
    /\ \A i \in Indexes : \A n : Names(shard, i, n) =>
          i + 1 \in DOMAIN g.payloads /\ n = g.payloads[i + 1].number

\* Encoding a group that is not empty has a size.
LEMMA EncodedSizeNat ==
  ASSUME NEW payloads \in Seq(Payload), payloads # <<>>
  PROVE  EncodedSize(payloads) \in Nat
<1> DEFINE D == DOMAIN payloads
           F == [i \in D |-> payloads[i].size]
           S == {payloads[i].size : i \in D}
<1>1. D = 1..Len(payloads) /\ Len(payloads) \in Nat /\ Len(payloads) # 0
  BY LenProperties, EmptySeq
<1>2. payloads \in [D -> Payload]
  BY LenProperties
<1>3. F \in [D -> Nat] /\ S = {F[i] : i \in D}
  BY <1>2 DEF Payload
<1>4. IsFiniteSet(D) /\ D # {}
  <2>1. 1 \in D
    BY <1>1
  <2>2. IsFiniteSet(1..Len(payloads))
    BY <1>1, FS_Interval
  <2> QED BY <1>1, <2>1, <2>2
<1> HIDE DEF D, F, S
<1>5. Max(S) \in Nat
  BY <1>3, <1>4, Greatest
<1>6. EncodedSize(payloads) = Prefix + Max(S)
  BY DEF EncodedSize, S, D
<1> QED BY <1>5, <1>6, OptionsAssumption

\* The repair shards of a group are made of it.
LEMMA RepairsMade ==
  ASSUME NEW g \in SendGroup, g.payloads # <<>>, Len(g.payloads) <= DataShards,
         parity \in Nat \ {0}, NEW first \in Nat, first <= DataShards, Len(g.payloads) <= first,
         NEW calls, calls = Repairs(g, first)
  PROVE  /\ calls \in Seq(ShardSet) /\ calls # <<>>
         /\ \A k \in DOMAIN calls : MadeOf(calls[k], g)
<1> DEFINE n == DataShards + parity - first
<1>1. /\ DataShards \in Nat \ {0} /\ n \in Nat \ {0} /\ parity \in Nat \ {0}
      /\ g.id \in Nat /\ g.createdAt \in Nat /\ g.payloads \in Seq(Payload)
  BY OptionsAssumption DEF SendGroup
<1>2. /\ Len(g.payloads) \in Nat /\ DOMAIN g.payloads = 1..Len(g.payloads)
      /\ g.payloads \in [1..Len(g.payloads) -> Payload]
  BY <1>1, LenProperties
<1>3. EncodedSize(g.payloads) \in Nat
  BY <1>1, EncodedSizeNat
<1>4. Word(g.payloads) \in [1..DataShards -> Nat]
  <2>1. ASSUME NEW i \in 1..DataShards
        PROVE  (IF i <= Len(g.payloads) THEN g.payloads[i].number ELSE Empty) \in Nat
    <3>1. CASE i <= Len(g.payloads)
      <4>1. i \in 1..Len(g.payloads)
        BY <1>1, <1>2, <3>1
      <4>2. g.payloads[i] \in Payload
        BY <1>2, <4>1
      <4> QED BY <3>1, <4>2 DEF Payload
    <3>2. CASE ~(i <= Len(g.payloads))
      BY <3>2 DEF Empty
    <3> QED BY <3>1, <3>2
  <2> QED BY <2>1 DEF Word
<1>5. ASSUME NEW i \in Indexes, NEW m, m # Empty, m = Word(g.payloads)[i + 1]
      PROVE  i + 1 \in DOMAIN g.payloads /\ m = g.payloads[i + 1].number
  <2>1. i \in Nat /\ i + 1 \in 1..DataShards
    BY <1>1 DEF Indexes
  <2>2. m = IF i + 1 <= Len(g.payloads) THEN g.payloads[i + 1].number ELSE Empty
    BY <1>5, <2>1 DEF Word
  <2> QED BY <1>2, <1>5, <2>1, <2>2
<1>6. ASSUME NEW index \in Nat, index < DataShards + parity
      PROVE  MadeOf(RepairShard(g, index), g)
  <2> DEFINE shard == RepairShard(g, index)
  <2>1. shard = [group |-> g.id, index |-> index, total |-> DataShards + parity, fec |-> TRUE,
                 born |-> g.createdAt, size |-> EncodedSize(g.payloads), content |-> Empty,
                 word |-> IF index < DataShards THEN <<>> ELSE Word(g.payloads)]
    BY DEF RepairShard
  <2>2. /\ shard.group = g.id /\ shard.index = index /\ shard.total = DataShards + parity
        /\ shard.fec = TRUE /\ shard.born = g.createdAt /\ shard.content = Empty
        /\ index >= DataShards => shard.word = Word(g.payloads)
    BY <1>1, <2>1
  <2>3. shard \in ShardSet
    <3>1. DataShards + parity \in Nat /\ Empty \in Nat
      BY <1>1 DEF Empty
    <3>2. (IF index < DataShards THEN <<>> ELSE Word(g.payloads)) \in Words
      BY <1>4 DEF Words
    <3> QED BY <1>1, <1>3, <2>1, <3>1, <3>2 DEF ShardSet
  <2> HIDE DEF shard
  <2>4. shard.index < shard.total /\ DataShards < shard.total
    BY <1>1, <1>6, <2>2
  <2>5. ASSUME NEW i \in Indexes, NEW m, Names(shard, i, m)
        PROVE  i + 1 \in DOMAIN g.payloads /\ m = g.payloads[i + 1].number
    BY <1>5, <2>2, <2>5 DEF Names
  <2>6. MadeOf(shard, g)
    BY <1>4, <2>2, <2>3, <2>4, <2>5 DEF MadeOf
  <2> QED BY <2>6 DEF shard
<1>7. calls = [k \in 1..n |-> RepairShard(g, first + k - 1)]
  BY DEF Repairs
<1>8. ASSUME NEW k \in 1..n PROVE MadeOf(calls[k], g) /\ calls[k] \in ShardSet
  <2>1. first + k - 1 \in Nat /\ first + k - 1 < DataShards + parity
    BY <1>1, <1>8
  <2>2. calls[k] = RepairShard(g, first + k - 1)
    BY <1>7
  <2> QED BY <1>6, <2>1, <2>2 DEF MadeOf
<1> HIDE DEF n
<1>9. DOMAIN calls = 1..n /\ calls \in [1..n -> ShardSet]
  <2>1. calls = [k \in 1..n |-> calls[k]]
    BY <1>7
  <2> QED BY <1>8, <2>1
<1>10. calls \in Seq(ShardSet) /\ Len(calls) = n
  BY <1>1, <1>9
<1>11. calls # <<>>
  BY <1>1, <1>10, EmptySeq
<1> QED BY <1>8, <1>9, <1>10, <1>11

\* Payload n is at place i of the group.
Carries(g, id, born, i, n) ==
    /\ g.id = id /\ g.createdAt = born
    /\ i + 1 \in DOMAIN g.payloads /\ n = g.payloads[i + 1].number

\* The calls are encodings of groups of G.
CodedFrom(calls, G) ==
    /\ calls \in Seq(ShardSet) /\ calls # <<>>
    /\ \E g \in G : \A k \in DOMAIN calls : MadeOf(calls[k], g)

\* Preparing packets keeps what is known of those under way, and they name nothing
\* but the payloads of the groups they encode.
LEMMA CallsPrepared ==
  ASSUME PacketInv, clock \in Nat, fecGroup \in Nat, fecGroup' \in Nat, fecGroup <= fecGroup',
         UNCHANGED <<clock, network, packetNo>>,
         NEW G, \A g \in G : g.createdAt <= clock /\ g.id <= fecGroup',
         NEW C, outbox' = outbox \cup C, \A calls \in C : CodedFrom(calls, G)
  PROVE  /\ PacketInv'
         /\ \A id, born, n : \A i \in Indexes : Sent(id, born, i, n)' =>
               Sent(id, born, i, n) \/ \E g \in G : Carries(g, id, born, i, n)
<1>1. ASSUME NEW shard \in Shards'
      PROVE  shard \in Shards \/ \E g \in G : MadeOf(shard, g)
  <2>1. CASE \E c \in outbox' : \E k \in DOMAIN c : shard = c[k]
    <3>1. PICK c \in outbox' : \E k \in DOMAIN c : shard = c[k]
      BY <2>1
    <3>2. CASE c \in outbox
      BY <3>1, <3>2 DEF Shards
    <3>3. CASE c \in C
      BY <3>1, <3>3 DEF CodedFrom
    <3> QED BY <3>1, <3>2, <3>3
  <2>2. CASE \E q \in network' : shard = q.shard
    BY <2>2 DEF Shards
  <2> QED BY <2>1, <2>2 DEF Shards
<1>2. ASSUME NEW shard \in Shards' PROVE WellMade(shard)'
  <2>1. CASE shard \in Shards
    <3>1. WellMade(shard)
      BY <2>1 DEF PacketInv
    <3>2. shard.group \in Nat
      BY <3>1 DEF WellMade, ShardSet
    <3>3. shard.group <= fecGroup'
      BY <3>1, <3>2 DEF WellMade
    <3> QED BY <3>1, <3>3 DEF WellMade
  <2>2. CASE \E g \in G : MadeOf(shard, g)
    BY <2>2 DEF MadeOf, WellMade
  <2> QED BY <1>1, <2>1, <2>2
<1>3. \A packet \in network' : packet.no \in 1..packetNo' /\ Deliverable(packet, clock')
  BY DEF PacketInv
<1>4. \A calls \in outbox' : calls \in Seq(ShardSet) /\ calls # <<>>
  BY DEF PacketInv, CodedFrom
<1>5. PacketInv'
  BY <1>2, <1>3, <1>4 DEF PacketInv, Deliverable
<1>6. ASSUME NEW id, NEW born, NEW n, NEW i \in Indexes, Sent(id, born, i, n)'
      PROVE  Sent(id, born, i, n) \/ \E g \in G : Carries(g, id, born, i, n)
  <2>1. PICK shard \in Shards' : shard.group = id /\ shard.born = born /\ Names(shard, i, n)
    BY <1>6 DEF Sent
  <2>2. CASE shard \in Shards
    BY <2>1, <2>2 DEF Sent
  <2>3. CASE \E g \in G : MadeOf(shard, g)
    <3>1. PICK g \in G : MadeOf(shard, g)
      BY <2>3
    <3>2. Carries(g, id, born, i, n)
      BY <2>1, <3>1 DEF MadeOf, Carries
    <3> QED BY <3>2
  <2> QED BY <1>1, <2>2, <2>3
<1> QED BY <1>5, <1>6

\* A tick of the flush loop.
LEMMA FlushInv ==
  ASSUME Inv, fecFlush
  PROVE  Inv' /\ (OnceInv => OnceInv')
<1> DEFINE expired == {s \in Streams : flushable(s)}
           G == {tx[s] : s \in expired}
           C == {Repairs(tx[s], Len(tx[s].payloads)) : s \in expired}
<1>1. /\ UNCHANGED <<clock, parity, adapt, fecGroup, packetNo, offered, refused, network, receiver>>
      /\ tx' = [s \in Streams |-> IF s \in expired THEN NoSendGroup ELSE tx[s]]
      /\ outbox' = outbox \cup C
      /\ SenderInv /\ PacketInv /\ RefusedInv
  BY DEF Inv, fecFlush
<1>2. /\ clock \in Nat /\ fecGroup \in Nat /\ packetNo \in Nat /\ parity \in Nat \ {0}
      /\ DataShards \in Nat \ {0} /\ offered \in 0..MaxPayloads
      /\ parity \in 1..MaxParityShards
  BY <1>1, OptionsAssumption DEF SenderInv
<1>3. \A s \in Streams : tx'[s] = tx[s] \/ tx'[s] = NoSendGroup
  BY <1>1
<1>4. ASSUME NEW s \in expired
      PROVE  /\ tx[s] \in SendGroup /\ tx[s].createdAt <= clock /\ tx[s].id <= fecGroup
             /\ Len(tx[s].payloads) \in 1..(DataShards - 1) /\ CanEncode(tx[s].payloads)
             /\ CodedFrom(Repairs(tx[s], Len(tx[s].payloads)), G)
  <2>1. /\ tx[s] \in SendGroup /\ tx[s].createdAt <= clock /\ tx[s].id <= fecGroup
        /\ Len(tx[s].payloads) \in 1..(DataShards - 1) /\ CanEncode(tx[s].payloads)
    BY <1>1 DEF SenderInv, flushable
  <2> DEFINE g == tx[s]
             first == Len(g.payloads)
             calls == Repairs(g, first)
  <2>2. first \in Nat /\ first <= DataShards /\ Len(g.payloads) <= first /\ first # 0
    BY <1>2, <2>1
  <2>3. g.payloads # <<>>
    <3>1. Len(<<>>) = 0
      OBVIOUS
    <3> QED BY <2>2, <3>1
  <2>4. g \in SendGroup /\ g \in G
    BY <2>1
  <2> HIDE DEF g, first, G
  <2>5. /\ calls \in Seq(ShardSet) /\ calls # <<>>
        /\ \A k \in DOMAIN calls : MadeOf(calls[k], g)
    <3>1. Len(g.payloads) <= DataShards
      BY <2>2 DEF first
    <3> QED BY <1>2, <2>2, <2>3, <2>4, <3>1, RepairsMade
  <2>6. CodedFrom(calls, G)
    BY <2>4, <2>5 DEF CodedFrom
  <2> QED BY <2>1, <2>6 DEF g, first
<1>5. /\ \A g \in G : g.createdAt <= clock /\ g.id <= fecGroup'
      /\ \A calls \in C : CodedFrom(calls, G)
  BY <1>1, <1>4
<1>6. \A g \in G : \E s \in Streams : g = tx[s] /\ CanEncode(g.payloads) /\ Len(g.payloads) # DataShards
  <2>1. ASSUME NEW s \in expired
        PROVE  s \in Streams /\ CanEncode(tx[s].payloads) /\ Len(tx[s].payloads) # DataShards
    <3>1. \A k \in 1..(DataShards - 1) : k # DataShards
      BY <1>2
    <3> QED BY <1>4, <3>1
  <2> HIDE DEF expired
  <2> QED BY <2>1
<1> HIDE DEF G, C
<1>7. /\ PacketInv'
      /\ \A id, born, n : \A i \in Indexes : Sent(id, born, i, n)' =>
               Sent(id, born, i, n) \/ \E g \in G : Carries(g, id, born, i, n)
  <2>1. fecGroup' \in Nat /\ fecGroup <= fecGroup' /\ UNCHANGED <<clock, network, packetNo>>
    BY <1>1, <1>2
  <2> QED BY <1>1, <1>2, <1>5, <2>1, CallsPrepared
<1>8. SenderInv'
  <2>1. ASSUME NEW s \in Streams
        PROVE  /\ tx'[s] \in SendGroup /\ Len(tx'[s].payloads) <= DataShards
               /\ tx'[s].createdAt <= clock /\ tx'[s].id <= fecGroup
               /\ tx'[s] # NoSendGroup => tx'[s].payloads # <<>>
    <3>1. CASE tx'[s] = tx[s]
      BY <1>1, <3>1 DEF SenderInv
    <3>2. CASE tx'[s] = NoSendGroup
      <4>1. /\ NoSendGroup.id = 0 /\ NoSendGroup.createdAt = 0 /\ NoSendGroup.payloads = <<>>
            /\ NoSendGroup \in SendGroup /\ Len(<<>>) = 0
        BY DEF NoSendGroup, SendGroup
      <4> QED BY <1>2, <3>2, <4>1
    <3> QED BY <1>3, <3>1, <3>2
  <2>2. tx' \in [Streams -> SendGroup]
    BY <1>1, <2>1
  <2>3. adapt \in [delivered : 0..(AdaptWindow - 1), recovered : Nat]
    BY <1>1 DEF SenderInv
  <2> HIDE DEF expired
  <2>4. clock' = clock /\ fecGroup' = fecGroup /\ packetNo' = packetNo /\ offered' = offered
        /\ parity' = parity /\ adapt' = adapt
    BY <1>1
  <2> QED BY <1>2, <2>1, <2>2, <2>3, <2>4 DEF SenderInv
<1>9. ASSUME NEW id \in Nat, NEW born \in Nat, NEW i \in Indexes, NEW n \in Nat, Sent(id, born, i, n)'
      PROVE  Sent(id, born, i, n) \/ Held(id, born, i, n)
  BY <1>6, <1>7, <1>9 DEF Carries, Held
<1>10. ASSUME NEW payload \in refused, NEW id \in Nat, NEW born \in Nat, NEW i \in Indexes,
              Sent(id, born, i, payload.number)'
       PROVE  FALSE
  <2>1. ~Sent(id, born, i, payload.number)
    BY <1>1 DEF RefusedInv
  <2>2. PICK g \in G : Carries(g, id, born, i, payload.number)
    BY <1>7, <1>10, <2>1
  <2>3. PICK s \in Streams : g = tx[s] /\ CanEncode(g.payloads) /\ Len(g.payloads) # DataShards
    BY <1>6
  <2>4. i + 1 \in DOMAIN g.payloads /\ g.payloads[i + 1].number = payload.number
    BY <2>2 DEF Carries
  <2> QED BY <1>1, <2>3, <2>4 DEF RefusedInv
<1>11. clock <= clock' /\ packetNo <= packetNo' /\ UNCHANGED <<receiver, offered, refused, fecGroup>>
  BY <1>1, <1>2
<1> QED BY <1>3, <1>7, <1>8, <1>9, <1>10, <1>11, SenderStep

-----------------------------------------------------------------------------
(* A new payload.                                                          *)

\* The group that a payload of stream s is appended to.
Opened(s, before) ==
    /\ before \in SendGroup /\ Len(before.payloads) \in 0..(DataShards - 1)
    /\ before.createdAt <= clock
    /\ \/ before.id = fecGroup + 1 /\ before.payloads = <<>>
       \/ before = tx[s] /\ before.id <= fecGroup /\ before.payloads # <<>>

\* The group with the payload.
Extended(before, g, payload) ==
    /\ g \in SendGroup /\ g.id = before.id /\ g.createdAt = before.createdAt
    /\ Len(g.payloads) = Len(before.payloads) + 1
    /\ DOMAIN g.payloads = 1..(Len(before.payloads) + 1)
    /\ DOMAIN before.payloads = 1..Len(before.payloads)
    /\ \A k \in DOMAIN before.payloads : g.payloads[k] = before.payloads[k]
    /\ g.payloads[Len(before.payloads) + 1] = payload

\* What a call of SendPacket does: the calls C that it prepares are codings of
\* groups of G, which carry nothing but what the extended group g carries.
Sends(s, before, g, payload, G, C) ==
    /\ Opened(s, before) /\ Extended(before, g, payload)
    /\ payload \in Payload /\ payload.number = offered + 1
    /\ offered' = offered + 1 /\ offered < MaxPayloads
    /\ fecGroup' \in Nat /\ fecGroup <= fecGroup' /\ before.id <= fecGroup'
    /\ outbox' = outbox \cup C
    /\ \A calls \in C : CodedFrom(calls, G)
    /\ \A h \in G :
          /\ h.id = g.id /\ h.createdAt = g.createdAt
          /\ \A id, born, i, n : Carries(h, id, born, i, n) =>
                Carries(g, id, born, i, n) /\ (n = offered + 1 \/ CanEncode(g.payloads))
    /\ tx' = [tx EXCEPT ![s] = g] \/ tx' = [tx EXCEPT ![s] = NoSendGroup]
    /\ \/ refused' = refused
       \/ refused' = refused \cup {payload} /\ C = {} /\ ~CanEncode(g.payloads)

\* currentGroup finds the open group of the stream, or opens the next.
LEMMA CurrentGroup ==
  ASSUME SenderInv, NEW s \in Streams
  PROVE  Opened(s, currentGroup(s))
<1>1. /\ clock \in Nat /\ fecGroup \in Nat /\ DataShards \in Nat \ {0}
      /\ tx[s] \in SendGroup /\ Len(tx[s].payloads) <= DataShards
      /\ tx[s].createdAt <= clock /\ tx[s].id <= fecGroup
      /\ tx[s] # NoSendGroup => tx[s].payloads # <<>>
  BY OptionsAssumption DEF SenderInv
<1>2. Len(tx[s].payloads) \in Nat
  BY <1>1, LenProperties DEF SendGroup
<1>3. CASE tx[s] = NoSendGroup \/ Len(tx[s].payloads) >= DataShards
  <2> DEFINE new == [id |-> fecGroup + 1, createdAt |-> clock, payloads |-> <<>>]
  <2>1. currentGroup(s) = new
    BY <1>3 DEF currentGroup
  <2>2. new.id = fecGroup + 1 /\ new.createdAt = clock /\ new.payloads = <<>> /\ Len(<<>>) = 0
    OBVIOUS
  <2>3. new \in SendGroup
    <3>1. <<>> \in Seq(Payload) /\ fecGroup + 1 \in Nat
      BY <1>1
    <3> QED BY <1>1, <3>1 DEF SendGroup
  <2> HIDE DEF new
  <2> QED BY <1>1, <2>1, <2>2, <2>3 DEF Opened
<1>4. CASE ~(tx[s] = NoSendGroup \/ Len(tx[s].payloads) >= DataShards)
  <2>1. currentGroup(s) = tx[s]
    BY <1>4 DEF currentGroup
  <2>2. Len(tx[s].payloads) \in 0..(DataShards - 1)
    BY <1>1, <1>2, <1>4
  <2> QED BY <1>1, <1>4, <2>1, <2>2 DEF Opened
<1> QED BY <1>3, <1>4

\* Appending a payload.
LEMMA AppendExtends ==
  ASSUME NEW before \in SendGroup, NEW payload \in Payload,
         NEW g, g = [before EXCEPT !.payloads = Append(@, payload)]
  PROVE  Extended(before, g, payload)
<1>1. /\ before.id \in Nat /\ before.createdAt \in Nat /\ before.payloads \in Seq(Payload)
      /\ before = [id |-> before.id, createdAt |-> before.createdAt, payloads |-> before.payloads]
  BY DEF SendGroup
<1>2. g = [id |-> before.id, createdAt |-> before.createdAt,
           payloads |-> Append(before.payloads, payload)]
  BY <1>1
<1>3. /\ g.id = before.id /\ g.createdAt = before.createdAt
      /\ g.payloads = Append(before.payloads, payload)
  BY <1>2
<1>4. /\ Append(before.payloads, payload) \in Seq(Payload)
      /\ Len(Append(before.payloads, payload)) = Len(before.payloads) + 1
      /\ \A k \in 1..Len(before.payloads) : Append(before.payloads, payload)[k] = before.payloads[k]
      /\ Append(before.payloads, payload)[Len(before.payloads) + 1] = payload
  BY <1>1, AppendProperties
<1>5. /\ DOMAIN before.payloads = 1..Len(before.payloads)
      /\ DOMAIN Append(before.payloads, payload) = 1..Len(Append(before.payloads, payload))
  BY <1>1, <1>4, LenProperties
<1>6. g \in SendGroup
  BY <1>1, <1>2, <1>4 DEF SendGroup
<1> QED BY <1>3, <1>4, <1>5, <1>6 DEF Extended

\* A data shard names its payload and nothing else.
LEMMA DataMade ==
  ASSUME NEW before \in SendGroup, NEW payload \in Payload, NEW g, Extended(before, g, payload),
         Len(before.payloads) \in 0..(DataShards - 1), parity \in Nat \ {0},
         NEW h, h.id = g.id, h.createdAt = g.createdAt,
         Len(before.payloads) + 1 \in DOMAIN h.payloads,
         h.payloads[Len(before.payloads) + 1] = payload
  PROVE  MadeOf(DataShard(g, Len(before.payloads), payload), h)
<1> DEFINE shard == DataShard(g, Len(before.payloads), payload)
<1>1. /\ DataShards \in Nat \ {0} /\ Prefix \in Nat /\ Len(before.payloads) \in Nat
      /\ Len(before.payloads) < DataShards
      /\ payload.size \in Nat /\ payload.number \in Nat /\ g.id \in Nat /\ g.createdAt \in Nat
  BY OptionsAssumption DEF Payload, Extended, SendGroup
<1>2. shard = [group |-> g.id, index |-> Len(before.payloads), total |-> DataShards + parity,
               fec |-> FALSE, born |-> g.createdAt, size |-> payload.size + Prefix,
               content |-> payload.number, word |-> <<>>]
  BY DEF DataShard
<1>3. /\ shard.group = g.id /\ shard.index = Len(before.payloads)
      /\ shard.total = DataShards + parity /\ shard.fec = FALSE
      /\ shard.born = g.createdAt /\ shard.content = payload.number
  BY <1>2
<1>4. shard \in ShardSet
  <2>1. <<>> \in Words /\ payload.size + Prefix \in Nat /\ DataShards + parity \in Nat
    BY <1>1 DEF Words
  <2> QED BY <1>1, <1>2, <2>1 DEF ShardSet
<1> HIDE DEF shard
<1>5. shard.index < shard.total /\ DataShards < shard.total /\ ~(shard.index >= DataShards)
  BY <1>1, <1>3
<1>6. ASSUME NEW i \in Indexes, NEW m, Names(shard, i, m)
      PROVE  i + 1 \in DOMAIN h.payloads /\ m = h.payloads[i + 1].number
  BY <1>3, <1>5, <1>6 DEF Names
<1>7. MadeOf(shard, h)
  BY <1>3, <1>4, <1>5, <1>6 DEF MadeOf
<1> QED BY <1>7 DEF shard

\* One call after another, all made of the same group.
LEMMA CallsJoined ==
  ASSUME NEW d \in ShardSet, NEW g, MadeOf(d, g), NEW r \in Seq(ShardSet),
         \A k \in DOMAIN r : MadeOf(r[k], g), NEW G, g \in G, NEW calls, calls = <<d>> \o r
  PROVE  CodedFrom(calls, G)
<1>1. Len(r) \in Nat /\ DOMAIN r = 1..Len(r)
  BY LenProperties
<1>2. <<d>> \in Seq(ShardSet) /\ Len(<<d>>) = 1 /\ <<d>>[1] = d
  OBVIOUS
<1>3. /\ calls \in Seq(ShardSet) /\ Len(calls) = 1 + Len(r)
      /\ \A k \in 1..(1 + Len(r)) : calls[k] = IF k <= 1 THEN <<d>>[k] ELSE r[k - 1]
  BY <1>1, <1>2, ConcatProperties
<1>4. DOMAIN calls = 1..(1 + Len(r)) /\ calls # <<>>
  BY <1>1, <1>3, LenProperties, EmptySeq
<1>5. ASSUME NEW k \in DOMAIN calls PROVE MadeOf(calls[k], g)
  <2>1. CASE k = 1
    BY <1>1, <1>2, <1>3, <1>4, <2>1
  <2>2. CASE k # 1
    <3>1. k - 1 \in DOMAIN r /\ calls[k] = r[k - 1]
      BY <1>1, <1>3, <1>4, <2>2
    <3> QED BY <3>1
  <2> QED BY <2>1, <2>2
<1> QED BY <1>3, <1>4, <1>5 DEF CodedFrom

\* A single call.
LEMMA CallAlone ==
  ASSUME NEW d, NEW g, MadeOf(d, g), NEW G, g \in G
  PROVE  CodedFrom(<<d>>, G)
<1>1. d \in ShardSet
  BY DEF MadeOf
<1>2. <<d>> \in Seq(ShardSet) /\ Len(<<d>>) = 1 /\ <<d>>[1] = d /\ DOMAIN <<d>> = {1} /\ <<d>> # <<>>
  BY <1>1
<1> QED BY <1>2 DEF CodedFrom

\* The calls of a full group: the last data shard, then the parity shards.
LEMMA FullCoded ==
  ASSUME NEW before \in SendGroup, NEW payload \in Payload, NEW g, Extended(before, g, payload),
         Len(before.payloads) \in 0..(DataShards - 1), parity \in Nat \ {0},
         Len(g.payloads) = DataShards
  PROVE  CodedFrom(<<DataShard(g, Len(before.payloads), payload)>> \o Repairs(g, DataShards), {g})
<1> DEFINE d == DataShard(g, Len(before.payloads), payload)
           r == Repairs(g, DataShards)
<1>1. DataShards \in Nat \ {0} /\ g \in SendGroup
  BY OptionsAssumption DEF Extended
<1>2. g.payloads # <<>>
  <2>1. Len(<<>>) = 0
    OBVIOUS
  <2> QED BY <1>1, <2>1
<1>3. Len(before.payloads) + 1 \in DOMAIN g.payloads /\ g.payloads[Len(before.payloads) + 1] = payload
  <2>1. Len(before.payloads) \in Nat
    BY <1>1
  <2> QED BY <2>1 DEF Extended
<1>4. MadeOf(d, g)
  BY <1>3, DataMade
<1> HIDE DEF d, r
<1>5. r \in Seq(ShardSet) /\ \A k \in DOMAIN r : MadeOf(r[k], g)
  <2>1. /\ DataShards \in Nat /\ DataShards <= DataShards /\ Len(g.payloads) <= DataShards
    BY <1>1
  <2> QED BY <1>1, <1>2, <2>1, RepairsMade DEF r
<1>6. d \in ShardSet
  BY <1>4 DEF MadeOf
<1>7. g \in {g}
  OBVIOUS
<1>8. CodedFrom(<<d>> \o r, {g})
  BY <1>4, <1>5, <1>6, <1>7, CallsJoined
<1> QED BY <1>8 DEF d, r

\* A payload that is refused makes its group impossible to encode.
LEMMA RefusedUncoded ==
  ASSUME NEW before \in SendGroup, NEW payload \in Payload, NEW g, Extended(before, g, payload),
         ~frameFits(payload)
  PROVE  ~CanEncode(g.payloads)
<1>1. Len(before.payloads) \in Nat
  BY LenProperties DEF SendGroup
<1>2. Len(before.payloads) + 1 \in DOMAIN g.payloads /\ g.payloads[Len(before.payloads) + 1] = payload
  BY <1>1 DEF Extended
<1> QED BY <1>2 DEF CanEncode

\* SendPacket does what Sends says.
LEMMA SendSends ==
  ASSUME SenderInv, NEW s \in Streams, NEW size \in Sizes, SendPacket(s, size)
  PROVE  \E before, g, payload, G, C : Sends(s, before, g, payload, G, C)
<1> DEFINE payload == [number |-> offered + 1, size |-> size]
           before == currentGroup(s)
           g == [before EXCEPT !.payloads = Append(@, payload)]
           data == DataShard(g, Len(before.payloads), payload)
           full == Len(g.payloads) = DataShards
<1>1. /\ offered \in Nat /\ size \in Nat /\ fecGroup \in Nat /\ parity \in Nat \ {0}
      /\ DataShards \in Nat \ {0}
  BY OptionsAssumption DEF SenderInv
<1>2. payload \in Payload /\ payload.number = offered + 1
  BY <1>1 DEF Payload
<1>3. Opened(s, before)
  BY CurrentGroup
<1>4. /\ offered < MaxPayloads /\ offered' = offered + 1
      /\ fecGroup' = IF before.id > fecGroup THEN before.id ELSE fecGroup
      /\ \/ /\ ~frameFits(payload) \/ (full /\ ~CanEncode(g.payloads))
            /\ refused' = refused \cup {payload}
            /\ tx' = [tx EXCEPT ![s] = g]
            /\ UNCHANGED outbox
         \/ /\ frameFits(payload)
            /\ ~full
            /\ tx' = [tx EXCEPT ![s] = g]
            /\ outbox' = outbox \cup {<<data>>}
            /\ UNCHANGED refused
         \/ /\ full /\ CanEncode(g.payloads)
            /\ tx' = [tx EXCEPT ![s] = NoSendGroup]
            /\ outbox' = outbox \cup {<<data>> \o Repairs(g, DataShards)}
            /\ UNCHANGED refused
  BY DEF SendPacket
<1>5. before \in SendGroup /\ Len(before.payloads) \in 0..(DataShards - 1) /\ before.id \in Nat
  BY <1>3 DEF Opened, SendGroup
<1> HIDE DEF payload, before
<1>6. Extended(before, g, payload)
  BY <1>2, <1>5, AppendExtends
<1> HIDE DEF g
<1>7. fecGroup' \in Nat /\ fecGroup <= fecGroup' /\ before.id <= fecGroup'
  BY <1>1, <1>4, <1>5
<1> DEFINE Effect(G, C) ==
             /\ outbox' = outbox \cup C
             /\ \A calls \in C : CodedFrom(calls, G)
             /\ \A h \in G :
                   /\ h.id = g.id /\ h.createdAt = g.createdAt
                   /\ \A id, born, i, n : Carries(h, id, born, i, n) =>
                         Carries(g, id, born, i, n) /\ (n = offered + 1 \/ CanEncode(g.payloads))
             /\ tx' = [tx EXCEPT ![s] = g] \/ tx' = [tx EXCEPT ![s] = NoSendGroup]
             /\ \/ refused' = refused
                \/ refused' = refused \cup {payload} /\ C = {} /\ ~CanEncode(g.payloads)
<1>8. ASSUME /\ ~frameFits(payload) \/ (full /\ ~CanEncode(g.payloads))
             /\ refused' = refused \cup {payload}
             /\ tx' = [tx EXCEPT ![s] = g]
             /\ UNCHANGED outbox
      PROVE  Effect({}, {})
  <2>1. ~CanEncode(g.payloads)
    BY <1>2, <1>5, <1>6, <1>8, RefusedUncoded
  <2> QED BY <1>8, <2>1
<1>9. ASSUME /\ frameFits(payload) /\ ~full
             /\ tx' = [tx EXCEPT ![s] = g]
             /\ outbox' = outbox \cup {<<data>>}
             /\ UNCHANGED refused
      PROVE  \E G, C : Effect(G, C)
  <2> DEFINE k == Len(before.payloads) + 1
             h == [id |-> g.id, createdAt |-> g.createdAt, payloads |-> [j \in {k} |-> payload]]
  <2>1. /\ h.id = g.id /\ h.createdAt = g.createdAt
        /\ k \in DOMAIN h.payloads /\ h.payloads[k] = payload
        /\ \A j \in DOMAIN h.payloads : j = k
    OBVIOUS
  <2>2. k \in DOMAIN g.payloads /\ g.payloads[k] = payload
    <3>1. Len(before.payloads) \in Nat
      BY <1>1, <1>5
    <3> QED BY <1>6, <3>1 DEF Extended
  <2> HIDE DEF h
  <2>3. MadeOf(data, h)
    BY <1>1, <1>2, <1>5, <1>6, <2>1, DataMade
  <2> HIDE DEF data, k
  <2>4. CodedFrom(<<data>>, {h})
    <3>1. h \in {h}
      OBVIOUS
    <3> QED BY <2>3, <3>1, CallAlone
  <2>5. ASSUME NEW id, NEW born, NEW i, NEW n, Carries(h, id, born, i, n)
        PROVE  Carries(g, id, born, i, n) /\ n = offered + 1
    <3>1. i + 1 = k /\ h.id = id /\ h.createdAt = born /\ n = payload.number
      BY <2>1, <2>5 DEF Carries
    <3>2. i + 1 \in DOMAIN g.payloads /\ n = g.payloads[i + 1].number
      BY <2>2, <3>1
    <3> QED BY <1>2, <2>1, <3>1, <3>2 DEF Carries
  <2>6. Effect({h}, {<<data>>})
    BY <1>9, <2>1, <2>4, <2>5
  <2> HIDE DEF Effect
  <2> QED BY <2>6
<1>10. ASSUME /\ full /\ CanEncode(g.payloads)
              /\ tx' = [tx EXCEPT ![s] = NoSendGroup]
              /\ outbox' = outbox \cup {<<data>> \o Repairs(g, DataShards)}
              /\ UNCHANGED refused
       PROVE  \E G, C : Effect(G, C)
  <2>1. CodedFrom(<<data>> \o Repairs(g, DataShards), {g})
    BY <1>1, <1>2, <1>5, <1>6, <1>10, FullCoded
  <2> HIDE DEF data
  <2>2. Effect({g}, {<<data>> \o Repairs(g, DataShards)})
    BY <1>10, <2>1
  <2> HIDE DEF Effect
  <2> QED BY <2>2
<1>11. \E G, C : Effect(G, C)
  <2> HIDE DEF Effect, full, data
  <2> QED BY <1>4, <1>8, <1>9, <1>10
<1>12. PICK G, C : Effect(G, C)
  BY <1>11
<1>13. Sends(s, before, g, payload, G, C)
  BY <1>2, <1>3, <1>4, <1>6, <1>7, <1>12 DEF Sends
<1> QED BY <1>13

\* What the extended group carries is the new payload, or was held before.
LEMMA CarriesHeld ==
  ASSUME NEW s \in Streams, NEW before, NEW g, NEW payload, Opened(s, before),
         Extended(before, g, payload), payload.number = offered + 1,
         NEW id, NEW born, NEW i \in Indexes, NEW n, Carries(g, id, born, i, n)
  PROVE  /\ id = before.id /\ born = before.createdAt
         /\ \/ i = Len(before.payloads) /\ n = offered + 1
            \/ /\ before = tx[s] /\ i + 1 \in DOMAIN tx[s].payloads
               /\ n = tx[s].payloads[i + 1].number /\ Held(id, born, i, n)
<1>1. /\ id = before.id /\ born = before.createdAt /\ Len(before.payloads) \in Nat /\ i \in Nat
      /\ i + 1 \in 1..(Len(before.payloads) + 1) /\ n = g.payloads[i + 1].number
      /\ DOMAIN before.payloads = 1..Len(before.payloads)
  BY OptionsAssumption DEF Opened, Extended, Carries, Indexes
<1>2. CASE i = Len(before.payloads)
  BY <1>1, <1>2 DEF Extended
<1>3. CASE i # Len(before.payloads)
  <2>1. i + 1 \in DOMAIN before.payloads
    BY <1>1, <1>3
  <2>2. n = before.payloads[i + 1].number
    BY <1>1, <2>1 DEF Extended
  <2>3. before = tx[s]
    <3>1. before.payloads # <<>>
      <4>1. DOMAIN <<>> = {}
        OBVIOUS
      <4> QED BY <2>1, <4>1
    <3> QED BY <3>1 DEF Opened
  <2> QED BY <1>1, <2>1, <2>2, <2>3 DEF Held
<1> QED BY <1>2, <1>3

\* What is sent or held after a call of SendPacket.
LEMMA SendClaims ==
  ASSUME SenderInv, PacketInv, UNCHANGED <<clock, network, packetNo, rx>>, NEW s \in Streams,
         NEW before, NEW g, NEW payload, NEW G, NEW C, Sends(s, before, g, payload, G, C)
  PROVE  /\ PacketInv'
         /\ \A id, born, n : \A i \in Indexes :
              /\ Sent(id, born, i, n)' =>
                    Sent(id, born, i, n) \/ \E h \in G : Carries(h, id, born, i, n)
              /\ Sent(id, born, i, n)' \/ Held(id, born, i, n)' =>
                    \/ Sent(id, born, i, n) \/ Held(id, born, i, n)
                    \/ /\ id = before.id /\ born = before.createdAt
                       /\ i = Len(before.payloads) /\ n = offered + 1
<1>1. /\ clock \in Nat /\ fecGroup \in Nat /\ fecGroup' \in Nat /\ fecGroup <= fecGroup'
      /\ outbox' = outbox \cup C /\ \A calls \in C : CodedFrom(calls, G)
  BY DEF SenderInv, Sends
<1>2. \A h \in G : h.createdAt <= clock /\ h.id <= fecGroup'
  BY DEF Sends, Opened, Extended
<1>3. /\ PacketInv'
      /\ \A id, born, n : \A i \in Indexes : Sent(id, born, i, n)' =>
            Sent(id, born, i, n) \/ \E h \in G : Carries(h, id, born, i, n)
  BY <1>1, <1>2, CallsPrepared
<1>4. ASSUME NEW id, NEW born, NEW n, NEW i \in Indexes, Carries(g, id, born, i, n)
      PROVE  \/ Sent(id, born, i, n) \/ Held(id, born, i, n)
             \/ /\ id = before.id /\ born = before.createdAt
                /\ i = Len(before.payloads) /\ n = offered + 1
  BY <1>4, CarriesHeld DEF Sends
<1>5. ASSUME NEW id, NEW born, NEW n, NEW i \in Indexes, Held(id, born, i, n)'
      PROVE  Held(id, born, i, n) \/ Carries(g, id, born, i, n)
  <2>1. PICK t \in Streams : /\ tx'[t].id = id /\ tx'[t].createdAt = born
                             /\ i + 1 \in DOMAIN tx'[t].payloads
                             /\ n = tx'[t].payloads[i + 1].number
    BY <1>5 DEF Held
  <2>2. tx'[t] # NoSendGroup
    <3>1. NoSendGroup.payloads = <<>> /\ DOMAIN <<>> = {}
      BY DEF NoSendGroup
    <3> QED BY <2>1, <3>1
  <2>3. tx \in [Streams -> SendGroup]
    BY DEF SenderInv
  <2>4. tx'[t] = tx[t] \/ tx'[t] = g
    BY <2>2, <2>3 DEF Sends
  <2> QED BY <2>1, <2>4 DEF Held, Carries
<1>6. ASSUME NEW id, NEW born, NEW n, NEW i \in Indexes, NEW h \in G, Carries(h, id, born, i, n)
      PROVE  Carries(g, id, born, i, n)
  BY <1>6 DEF Sends
<1> QED BY <1>3, <1>4, <1>5, <1>6

\* The sender after a call of SendPacket.
LEMMA SendSender ==
  ASSUME SenderInv, UNCHANGED <<clock, parity, adapt, packetNo>>, NEW s \in Streams,
         NEW before, NEW g, NEW payload, NEW G, NEW C, Sends(s, before, g, payload, G, C)
  PROVE  SenderInv'
<1>1. /\ clock \in Nat /\ fecGroup \in Nat /\ packetNo \in Nat /\ offered \in 0..MaxPayloads
      /\ parity \in 1..MaxParityShards
      /\ adapt \in [delivered : 0..(AdaptWindow - 1), recovered : Nat]
      /\ tx \in [Streams -> SendGroup] /\ MaxPayloads \in Nat /\ DataShards \in Nat \ {0}
  BY OptionsAssumption, LimitsAssumption DEF SenderInv
<1>2. /\ fecGroup' \in Nat /\ fecGroup <= fecGroup' /\ before.id <= fecGroup'
      /\ offered' = offered + 1 /\ offered < MaxPayloads
      /\ tx' = [tx EXCEPT ![s] = g] \/ tx' = [tx EXCEPT ![s] = NoSendGroup]
  BY DEF Sends
<1>3. /\ g \in SendGroup /\ Len(g.payloads) <= DataShards /\ g.createdAt <= clock
      /\ g.id <= fecGroup' /\ g.payloads # <<>>
  <2>1. /\ g \in SendGroup /\ g.id = before.id /\ g.createdAt = before.createdAt
        /\ Len(g.payloads) = Len(before.payloads) + 1
        /\ Len(before.payloads) \in 0..(DataShards - 1) /\ before.createdAt <= clock
    BY DEF Sends, Opened, Extended
  <2>2. Len(<<>>) = 0
    OBVIOUS
  <2>3. g.payloads # <<>>
    BY <1>1, <2>1, <2>2
  <2> QED BY <1>1, <1>2, <2>1, <2>3
<1>4. /\ NoSendGroup \in SendGroup /\ NoSendGroup.id = 0 /\ NoSendGroup.createdAt = 0
      /\ Len(NoSendGroup.payloads) = 0
  BY DEF NoSendGroup, SendGroup
<1>5. tx' \in [Streams -> SendGroup]
  BY <1>1, <1>2, <1>3, <1>4
<1>6. ASSUME NEW t \in Streams
      PROVE  /\ Len(tx'[t].payloads) <= DataShards /\ tx'[t].createdAt <= clock
             /\ tx'[t].id <= fecGroup'
             /\ tx'[t] # NoSendGroup => tx'[t].payloads # <<>>
  <2>1. tx'[t] = tx[t] \/ tx'[t] = g \/ tx'[t] = NoSendGroup
    BY <1>1, <1>2
  <2>2. CASE tx'[t] = tx[t]
    <3>1. tx[t].id \in Nat /\ tx[t].id <= fecGroup
      BY <1>1 DEF SenderInv, SendGroup
    <3>2. tx[t].id <= fecGroup'
      BY <1>1, <1>2, <3>1
    <3> QED BY <2>2, <3>2 DEF SenderInv
  <2>3. CASE tx'[t] = g
    BY <1>3, <2>3
  <2>4. CASE tx'[t] = NoSendGroup
    BY <1>1, <1>2, <1>4, <2>4
  <2> QED BY <2>1, <2>2, <2>3, <2>4
<1>7. offered' \in 0..MaxPayloads
  BY <1>1, <1>2
<1>8. clock' = clock /\ parity' = parity /\ adapt' = adapt /\ packetNo' = packetNo
  OBVIOUS
<1>9. /\ clock' \in Nat /\ fecGroup' \in Nat /\ packetNo' \in Nat
      /\ parity' \in 1..MaxParityShards
      /\ adapt' \in [delivered : 0..(AdaptWindow - 1), recovered : Nat]
  BY <1>1, <1>2, <1>8
<1>10. \A t \in Streams : /\ Len(tx'[t].payloads) <= DataShards
                          /\ tx'[t].createdAt <= clock' /\ tx'[t].id <= fecGroup'
                          /\ tx'[t] # NoSendGroup => tx'[t].payloads # <<>>
  BY <1>6, <1>8
<1> QED BY <1>5, <1>7, <1>9, <1>10, Zenon DEF SenderInv

\* Claims stay unique: the new payload has a number of its own.
LEMMA SendClaimsInv ==
  ASSUME SenderInv, PacketInv, ClaimsInv, UNCHANGED <<clock, network, packetNo, rx>>,
         NEW s \in Streams,
         NEW before, NEW g, NEW payload, NEW G, NEW C, Sends(s, before, g, payload, G, C)
  PROVE  ClaimsInv'
<1>1. offered \in Nat /\ offered' = offered + 1
  BY DEF SenderInv, Sends
<1>2. ASSUME NEW id \in Nat, NEW i \in Indexes, NEW n \in Nat, Claim(id, i, n)'
      PROVE  \/ Claim(id, i, n)
             \/ id = before.id /\ i = Len(before.payloads) /\ n = offered + 1
  <2>1. CASE \E born \in Nat : Sent(id, born, i, n)' \/ Held(id, born, i, n)'
    <3>1. PICK born \in Nat : Sent(id, born, i, n)' \/ Held(id, born, i, n)'
      BY <2>1
    <3>2. \/ Sent(id, born, i, n) \/ Held(id, born, i, n)
          \/ id = before.id /\ i = Len(before.payloads) /\ n = offered + 1
      BY <3>1, SendClaims
    <3> QED BY <3>2, Zenon DEF Claim
  <2>2. CASE Pending(rx', id, i, n)
    <3>1. rx' = rx
      OBVIOUS
    <3>2. Pending(rx, id, i, n)
      BY <2>2, <3>1
    <3> QED BY <3>2 DEF Claim
  <2>3. (\E born \in Nat : Sent(id, born, i, n)' \/ Held(id, born, i, n)') \/ Pending(rx', id, i, n)
    BY <1>2 DEF Claim, Pending
  <2> QED BY <2>1, <2>2, <2>3
<1>3. ASSUME NEW id \in Nat, NEW i \in Indexes, NEW n \in Nat, Claim(id, i, n)
      PROVE  n \in 1..offered
  BY <1>3 DEF ClaimsInv
<1>4. ASSUME NEW id \in Nat, NEW i \in Indexes, NEW n \in Nat, Claim(id, i, n)'
      PROVE  n \in 1..offered'
  <2>1. CASE Claim(id, i, n)
    <3>1. n \in 1..offered
      BY <1>3, <2>1
    <3> QED BY <1>1, <3>1
  <2>2. CASE n = offered + 1
    BY <1>1, <2>2
  <2> QED BY <1>2, <1>4, <2>1, <2>2
<1>5. ASSUME NEW id \in Nat, NEW jd \in Nat, NEW i \in Indexes, NEW j \in Indexes, NEW n \in Nat,
             Claim(id, i, n)', Claim(jd, j, n)'
      PROVE  id = jd /\ i = j
  <2>1. CASE n = offered + 1
    <3>1. ~(n \in 1..offered)
      BY <1>1, <2>1
    <3>2. ~Claim(id, i, n) /\ ~Claim(jd, j, n)
      BY <1>3, <3>1
    <3> QED BY <1>2, <1>5, <3>2
  <2>2. CASE n # offered + 1
    <3>1. Claim(id, i, n) /\ Claim(jd, j, n)
      BY <1>2, <1>5, <2>2
    <3> QED BY <3>1, OneClaim
  <2> QED BY <2>1, <2>2
<1> QED BY <1>4, <1>5 DEF ClaimsInv

\* A number beyond those offered is claimed by nothing.
LEMMA NotClaimed ==
  ASSUME ClaimsInv, NEW n \in Nat, n \notin 1..offered, NEW id \in Nat, NEW i \in Indexes
  PROVE  /\ ~Pending(rx, id, i, n)
         /\ \A born \in Nat : ~Sent(id, born, i, n) /\ ~Held(id, born, i, n)
<1>1. ~Claim(id, i, n)
  BY DEF ClaimsInv
<1> QED BY <1>1, Zenon DEF Claim

\* A refused payload of the group that is extended keeps it from being encoded.
LEMMA StillRefused ==
  ASSUME RefusedInv, SenderInv, NEW s \in Streams, NEW before, NEW g, NEW payload,
         Opened(s, before), Extended(before, g, payload), payload.number = offered + 1,
         NEW r \in refused, NEW k \in DOMAIN g.payloads, g.payloads[k].number = r.number
  PROVE  ~CanEncode(g.payloads)
<1>1. /\ offered \in Nat /\ r.number \in 1..offered /\ DataShards \in Nat
      /\ \A t \in Streams : \A j \in DOMAIN tx[t].payloads :
            tx[t].payloads[j].number = r.number =>
                ~CanEncode(tx[t].payloads) \/ Len(tx[t].payloads) = DataShards
  BY OptionsAssumption DEF RefusedInv, SenderInv
<1>2. /\ DOMAIN g.payloads = 1..(Len(before.payloads) + 1)
      /\ DOMAIN before.payloads = 1..Len(before.payloads)
      /\ \A j \in DOMAIN before.payloads : g.payloads[j] = before.payloads[j]
      /\ g.payloads[Len(before.payloads) + 1] = payload
      /\ Len(before.payloads) \in 0..(DataShards - 1)
  BY DEF Extended, Opened
<1>3. k # Len(before.payloads) + 1
  <2>1. payload.number # r.number
    BY <1>1
  <2> QED BY <1>2, <2>1
<1>4. k \in DOMAIN before.payloads
  BY <1>1, <1>2, <1>3
<1>5. before = tx[s]
  <2>1. before.payloads # <<>>
    <3>1. DOMAIN <<>> = {}
      OBVIOUS
    <3> QED BY <1>4, <3>1
  <2> QED BY <2>1 DEF Opened
<1>6. before.payloads[k].number = r.number /\ Len(before.payloads) # DataShards
  <2>1. Len(before.payloads) # DataShards
    BY <1>1, <1>2
  <2> QED BY <1>2, <1>4, <2>1
<1>7. ~CanEncode(before.payloads)
  BY <1>1, <1>4, <1>5, <1>6
<1>8. PICK j \in DOMAIN before.payloads : ~frameFits(before.payloads[j])
  BY <1>7 DEF CanEncode
<1>9. j \in DOMAIN g.payloads /\ g.payloads[j] = before.payloads[j]
  <2>1. j \in DOMAIN g.payloads
    BY <1>1, <1>2
  <2> QED BY <1>2, <2>1
<1> QED BY <1>8, <1>9 DEF CanEncode

\* Nothing of a refused payload is sent, and its group is not going to be.
LEMMA SendRefused ==
  ASSUME SenderInv, PacketInv, ClaimsInv, RefusedInv, DeliveryInv,
         UNCHANGED <<clock, network, packetNo, receiver>>, NEW s \in Streams,
         NEW before, NEW g, NEW payload, NEW G, NEW C, Sends(s, before, g, payload, G, C)
  PROVE  RefusedInv'
<1>1. /\ offered \in Nat /\ offered' = offered + 1 /\ offered + 1 \in Payloads
      /\ tx \in [Streams -> SendGroup] /\ DataShards \in Nat \ {0}
      /\ payload.number = offered + 1 /\ Opened(s, before) /\ Extended(before, g, payload)
  BY OptionsAssumption, LimitsAssumption DEF SenderInv, Sends, Payloads
<1>2. rx' = rx /\ deliveries' = deliveries
  BY DEF receiver
<1>3. \A t \in Streams : /\ t # s => tx'[t] = tx[t]
                         /\ tx'[t] = tx[t] \/ tx'[t] = g \/ tx'[t] = NoSendGroup
                         /\ tx'[s] = g \/ tx'[s] = NoSendGroup
  BY <1>1 DEF Sends
<1>4. NoSendGroup.payloads = <<>> /\ DOMAIN <<>> = {}
  BY DEF NoSendGroup
<1>5. \A id, born, n : \A i \in Indexes : Sent(id, born, i, n)' =>
            Sent(id, born, i, n) \/ \E h \in G : Carries(h, id, born, i, n)
  BY <1>2, SendClaims
<1>6. ASSUME NEW r \in refused
      PROVE  /\ r.number \in 1..offered'
             /\ deliveries'[r.number] = 0
             /\ \A id, born \in Nat, i \in Indexes :
                   ~Sent(id, born, i, r.number)' /\ ~Pending(rx', id, i, r.number)
             /\ \A t \in Streams : \A k \in DOMAIN tx'[t].payloads :
                   tx'[t].payloads[k].number = r.number =>
                       ~CanEncode(tx'[t].payloads) \/ Len(tx'[t].payloads) = DataShards
  <2>1. /\ r.number \in 1..offered /\ deliveries[r.number] = 0
        /\ \A id, born \in Nat, i \in Indexes :
              ~Sent(id, born, i, r.number) /\ ~Pending(rx, id, i, r.number)
        /\ \A t \in Streams : \A k \in DOMAIN tx[t].payloads :
              tx[t].payloads[k].number = r.number =>
                  ~CanEncode(tx[t].payloads) \/ Len(tx[t].payloads) = DataShards
    BY DEF RefusedInv
  <2>2. \A k \in DOMAIN g.payloads : g.payloads[k].number = r.number => ~CanEncode(g.payloads)
    BY <1>1, StillRefused
  <2>3. ASSUME NEW id \in Nat, NEW born \in Nat, NEW i \in Indexes, Sent(id, born, i, r.number)'
        PROVE  FALSE
    <3>1. PICK h \in G : Carries(h, id, born, i, r.number)
      BY <1>5, <2>1, <2>3
    <3>2. Carries(g, id, born, i, r.number) /\ (r.number = offered + 1 \/ CanEncode(g.payloads))
      BY <3>1 DEF Sends
    <3>3. CanEncode(g.payloads)
      BY <1>1, <2>1, <3>2
    <3> QED BY <2>2, <3>2, <3>3 DEF Carries
  <2>4. ASSUME NEW t \in Streams, NEW k \in DOMAIN tx'[t].payloads,
               tx'[t].payloads[k].number = r.number
        PROVE  ~CanEncode(tx'[t].payloads) \/ Len(tx'[t].payloads) = DataShards
    <3>1. CASE tx'[t] = tx[t]
      BY <2>1, <2>4, <3>1
    <3>2. CASE tx'[t] = g
      BY <2>2, <2>4, <3>2
    <3>3. CASE tx'[t] = NoSendGroup
      BY <1>4, <3>3
    <3> QED BY <1>3, <3>1, <3>2, <3>3
  <2>5. r.number \in 1..offered'
    BY <1>1, <2>1
  <2> QED BY <1>2, <2>1, <2>3, <2>4, <2>5
<1>7. ASSUME refused' = refused \cup {payload}, C = {}, ~CanEncode(g.payloads)
      PROVE  /\ payload.number \in 1..offered'
             /\ deliveries'[payload.number] = 0
             /\ \A id, born \in Nat, i \in Indexes :
                   ~Sent(id, born, i, payload.number)' /\ ~Pending(rx', id, i, payload.number)
             /\ \A t \in Streams : \A k \in DOMAIN tx'[t].payloads :
                   tx'[t].payloads[k].number = payload.number =>
                       ~CanEncode(tx'[t].payloads) \/ Len(tx'[t].payloads) = DataShards
  <2> DEFINE n == payload.number
  <2>1. n = offered + 1 /\ n \in Nat /\ n \notin 1..offered /\ n \in Payloads /\ n \in 1..offered'
    BY <1>1
  <2> HIDE DEF n
  <2>2. deliveries'[n] = 0
    BY <1>1, <1>2, <2>1 DEF DeliveryInv
  <2>3. \A id, born \in Nat, i \in Indexes :
           ~Sent(id, born, i, n) /\ ~Pending(rx, id, i, n) /\ ~Held(id, born, i, n)
    BY <2>1, NotClaimed
  <2>4. ASSUME NEW id \in Nat, NEW born \in Nat, NEW i \in Indexes, Sent(id, born, i, n)'
        PROVE  FALSE
    <3>1. Shards' = Shards
      BY <1>7 DEF Shards, Sends
    <3>2. Sent(id, born, i, n)
      BY <2>4, <3>1 DEF Sent
    <3> QED BY <2>3, <3>2
  <2>5. ASSUME NEW t \in Streams, NEW k \in DOMAIN tx'[t].payloads, tx'[t].payloads[k].number = n
        PROVE  ~CanEncode(tx'[t].payloads) \/ Len(tx'[t].payloads) = DataShards
    <3>1. CASE tx'[t] = tx[t]
      <4>1. /\ tx[t].id \in Nat /\ tx[t].createdAt \in Nat /\ tx[t].payloads \in Seq(Payload)
            /\ Len(tx[t].payloads) <= DataShards
        BY <1>1 DEF SenderInv, SendGroup
      <4>2. DOMAIN tx[t].payloads = 1..Len(tx[t].payloads) /\ Len(tx[t].payloads) \in Nat
        BY <4>1, LenProperties
      <4>3. k \in DOMAIN tx[t].payloads /\ k \in Nat /\ k >= 1 /\ k <= DataShards
        BY <1>1, <2>5, <3>1, <4>1, <4>2
      <4>4. k - 1 \in Indexes /\ (k - 1) + 1 = k
        BY <1>1, <4>3 DEF Indexes
      <4>5. Held(tx[t].id, tx[t].createdAt, k - 1, n)
        BY <2>5, <3>1, <4>3, <4>4 DEF Held
      <4> QED BY <2>3, <4>1, <4>4, <4>5
    <3>2. CASE tx'[t] = g
      BY <1>7, <3>2
    <3>3. CASE tx'[t] = NoSendGroup
      BY <1>4, <3>3
    <3> QED BY <1>3, <3>1, <3>2, <3>3
  <2> QED BY <1>2, <2>1, <2>2, <2>3, <2>4, <2>5 DEF n
<1>8. ASSUME NEW r \in refused'
      PROVE  /\ r.number \in 1..offered'
             /\ deliveries'[r.number] = 0
             /\ \A id, born \in Nat, i \in Indexes :
                   ~Sent(id, born, i, r.number)' /\ ~Pending(rx', id, i, r.number)
             /\ \A t \in Streams : \A k \in DOMAIN tx'[t].payloads :
                   tx'[t].payloads[k].number = r.number =>
                       ~CanEncode(tx'[t].payloads) \/ Len(tx'[t].payloads) = DataShards
  <2>1. CASE r \in refused
    BY <1>6, <2>1
  <2>2. CASE r = payload /\ refused' = refused \cup {payload} /\ C = {} /\ ~CanEncode(g.payloads)
    BY <1>7, <2>2
  <2> QED BY <2>1, <2>2 DEF Sends
<1> QED BY <1>8 DEF RefusedInv, Pending, CanEncode, frameFits

\* The new payload has not been delivered, and its group was not opened after the
\* receiver heard of it.
LEMMA SendOnce ==
  ASSUME SenderInv, PacketInv, ClaimsInv, DeliveryInv, Books(rx, clock, fecGroup), OnceInv,
         UNCHANGED <<clock, network, packetNo, receiver>>, NEW s \in Streams,
         NEW before, NEW g, NEW payload, NEW G, NEW C, Sends(s, before, g, payload, G, C)
  PROVE  OnceInv'
<1>1. /\ DeliveredOnce
      /\ \A id, born \in Nat, i \in Indexes, n \in Payloads :
                  Sent(id, born, i, n) \/ Held(id, born, i, n) => ClaimOnce(id, born, i, n)
      /\ \A id \in Nat, i \in Indexes, n \in Payloads : Pending(rx, id, i, n) => deliveries[n] = 0
  BY OnceParts
<1>2. /\ rx' = rx /\ deliveries' = deliveries /\ clock' = clock
      /\ offered \in Nat /\ offered + 1 \in Payloads /\ 1..offered \subseteq Payloads
      /\ DataShards \in Nat \ {0} /\ fecGroup \in Nat
  BY OptionsAssumption, LimitsAssumption DEF receiver, SenderInv, Sends, Payloads
<1>3. DeliveredOnce'
  BY <1>1, <1>2 DEF DeliveredOnce
<1>4. \A id \in Nat, i \in Indexes, n \in Payloads : Pending(rx, id, i, n)' => deliveries'[n] = 0
  BY <1>1, <1>2 DEF Pending
<1>5. deliveries[offered + 1] = 0
  BY <1>2 DEF DeliveryInv
<1>6. /\ \A h \in rx.groups : h.id = before.id => before.createdAt <= h.receivedAt
      /\ \A k \in DOMAIN rx.completed : rx.completed[k].id = before.id =>
            before.createdAt <= rx.completed[k].at
  <2>1. CASE before.id = fecGroup + 1
    <3>1. \A h \in rx.groups : h.id \in Nat /\ h.id <= fecGroup
      BY DEF Books, Coherent, RxGroup
    <3>2. \A k \in DOMAIN rx.completed : rx.completed[k].id \in Nat /\ rx.completed[k].id <= fecGroup
      <4>1. rx.completed \in Seq([id : Nat, at : Nat])
        BY DEF Books
      <4>2. rx.completed \in [1..Len(rx.completed) -> [id : Nat, at : Nat]]
        BY <4>1, LenProperties
      <4>3. \A k \in DOMAIN rx.completed : rx.completed[k] \in [id : Nat, at : Nat]
        BY <4>2
      <4> QED BY <4>3 DEF Books
    <3>3. \A x \in Nat : x <= fecGroup => x # before.id
      BY <1>2, <2>1
    <3> QED BY <3>1, <3>2, <3>3
  <2>2. CASE before = tx[s] /\ before.payloads # <<>>
    <3>1. /\ before.id \in Nat /\ before.createdAt \in Nat /\ before.payloads \in Seq(Payload)
      BY DEF Sends, Opened, SendGroup
    <3>2. Len(before.payloads) \in Nat /\ DOMAIN before.payloads = 1..Len(before.payloads)
          /\ Len(before.payloads) # 0 /\ before.payloads \in [1..Len(before.payloads) -> Payload]
      BY <2>2, <3>1, LenProperties, EmptySeq
    <3>3. 1 \in DOMAIN before.payloads /\ before.payloads[1] \in Payload
      <4>1. 1 \in 1..Len(before.payloads)
        BY <3>2
      <4> QED BY <3>2, <4>1
    <3> DEFINE n == before.payloads[1].number
    <3>4. 0 \in Indexes /\ 0 + 1 = 1 /\ n \in Nat
      BY <1>2, <3>3 DEF Indexes, Payload
    <3>5. Held(before.id, before.createdAt, 0, n)
      <4>1. tx[s].id = before.id /\ tx[s].createdAt = before.createdAt
            /\ 1 \in DOMAIN tx[s].payloads /\ n = tx[s].payloads[1].number
        BY <2>2, <3>3
      <4> HIDE DEF n
      <4> QED BY <3>4, <4>1 DEF Held
    <3> HIDE DEF n
    <3>6. n \in 1..offered
      <4>1. Claim(before.id, 0, n)
        BY <3>1, <3>5, Zenon DEF Claim
      <4> QED BY <3>1, <3>4, <4>1 DEF ClaimsInv
    <3>7. ClaimOnce(before.id, before.createdAt, 0, n)
      BY <1>1, <1>2, <3>1, <3>4, <3>5, <3>6
    <3> QED BY <3>7 DEF ClaimOnce
  <2> QED BY <2>1, <2>2 DEF Sends, Opened
<1>7. ASSUME NEW id \in Nat, NEW born \in Nat, NEW i \in Indexes, NEW n \in Payloads,
             Sent(id, born, i, n)' \/ Held(id, born, i, n)'
      PROVE  ClaimOnce(id, born, i, n)'
  <2>1. CASE Sent(id, born, i, n) \/ Held(id, born, i, n)
    <3>1. ClaimOnce(id, born, i, n)
      BY <1>1, <2>1
    <3> QED BY <1>2, <3>1 DEF ClaimOnce, Settled, IsCompleted
  <2>2. CASE id = before.id /\ born = before.createdAt /\ n = offered + 1
    BY <1>2, <1>5, <1>6, <2>2 DEF ClaimOnce
  <2>3. \/ Sent(id, born, i, n) \/ Held(id, born, i, n)
        \/ id = before.id /\ born = before.createdAt /\ n = offered + 1
    BY <1>2, <1>7, SendClaims
  <2> QED BY <2>1, <2>2, <2>3
<1> QED BY <1>3, <1>4, <1>7, Zenon DEF OnceInv, ClaimOnce

\* A call of SendPacket.
LEMMA SendInv ==
  ASSUME Inv, NEW s \in Streams, NEW size \in Sizes, SendPacket(s, size)
  PROVE  Inv' /\ (OnceInv => OnceInv')
<1>1. /\ SenderInv /\ PacketInv /\ DedupInv /\ Books(rx, clock, fecGroup)
      /\ ClaimsInv /\ RefusedInv /\ DeliveryInv
  BY DEF Inv
<1>2. UNCHANGED <<clock, parity, adapt, packetNo, network, receiver>>
  BY DEF SendPacket
<1>3. PICK before, g, payload, G, C : Sends(s, before, g, payload, G, C)
  BY <1>1, SendSends
<1>4. /\ clock' = clock /\ packetNo' = packetNo /\ dedup' = dedup /\ rx' = rx
      /\ deliveries' = deliveries /\ network' = network
  BY <1>2 DEF receiver
<1>5. SenderInv'
  BY <1>1, <1>2, <1>3, SendSender
<1>6. PacketInv' /\ ClaimsInv'
  BY <1>1, <1>3, <1>4, SendClaims, SendClaimsInv
<1>7. RefusedInv'
  BY <1>1, <1>2, <1>3, SendRefused
<1>8. OnceInv => OnceInv'
  BY <1>1, <1>2, <1>3, SendOnce
<1>9. /\ clock \in Nat /\ fecGroup \in Nat /\ fecGroup' \in Nat /\ fecGroup <= fecGroup'
      /\ offered \in Nat /\ offered' = offered + 1
  BY <1>1, <1>3 DEF SenderInv, Sends
<1>10. Books(rx, clock, fecGroup)'
  <2>1. Books(rx, clock, fecGroup')
    <3>1. clock <= clock
      BY <1>9
    <3> QED BY <1>1, <1>9, <3>1, BooksLater
  <2> QED BY <1>4, <2>1 DEF Books, IsCompleted
<1>11. DedupInv'
  BY <1>1, <1>4 DEF DedupInv
<1>12. DeliveryInv'
  <2>1. \A n \in Payloads : n <= offered => n <= offered'
    BY <1>9 DEF Payloads
  <2> QED BY <1>1, <1>4, <2>1 DEF DeliveryInv, NeverGarbage
<1> QED BY <1>5, <1>6, <1>7, <1>8, <1>10, <1>11, <1>12 DEF Inv

-----------------------------------------------------------------------------
(* The invariants of the specification.                                    *)

\* A session that begins has sent, held and received nothing.
LEMMA InitInv == Init => Inv /\ OnceInv
<1> SUFFICES ASSUME Init PROVE Inv /\ OnceInv
  OBVIOUS
<1>1. /\ clock = 0 /\ parity = InitialParity /\ fecGroup = 0 /\ outbox = {} /\ packetNo = 0
      /\ adapt = [delivered |-> 0, recovered |-> 0]
      /\ offered = 0 /\ refused = {} /\ network = {} /\ dedup = [highest |-> 0, seen |-> {}]
      /\ tx = [s \in Streams |-> NoSendGroup] /\ rx = EmptyBuffer
      /\ deliveries = [c \in Contents |-> 0]
  BY DEF Init
<1>2. /\ InitialParity \in 1..MaxParityShards /\ AdaptWindow \in Nat \ {0} /\ DataShards \in Nat \ {0}
      /\ MaxPayloads \in Nat /\ MaxGroups \in Nat /\ MaxCompleted \in Nat /\ MaxBufferedBytes \in Nat
  BY OptionsAssumption, LimitsAssumption
<1>3. /\ NoSendGroup \in SendGroup /\ NoSendGroup.id = 0 /\ NoSendGroup.createdAt = 0
      /\ Len(NoSendGroup.payloads) = 0 /\ DOMAIN NoSendGroup.payloads = {}
  BY DEF NoSendGroup, SendGroup
<1>4. SenderInv
  <2>1. adapt \in [delivered : 0..(AdaptWindow - 1), recovered : Nat]
    BY <1>1, <1>2
  <2>2. tx \in [Streams -> SendGroup] /\ \A s \in Streams : tx[s] = NoSendGroup
    BY <1>1, <1>3
  <2> QED BY <1>1, <1>2, <1>3, <2>1, <2>2 DEF SenderInv
<1>5. Shards = {}
  BY <1>1 DEF Shards
<1>6. PacketInv
  BY <1>1, <1>5 DEF PacketInv
<1>7. DedupInv
  BY <1>1 DEF DedupInv
<1>8. rx.groups = {} /\ rx.completed = <<>> /\ rx.bytes = 0 /\ DOMAIN rx.completed = {}
  BY <1>1 DEF EmptyBuffer
<1>9. Books(rx, clock, fecGroup)
  <2>1. IsFiniteSet({}) /\ Cardinality({}) = 0
    BY FS_EmptySet
  <2>2. Retained({}) \in Nat
    <3>1. {} \subseteq RxGroup /\ {} \in SUBSET {}
      OBVIOUS
    <3> QED BY <2>1, <3>1, RetainedSplit
  <2>3. <<>> \in Seq([id : Nat, at : Nat]) /\ Len(<<>>) = 0
    OBVIOUS
  <2> QED BY <1>2, <1>8, <2>1, <2>2, <2>3 DEF Books
<1>10. ~\E id, born, i, n : Sent(id, born, i, n)
  BY <1>5 DEF Sent
<1>11. ~\E id, born, i, n : Held(id, born, i, n)
  BY <1>1, <1>3 DEF Held
<1>12. ~\E id, i, n : Pending(rx, id, i, n)
  BY <1>8 DEF Pending
<1>13. ClaimsInv
  BY <1>10, <1>11, <1>12 DEF ClaimsInv, Claim
<1>14. RefusedInv
  BY <1>1 DEF RefusedInv
<1>15. /\ deliveries \in [Contents -> Nat] /\ Garbage \in Contents /\ Payloads \subseteq Contents
  BY <1>1, <1>2 DEF Contents, Garbage, Payloads
<1>16. \A c \in Contents : deliveries[c] = 0
  BY <1>1
<1>17. DeliveryInv
  BY <1>15, <1>16 DEF DeliveryInv, NeverGarbage
<1>18. DeliveredOnce
  BY <1>15, <1>16 DEF DeliveredOnce
<1>19. OnceInv
  BY <1>10, <1>11, <1>12, <1>18 DEF OnceInv
<1> QED BY <1>4, <1>6, <1>7, <1>9, <1>13, <1>14, <1>17, <1>19 DEF Inv

\* Nothing but the variables matters.
LEMMA StutterInv ==
  ASSUME UNCHANGED vars
  PROVE  (Inv => Inv') /\ (OnceInv => OnceInv')
<1>1. /\ clock' = clock /\ parity' = parity /\ adapt' = adapt /\ fecGroup' = fecGroup /\ tx' = tx
      /\ outbox' = outbox /\ packetNo' = packetNo /\ offered' = offered /\ refused' = refused
      /\ network' = network /\ dedup' = dedup /\ rx' = rx /\ deliveries' = deliveries
  BY DEF vars, sender, receiver
<1>2. Shards' = Shards
  BY <1>1 DEF Shards
<1>3. /\ \A id, born, i, n : Sent(id, born, i, n)' <=> Sent(id, born, i, n)
      /\ \A id, born, i, n : Held(id, born, i, n)' <=> Held(id, born, i, n)
      /\ \A id, i, n : Pending(rx, id, i, n)' <=> Pending(rx, id, i, n)
  BY <1>1, <1>2 DEF Sent, Held, Pending
<1>4. \A id, i, n : Claim(id, i, n)' <=> Claim(id, i, n)
  BY <1>3 DEF Claim
<1>5. Inv => Inv'
  <2>1. SenderInv => SenderInv'
    BY <1>1 DEF SenderInv
  <2>2. PacketInv => PacketInv'
    BY <1>1, <1>2 DEF PacketInv, WellMade, Deliverable
  <2>3. DedupInv => DedupInv'
    BY <1>1 DEF DedupInv
  <2>4. Books(rx, clock, fecGroup) => Books(rx, clock, fecGroup)'
    BY <1>1 DEF Books, IsCompleted
  <2>5. ClaimsInv => ClaimsInv'
    BY <1>1, <1>4 DEF ClaimsInv
  <2>6. RefusedInv => RefusedInv'
    BY <1>1, <1>3 DEF RefusedInv, CanEncode, frameFits
  <2>7. DeliveryInv => DeliveryInv'
    BY <1>1 DEF DeliveryInv, NeverGarbage
  <2> QED BY <2>1, <2>2, <2>3, <2>4, <2>5, <2>6, <2>7 DEF Inv
<1>6. OnceInv => OnceInv'
  BY <1>1, <1>3 DEF OnceInv, DeliveredOnce, Settled, IsCompleted
<1> QED BY <1>5, <1>6

\* Every step preserves the invariant, and delivers nothing twice when time and
\* tombstones suffice.
LEMMA NextInv ==
  ASSUME Inv, [Next]_vars
  PROVE  /\ Inv'
         /\ OnceInv /\ DatagramsDieFirst /\ TombstonesSuffice => OnceInv'
<1>1. CASE \E s \in Streams, size \in Sizes : SendPacket(s, size)
  BY <1>1, SendInv
<1>2. CASE fecFlush
  BY <1>2, FlushInv
<1>3. CASE \E calls \in outbox : sendWirePayload(calls) \/ sendFails(calls)
  BY <1>3, WireInv
<1>4. CASE \E d \in 1..DataShards, r \in 0..DataShards : r <= d /\ observeFECDelivery(d, r)
  BY <1>4, ObserveInv
<1>5. CASE \E packet \in network : receive(packet)
  BY <1>5, ReceiveInv
<1>6. CASE Tick
  BY <1>6, TickInv
<1>7. CASE UNCHANGED vars
  BY <1>7, StutterInv
<1> QED BY <1>1, <1>2, <1>3, <1>4, <1>5, <1>6, <1>7 DEF Next

\* The invariant holds of every behaviour: the sender's groups, what is under way,
\* the window of packet numbers and the receive buffer are in order, no payload is
\* in two places and none that was refused is in any shard.
THEOREM InvHolds == Spec => []Inv
<1>1. Init => Inv
  BY InitInv
<1>2. Inv /\ [Next]_vars => Inv'
  BY NextInv
<1> QED BY <1>1, <1>2, PTL DEF Spec

\* The window remembers at most as many packet numbers as its size.
LEMMA WindowBound ==
  ASSUME DedupInv, packetNo \in Nat
  PROVE  dedup.seen \subseteq 1..packetNo /\ Cardinality(dedup.seen) <= Window
<1> DEFINE h == dedup.highest
           S == (h - Window + 1)..h
<1>1. h \in 0..packetNo /\ h \in Nat /\ Window \in Nat \ {0} /\ dedup.seen \subseteq 1..h
  BY LimitsAssumption DEF DedupInv
<1>2. dedup.seen \subseteq S
  <2>1. ASSUME NEW n \in dedup.seen PROVE n \in S
    <3>1. n \in 1..h /\ h - n < Window
      BY <1>1 DEF DedupInv
    <3> QED BY <1>1, <3>1
  <2> QED BY <2>1
<1>3. IsFiniteSet(S) /\ Cardinality(S) = Window
  <2>1. /\ h - Window + 1 \in Int /\ h \in Int
        /\ ~(h - Window + 1 > h) /\ h - (h - Window + 1) + 1 = Window
    BY <1>1
  <2> QED BY <2>1, FS_Interval
<1>4. Cardinality(dedup.seen) <= Cardinality(S)
  BY <1>2, <1>3, FS_Subset
<1> QED BY <1>1, <1>3, <1>4

\* The invariant implies the types and the books of the buffer.
LEMMA InvSound == Inv => BufferSound
<1> SUFFICES ASSUME Inv PROVE BufferSound
  OBVIOUS
<1>1. SenderInv /\ DedupInv /\ Books(rx, clock, fecGroup) /\ DeliveryInv
  BY DEF Inv
<1>2. dedup.seen \subseteq 1..packetNo /\ Cardinality(dedup.seen) <= Window
  BY <1>1, WindowBound DEF SenderInv
<1>3. TypeOK
  <2>1. adapt.delivered \in 0..(AdaptWindow - 1)
    BY <1>1 DEF SenderInv
  <2>2. /\ Cardinality(rx.groups) <= MaxGroups /\ Len(rx.completed) <= MaxCompleted
        /\ rx.bytes \in 0..MaxBufferedBytes
    BY <1>1 DEF Books
  <2> QED BY <1>1, <1>2, <2>1, <2>2 DEF TypeOK, SenderInv, DedupInv, DeliveryInv
<1>4. NeverOvercounts
  BY <1>1 DEF Books, NeverOvercounts
<1>5. GroupsDistinct
  BY <1>1 DEF Books, GroupsDistinct
<1> QED BY <1>3, <1>4, <1>5 DEF BufferSound

\* The receive buffer keeps its books (completeGroupIfDelivered, purgeExpiredGroups
\* and AddPacket): limits and types, a byte count that is covered by what the
\* groups retain, and one place for every group.
THEOREM BufferIsSound == Spec => []BufferSound
<1>1. Inv => BufferSound
  BY InvSound
<1> QED BY <1>1, InvHolds, PTL

\* A payload that nextFECShards refused is not delivered to the peer, though it stays
\* in the group that later payloads share and writes may fail at any packet.  Nothing
\* is claimed of a payload whose write failed: the peer may still come to it.
THEOREM RefusedStaysHome == Spec => []RefusedNotDelivered
<1>1. Inv => RefusedNotDelivered
  BY DEF Inv, RefusedInv, RefusedNotDelivered
<1> QED BY <1>1, InvHolds, PTL

\* What is delivered was sent: sameMetadata keeps shards that were coded with
\* different parity counts from being decoded together.
THEOREM NothingInvented == Spec => []NeverGarbage
<1>1. Inv => NeverGarbage
  BY DEF Inv, DeliveryInv
<1> QED BY <1>1, InvHolds, PTL

\* No payload is delivered twice, as long as datagrams are gone before the groups
\* they belong to expire at the receiver (fecReceiveGroupLifetime) and the table of
\* completed groups (MaxFECCompletedGroups) only drops entries older than that.
THEOREM DeliveredAtMostOnce ==
  ASSUME DatagramsDieFirst
  PROVE  Spec /\ []TombstonesSuffice => []DeliveredOnce
<1>1. Init => Inv /\ OnceInv
  BY InitInv
<1>2. Inv /\ OnceInv /\ TombstonesSuffice /\ [Next]_vars => Inv' /\ OnceInv'
  BY NextInv
<1>3. OnceInv => DeliveredOnce
  BY DEF OnceInv
<1> QED BY <1>1, <1>2, <1>3, PTL DEF Spec

-----------------------------------------------------------------------------
(* Short sessions.                                                         *)

\* Every group is opened by a payload of its own (currentGroup, in SendPacket).
GroupsCounted == fecGroup <= offered

\* Every step keeps that count.
LEMMA CountedNext ==
  ASSUME SenderInv, GroupsCounted, [Next]_vars
  PROVE  GroupsCounted'
<1>1. fecGroup \in Nat /\ offered \in Nat /\ fecGroup <= offered
  BY LimitsAssumption DEF SenderInv, GroupsCounted
<1>2. ASSUME NEW s \in Streams, NEW size \in Sizes, SendPacket(s, size)
      PROVE  GroupsCounted'
  <2>1. tx[s].id \in Nat /\ tx[s].id <= fecGroup
    BY DEF SenderInv, SendGroup
  <2>2. currentGroup(s).id = fecGroup + 1 \/ currentGroup(s).id = tx[s].id
    BY DEF currentGroup
  <2>3. /\ fecGroup' = IF currentGroup(s).id > fecGroup THEN currentGroup(s).id ELSE fecGroup
        /\ offered' = offered + 1
    BY <1>2 DEF SendPacket
  <2> QED BY <1>1, <2>1, <2>2, <2>3 DEF GroupsCounted
<1>3. CASE \E s \in Streams, size \in Sizes : SendPacket(s, size)
  BY <1>2, <1>3
<1>4. CASE UNCHANGED <<fecGroup, offered>>
  BY <1>1, <1>4 DEF GroupsCounted
<1>5. fecFlush => UNCHANGED <<fecGroup, offered>>
  BY DEF fecFlush
<1>6. (\E calls \in outbox : sendWirePayload(calls) \/ sendFails(calls))
         => UNCHANGED <<fecGroup, offered>>
  BY DEF sendWirePayload, sendFails
<1>7. (\E d \in 1..DataShards, r \in 0..DataShards : r <= d /\ observeFECDelivery(d, r))
         => UNCHANGED <<fecGroup, offered>>
  BY DEF observeFECDelivery
<1>8. (\E packet \in network : receive(packet)) => UNCHANGED <<fecGroup, offered>>
  BY DEF receive, sender
<1>9. Tick => UNCHANGED <<fecGroup, offered>>
  BY DEF Tick, sender
<1>10. UNCHANGED vars => UNCHANGED <<fecGroup, offered>>
  BY DEF vars, sender
<1> QED BY <1>3, <1>4, <1>5, <1>6, <1>7, <1>8, <1>9, <1>10 DEF Next

\* Tombstones are of different groups, so there are no more of them than group ids.
LEMMA TombstonesCounted ==
  ASSUME NEW c, NEW now, NEW top \in Nat, TombstonesInOrder(c, now, top)
  PROVE  Len(c) \in Nat /\ Len(c) <= top + 1
<1>1. /\ c \in Seq([id : Nat, at : Nat])
      /\ \A k \in DOMAIN c : c[k].id <= top
      /\ \A j, k \in DOMAIN c : c[j].id = c[k].id => j = k
  BY DEF TombstonesInOrder, Tombstones
<1>2. Len(c) \in Nat /\ DOMAIN c = 1..Len(c) /\ c \in [1..Len(c) -> [id : Nat, at : Nat]]
  BY <1>1, LenProperties
<1>3. IsFiniteSet(1..Len(c)) /\ Cardinality(1..Len(c)) = Len(c)
  <2>1. 1 \in Int /\ Len(c) \in Int /\ (IF 1 > Len(c) THEN 0 ELSE Len(c) - 1 + 1) = Len(c)
    BY <1>2
  <2> QED BY <2>1, FS_Interval
<1>4. IsFiniteSet(0..top) /\ Cardinality(0..top) = top + 1
  BY FS_Interval
<1> DEFINE f == [k \in 1..Len(c) |-> c[k].id]
<1>5. f \in [1..Len(c) -> 0..top]
  <2>1. ASSUME NEW k \in 1..Len(c) PROVE c[k].id \in 0..top
    <3>1. c[k] \in [id : Nat, at : Nat]
      BY <1>2
    <3>2. c[k].id <= top
      BY <1>1, <1>2
    <3> QED BY <3>1, <3>2
  <2> QED BY <2>1
<1>6. \A j, k \in 1..Len(c) : f[j] = f[k] => j = k
  BY <1>1, <1>2
<1> HIDE DEF f
<1>7. ~(Cardinality(0..top) < Cardinality(1..Len(c)))
  BY <1>3, <1>4, <1>5, <1>6, FS_PigeonHole
<1> QED BY <1>2, <1>3, <1>4, <1>7

\* A session with fewer payloads than the table has tombstones never fills it.
LEMMA TableNeverFull ==
  ASSUME Inv, GroupsCounted, MaxPayloads + 1 < MaxCompleted
  PROVE  TombstonesSuffice
<1>1. /\ fecGroup \in Nat /\ offered \in 0..MaxPayloads /\ fecGroup <= offered /\ clock \in Nat
      /\ MaxPayloads \in Nat /\ MaxCompleted \in Nat
  BY LimitsAssumption DEF Inv, SenderInv, GroupsCounted
<1>2. TombstonesInOrder(rx.completed, clock, fecGroup)
  BY BooksParts DEF Inv
<1>3. Len(rx.completed) \in Nat /\ Len(rx.completed) <= fecGroup + 1
  BY <1>1, <1>2, TombstonesCounted
<1>4. /\ unexpired(rx.completed) \in Seq([id : Nat, at : Nat])
      /\ Len(unexpired(rx.completed)) <= Len(rx.completed)
  BY <1>1, <1>2, TombstonesLeft DEF TombstonesInOrder, Tombstones
<1>5. Len(unexpired(rx.completed)) \in Nat
  BY <1>4, LenProperties
<1>6. ~(Len(unexpired(rx.completed)) >= MaxCompleted)
  BY <1>1, <1>3, <1>4, <1>5
<1> QED BY <1>6 DEF TombstonesSuffice

\* Without a condition on the behaviour: no payload is delivered twice in a session
\* too short to fill the table of completed groups (MaxFECCompletedGroups), whatever
\* rememberCompletedGroup would drop then.
THEOREM ShortSessionsDeliverOnce ==
  ASSUME DatagramsDieFirst, MaxPayloads + 1 < MaxCompleted
  PROVE  Spec => []DeliveredOnce
<1>1. Init => Inv /\ GroupsCounted
  <2>1. Init => fecGroup = 0 /\ offered = 0
    BY DEF Init
  <2> QED BY <2>1, InitInv DEF GroupsCounted
<1>2. Inv /\ GroupsCounted /\ [Next]_vars => Inv' /\ GroupsCounted'
  BY NextInv, CountedNext DEF Inv
<1>3. Inv /\ GroupsCounted => TombstonesSuffice
  BY TableNeverFull
<1>4. Spec /\ []TombstonesSuffice => []DeliveredOnce
  BY DeliveredAtMostOnce
<1> QED BY <1>1, <1>2, <1>3, <1>4, PTL DEF Spec
=============================================================================
