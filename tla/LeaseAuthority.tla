--------------------------- MODULE LeaseAuthority ---------------------------
(***************************************************************************)
(* What the captured-UDP registry promises to the data path, with every    *)
(* mechanism left out (attachments, tokens, controllers, transactions,     *)
(* clocks, buffers): policy epochs succeed each other and are never        *)
(* reinstated, a lease exists only inside the epoch it was granted in, and *)
(* a datagram passes only under a lease that is held, once per sequence    *)
(* number, in increasing order.                                            *)
(***************************************************************************)
EXTENDS Integers

CONSTANTS
    Flows,              \* flow ids
    Epochs,             \* policy generations that can be proposed
    SequenceNumbers     \* datagram sequence numbers

VARIABLES
    epoch,              \* the policy generation in force, 0 when none is
    lastEpoch,          \* the newest generation that ever was in force
    grants,             \* number of leases ever granted
    held,               \* the leases held: [flow, lease, epoch]
    passed              \* <<lease, sequence>> of the datagrams let through

authority == <<epoch, lastEpoch, grants, held, passed>>

AuthorityInit ==
    /\ epoch = 0 /\ lastEpoch = 0
    /\ grants = 0
    /\ held = {} /\ passed = {}

Install(g) ==
    /\ g > lastEpoch
    /\ epoch' = g /\ lastEpoch' = g
    /\ held' = {}
    /\ UNCHANGED <<grants, passed>>

Withdraw ==
    /\ epoch' = 0
    /\ held' = {}
    /\ UNCHANGED <<lastEpoch, grants, passed>>

Lapse ==
    /\ held' \in SUBSET held
    /\ UNCHANGED <<epoch, lastEpoch, grants, passed>>

\* Leases that lapsed may be dropped by the same step.
GrantLease(f) ==
    /\ epoch # 0
    /\ grants' = grants + 1
    /\ \E kept \in SUBSET held :
          /\ \A l \in kept : l.flow # f
          /\ held' = kept \cup {[flow |-> f, lease |-> grants + 1, epoch |-> epoch]}
    /\ UNCHANGED <<epoch, lastEpoch, passed>>

Pass(l, seq) ==
    /\ l \in held
    /\ l.epoch = epoch
    /\ \A p \in passed : p[1] = l.lease => p[2] < seq
    /\ passed' = passed \cup {<<l.lease, seq>>}
    /\ UNCHANGED <<epoch, lastEpoch, grants, held>>

AuthorityNext ==
    \/ \E g \in Epochs : Install(g)
    \/ Withdraw
    \/ Lapse
    \/ \E f \in Flows : GrantLease(f)
    \/ \E l \in held, seq \in SequenceNumbers : Pass(l, seq)

AuthoritySpec == AuthorityInit /\ [][AuthorityNext]_authority
=============================================================================
