--------------------------- MODULE MCRelayRouter ---------------------------
(* A small instance of RelayRouter for TLC. *)
EXTENDS RelayRouter, TLC

\* The code treats connections, session IDs and addresses alike.
MCSymmetry == Permutations(Conns) \cup Permutations(IDs) \cup Permutations(Addrs)

\* What is left of an ended connection cannot act any more: it is not registered,
\* its session reads nothing and no message for it is looked at.  Two states that
\* differ only in that have the same behaviours.
MCView ==
    LET ofLive(f) == [k \in {c \in Conns : ~ended[c]} |-> f[k]]
        alive(S)  == {c \in S : ~ended[c.conn]}
    IN <<clock, closed, table, ended, ofLive(connID), ofLive(home), ofLive(since),
         ofLive(paths), ofLive(lastSeen), ofLive(active), ofLive(tokens),
         ofLive(refillAt), ofLive(windowFrom), ofLive(granted), ofLive(inbox),
         ofLive(pending), ofLive(used), reader, alive(challenges),
         Cardinality(challenges), alive(spent), respent>>
=============================================================================
