------------------------------ MODULE MCRelay ------------------------------
(* Small instances of Relay for TLC. *)
EXTENDS Relay, TLC

\* The code treats connections, session IDs and addresses alike.
MCSymmetry == Permutations(Conns) \cup Permutations(IDs) \cup Permutations(Addrs)
=============================================================================
