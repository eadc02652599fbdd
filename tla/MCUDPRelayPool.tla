--------------------------- MODULE MCUDPRelayPool ---------------------------
(***************************************************************************)
(* The relay pool for TLC: two keys of one session and one of another; a    *)
(* port outside the rules denies a fourth.                                 *)
(***************************************************************************)
EXTENDS UDPRelayPool

CONSTANTS s1, s2, k1, k2, k3, k4

Target(a, p) == [addr |-> a, port |-> p]
MCKeys == {k1, k2, k3, k4}
MCSessionOf == [k \in MCKeys |-> IF k \in {k1, k2} THEN s1 ELSE s2]
MCRemoteOf == [k \in MCKeys |-> Target("game", IF k = k4 THEN 9 ELSE 7)]
MCRules == {[prefixes |-> {"game"}, ports |-> {[start |-> 7, end |-> 8]}]}
=============================================================================
