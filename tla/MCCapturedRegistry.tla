------------------------- MODULE MCCapturedRegistry -------------------------
(* Small instances of CapturedRegistry for TLC. *)
EXTENDS CapturedRegistry, TLC

\* The v2 header leaves an IPv6 flow less room than an IPv4 flow.
MCPayloadLimit(e) == IF e = "v6" THEN 2 ELSE 3

\* Nothing in the code tells two attachments, controllers or slots apart.
MCSymmetry == Permutations(Attachments) \cup Permutations(Controllers)
                 \cup Permutations(FlowIDs) \cup Permutations(BufferSlots)
=============================================================================
