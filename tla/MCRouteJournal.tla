--------------------------- MODULE MCRouteJournal ---------------------------
(* Small instances of RouteJournal for TLC. *)
EXTENDS RouteJournal, TLC

CONSTANTS p, q, a, b

\* p installs two routes, q one of the same: they compete for a destination.
MCPlan == (p :> <<a, b>>) @@ (q :> <<a>>)

\* The code only compares adapter identities.
MCSymmetry == Permutations(LUIDs)

\* One process, to look at what a single transaction does.
MCPlanOne == p :> <<a, b>>
=============================================================================
