-------------------------- MODULE MCClientRuntime --------------------------
(* Small instances of ClientRuntime, and of the ClientManager in it, for TLC. *)
EXTENDS ClientRuntime
=============================================================================
