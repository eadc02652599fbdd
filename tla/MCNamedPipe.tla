---------------------------- MODULE MCNamedPipe ----------------------------
(***************************************************************************)
(* Instances of NamedPipe for TLC: two callers, one goroutine that         *)
(* delivers replies, a queue of one request.                               *)
(***************************************************************************)
EXTENDS NamedPipe, TLC
=============================================================================
