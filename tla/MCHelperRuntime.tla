-------------------------- MODULE MCHelperRuntime --------------------------
(***************************************************************************)
(* The helper runtime for TLC.  The specification has no constants: one    *)
(* service, one Run, one stop request.                                     *)
(***************************************************************************)
EXTENDS HelperRuntime
=============================================================================
