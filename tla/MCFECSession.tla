--------------------------- MODULE MCFECSession ---------------------------
(* The instance of FECSession that TLC checks: its constants are in        *)
(* FECSession.cfg.                                                         *)
EXTENDS FECSession
=============================================================================
