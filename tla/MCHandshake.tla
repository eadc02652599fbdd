----------------------------- MODULE MCHandshake -----------------------------
(***************************************************************************)
(* The dialer over two paths for TLC.                                      *)
(***************************************************************************)
EXTENDS Handshake
=============================================================================
