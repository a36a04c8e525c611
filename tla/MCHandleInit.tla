---------------------------- MODULE MCHandleInit ----------------------------
(* Small instances of HandleInit for TLC. *)
EXTENDS HandleInit
=============================================================================
