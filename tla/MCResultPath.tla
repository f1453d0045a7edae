---------------------------- MODULE MCResultPath ----------------------------
(* The result path, for TLC: lengths stand for bytes. *)
EXTENDS ResultPath
=============================================================================
