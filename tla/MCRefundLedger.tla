--------------------------- MODULE MCRefundLedger ---------------------------
(***************************************************************************)
(* RefundLedger for TLC: the server processes are alike.                   *)
(***************************************************************************)
EXTENDS RefundLedger, TLC

Alike == Permutations(Processes)
=============================================================================
