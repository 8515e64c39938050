--------------------------- MODULE MCQuotaLedger ---------------------------
(***************************************************************************)
(* Instances of QuotaLedger for TLC.  Requests and tenants are             *)
(* interchangeable, so both are symmetry sets.                             *)
(***************************************************************************)
EXTENDS QuotaLedger, TLC

Interchangeable == Permutations(Requests) \cup Permutations(Tenants)

=============================================================================
