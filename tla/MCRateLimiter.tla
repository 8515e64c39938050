--------------------------- MODULE MCRateLimiter ---------------------------
(***************************************************************************)
(* Instances of RateLimiter for TLC.  Streams and other requests are       *)
(* interchangeable among themselves, and so are workers and tenants.       *)
(***************************************************************************)
EXTENDS RateLimiter, TLC

Interchangeable ==
    Permutations(Streams) \cup Permutations(Requests \ Streams)
        \cup Permutations(Workers) \cup Permutations(Tenants)
=============================================================================
