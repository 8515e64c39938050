--------------------------- MODULE SlidingWindow ---------------------------
(***************************************************************************)
(* The arithmetic of llm_router/ratelimit.py: what the token_usage table   *)
(* charges a tenant at an instant, what an admission check evicts, and how *)
(* long a refused caller is told to wait.                                  *)
(*                                                                         *)
(* A table is a function whose domain is the set of request ids that have  *)
(* a row (idx_usage_request makes the id unique) and whose values are      *)
(* records with at least the fields tenant, tokens and created.  Time is   *)
(* counted in ticks; only differences and comparisons of stamps matter to  *)
(* the code.                                                               *)
(***************************************************************************)
EXTENDS Integers, FiniteSets

CONSTANTS
    Window,     \* RateLimiter._window, in ticks
    Limit       \* RateLimiter._limit, in tokens

ASSUME WindowAssumption == Window \in Nat \ {0}
ASSUME LimitAssumption  == Limit \in Nat

(***************************************************************************)
(* The sum of a finite function into Nat, as the number of its token       *)
(* units.  A recursive sum would be out of the prover's reach; a           *)
(* cardinality is not.                                                     *)
(***************************************************************************)
Units(f) == UNION {{r} \X (1 .. f[r]) : r \in DOMAIN f}
Total(f) == Cardinality(Units(f))

Lesser(a, b) == IF a < b THEN a ELSE b

-----------------------------------------------------------------------------
\* The rows `WHERE tenant = ? AND created_at > now - window`.
Live(rows, tenant, now) ==
    {r \in DOMAIN rows : /\ rows[r].tenant = tenant
                         /\ rows[r].created > now - Window}

\* What the rows in S cost.
Tokens(rows, S) == [r \in S |-> rows[r].tokens]

\* RateLimiter._used
Used(rows, tenant, now) == Total(Tokens(rows, Live(rows, tenant, now)))

\* RateLimiter._evict: rows of every tenant go, not only the caller's.
Evict(rows, now) ==
    [r \in {q \in DOMAIN rows : rows[q].created > now - Window} |-> rows[r]]

\* The table after `INSERT INTO token_usage` of one row.
Insert(rows, r, row) ==
    [q \in DOMAIN rows \cup {r} |-> IF q = r THEN row ELSE rows[q]]

\* The table after `DELETE ... WHERE request_id = ?`.
Delete(rows, r) == [q \in DOMAIN rows \ {r} |-> rows[q]]

(***************************************************************************)
(* RateLimiter._retry_after.  Walking the rows oldest first and stopping   *)
(* where the running total covers the shortfall finds the least stamp c    *)
(* such that the rows stamped up to c cover it; rows with equal stamps are *)
(* walked in any order and give the same c.                                *)
(***************************************************************************)
Freed(rows, tenant, now, c) ==
    Total(Tokens(rows, {r \in Live(rows, tenant, now) : rows[r].created <= c}))

\* MUTANT of RetryAfter: waits for one row more than the shortfall needs.
RetryAfterStrict(rows, tenant, now, needed) ==
    LET shortfall == Used(rows, tenant, now) + needed - Limit
        stamps == {rows[r].created : r \in Live(rows, tenant, now)}
        enough == {c \in stamps : Freed(rows, tenant, now, c) > shortfall}
        oldest == CHOOSE c \in enough : \A d \in enough : c <= d
    IN  IF shortfall <= 0 THEN 0
        ELSE IF enough = {} THEN Window
        ELSE oldest + Window - now

RetryAfter(rows, tenant, now, needed) ==
    LET shortfall == Used(rows, tenant, now) + needed - Limit
        stamps == {rows[r].created : r \in Live(rows, tenant, now)}
        enough == {c \in stamps : Freed(rows, tenant, now, c) >= shortfall}
        oldest == CHOOSE c \in enough : \A d \in enough : c <= d
    IN  IF shortfall <= 0 THEN 0
        ELSE IF enough = {} THEN Window
        ELSE oldest + Window - now
=============================================================================
