---------------------------- MODULE QuotaLedger ----------------------------
(***************************************************************************)
(* What llm_router/ratelimit.py promises, with no database in it: each     *)
(* call of the limiter is one atomic step on a book that never forgets.    *)
(*                                                                         *)
(* An entry of the book is an admission; it keeps the estimate it was      *)
(* admitted at beside the tokens it is charged now.  There is no eviction  *)
(* here: an entry leaves the window by growing old.  RateLimiter.tla is    *)
(* the code, with its table, locks, transactions and faults, and is shown  *)
(* to implement this module when one process uses the database.            *)
(***************************************************************************)
EXTENDS SlidingWindow

CONSTANTS
    Requests,   \* the requests the gateway ever sees
    Tenants,    \* resolved tenant ids
    Estimates,  \* tokens.reservation_size of a request
    Usages,     \* what a provider may report that a request cost
    MaxTime     \* bound: the clock stops here

ASSUME RequestsAssumption  == IsFiniteSet(Requests)
ASSUME EstimatesAssumption == Estimates \subseteq Nat
ASSUME UsagesAssumption    == Usages \subseteq Nat
ASSUME MaxTimeAssumption   == MaxTime \in Nat

VARIABLES
    now,        \* the limiter's clock
    book,       \* every admission not given back, by request
    verdict     \* what each request has been told

vars == <<now, book, verdict>>

Entry == [tenant : Tenants, estimate : Nat, tokens : Nat, created : Nat]

Verdicts == {"pending", "admitted", "refused", "charged", "returned"}

Init ==
    /\ now = 0
    /\ book = [r \in {} |-> 0]
    /\ verdict = [r \in Requests |-> "pending"]

-----------------------------------------------------------------------------
\* check_and_reserve, the tenant has room at the instant s of the check.  The
\* book counts entries stamped after s as well, so a check that carries an old
\* stamp is still safe here; it is the eviction of the code that cannot afford
\* one (see RateLimiter.tla).
Admit(r, t, n, s) ==
    /\ verdict[r] = "pending"
    /\ s <= now
    /\ Used(book, t, s) + n <= Limit
    /\ book' = Insert(book, r, [tenant |-> t, estimate |-> n, tokens |-> n,
                                created |-> s])
    /\ verdict' = [verdict EXCEPT ![r] = "admitted"]
    /\ UNCHANGED now

\* check_and_reserve, the request does not fit.
Refuse(r, t, n, s) ==
    /\ verdict[r] = "pending"
    /\ s <= now
    /\ Used(book, t, s) + n > Limit
    /\ verdict' = [verdict EXCEPT ![r] = "refused"]
    /\ UNCHANGED <<now, book>>

\* MUTANT of Settle: the entry is re-stamped to the completion time.
SettleRestamps(r, u) ==
    /\ verdict[r] = "admitted"
    /\ book' = [book EXCEPT ![r].tokens = u, ![r].created = now]
    /\ verdict' = [verdict EXCEPT ![r] = "charged"]
    /\ UNCHANGED now

\* settle: the estimate becomes the cost; the stamp stays.
Settle(r, u) ==
    /\ verdict[r] = "admitted"
    /\ book' = [book EXCEPT ![r].tokens = u]
    /\ verdict' = [verdict EXCEPT ![r] = "charged"]
    /\ UNCHANGED now

\* MUTANT of Release: the caller is told, the entry stays.
ReleaseForgets(r) ==
    /\ verdict[r] = "admitted"
    /\ verdict' = [verdict EXCEPT ![r] = "returned"]
    /\ UNCHANGED <<now, book>>

\* release: the request cost nothing.
Release(r) ==
    /\ verdict[r] = "admitted"
    /\ book' = Delete(book, r)
    /\ verdict' = [verdict EXCEPT ![r] = "returned"]
    /\ UNCHANGED now

Tick ==
    /\ now < MaxTime
    /\ now' = now + 1
    /\ UNCHANGED <<book, verdict>>

Next ==
    \/ Tick
    \/ \E r \in Requests :
          \/ \E t \in Tenants, n \in Estimates, s \in 0 .. now :
                Admit(r, t, n, s) \/ Refuse(r, t, n, s)
          \/ \E u \in Usages : Settle(r, u)
          \/ Release(r)

Spec == Init /\ [][Next]_vars

-----------------------------------------------------------------------------
\* The entry's charge that the limiter vouched for: a provider may report more
\* than the estimate, and no admission control can take that back.
Vouched(rows, S) == [r \in S |-> Lesser(rows[r].tokens, rows[r].estimate)]

\* The admissions of a tenant stamped in the window that ends at instant i.
Within(rows, t, i) ==
    {r \in DOMAIN rows : /\ rows[r].tenant = t
                         /\ rows[r].created > i - Window
                         /\ rows[r].created <= i}

\* TYPE INVARIANT of the ledger: an entry exists exactly for the requests that
\* were admitted and not given back, is charged its estimate until it is
\* settled, and is stamped in the past.
TypeOK ==
    /\ now \in Nat
    /\ verdict \in [Requests -> Verdicts]
    /\ DOMAIN book = {r \in Requests : verdict[r] \in {"admitted", "charged"}}
    /\ \A r \in DOMAIN book :
          /\ book[r] \in Entry
          /\ book[r].created <= now
          /\ verdict[r] = "admitted" => book[r].tokens = book[r].estimate

\* SAFETY: "the constraint holds at every instant rather than at minute
\* boundaries" (ratelimit.py:8-9).  In the window that ends at any instant,
\* past or present, a tenant's admissions vouch for at most the limit,
\* whatever was settled or released since and in whatever order.
EveryInstant ==
    \A t \in Tenants, i \in 0 .. now : Total(Vouched(book, Within(book, t, i))) <= Limit
=============================================================================
