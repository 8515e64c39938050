---------------------------- MODULE RateLimiter ----------------------------
(***************************************************************************)
(* llm_router/ratelimit.py over llm_router/store.py: worker processes that *)
(* share one SQLite file, each with one connection and one asyncio.Lock.   *)
(*                                                                         *)
(* A call of the limiter reads the clock (reserve only), queues for its    *)
(* worker's lock, and then runs BEGIN IMMEDIATE, its statements and COMMIT *)
(* on a pool thread; each of the three is a step, so threads of other      *)
(* workers, and of cancelled calls of the same worker, interleave with     *)
(* them.  An exception (write lock not obtained within busy_timeout, BEGIN *)
(* inside an open transaction, a disk fault) goes to the caller.  A worker *)
(* may crash and restart; its open transaction is then rolled back.        *)
(*                                                                         *)
(* The return of a thread's result to the event loop, which frees the      *)
(* lock, is part of the thread's last step: nothing else can use the       *)
(* connection in between.                                                  *)
(***************************************************************************)
EXTENDS SlidingWindow, SequencesExt

CONSTANTS
    Requests,   \* the requests the gateway ever sees
    Streams,    \* those with "stream": true, whose settle runs in relay()
    Tenants,    \* resolved tenant ids
    Estimates,  \* tokens.reservation_size of a request
    Usages,     \* what a provider may report that a request cost
    Workers,    \* uvicorn worker processes on one database file
    MaxTime,    \* bound: the clock stops here
    MaxCrashes, \* bound: worker crashes in a behaviour
    Faults      \* whether the disk may fail a statement

ASSUME RequestsAssumption  == IsFiniteSet(Requests) /\ Streams \subseteq Requests
ASSUME EstimatesAssumption == Estimates \subseteq Nat
ASSUME UsagesAssumption    == Usages \subseteq Nat
ASSUME BoundsAssumption    == MaxTime \in Nat /\ MaxCrashes \in Nat
ASSUME FaultsAssumption    == Faults \in BOOLEAN

VARIABLES
    now,        \* time.time(), shared by the workers of one host
    db,         \* token_usage as last committed
    line,       \* Store._lock of each worker: its holder, then the waiters
    txn,        \* the open transaction of each connection that has one
    phase,      \* where each request stands
    ask,        \* what each request asked of the limiter
    crashes,    \* worker crashes so far
    book        \* history: every admission not given back; no code reads it

vars == <<now, db, line, txn, phase, ask, crashes, book>>

Phases ==
    {"idle", "reserve", "held", "refused", "error",  \* check_and_reserve
     "settle", "settled", "orphan", "unsettled",     \* settle
     "release", "released",                          \* release
     "lost"}                                         \* nobody is left to call

Row == [tenant : Tenants, tokens : Nat, created : Nat,
        state : {"reserved", "settled"}]

Init ==
    /\ now = 0
    /\ db = [r \in {} |-> 0]
    /\ line = [w \in Workers |-> <<>>]
    /\ txn = [w \in {} |-> 0]
    /\ phase = [r \in Requests |-> "idle"]
    /\ ask = [r \in {} |-> 0]
    /\ crashes = 0
    /\ book = [r \in {} |-> 0]

-----------------------------------------------------------------------------
(* Calls of the limiter, on the event loop.                                *)

Queue(w, r) == line' = [line EXCEPT ![w] = Append(@, r)]
\* MUTANT of Leave: a failed or cancelled call does not free the lock.
LeaveForgets(w, r) == line' = IF phase'[r] \in {"error", "unsettled"} THEN line
                              ELSE [line EXCEPT ![w] = RemoveFirst(@, r)]

Leave(w, r) == line' = [line EXCEPT ![w] = RemoveFirst(@, r)]

\* check_and_reserve up to its first suspension: the clock is read and the
\* lock is requested in one run of the event loop.
Reserve(r, w, t, n) ==
    /\ phase[r] = "idle"
    /\ ask' = Insert(ask, r, [worker |-> w, tenant |-> t, estimate |-> n,
                              stamp |-> now, usage |-> 0])
    /\ phase' = [phase EXCEPT ![r] = "reserve"]
    /\ Queue(w, r)
    /\ UNCHANGED <<now, db, txn, crashes, book>>

\* settle is called for a reservation once, with the cost of the request.
Settle(r, u) ==
    /\ phase[r] = "held"
    /\ ask' = [ask EXCEPT ![r].usage = u]
    /\ phase' = [phase EXCEPT ![r] = "settle"]
    /\ Queue(ask[r].worker, r)
    /\ UNCHANGED <<now, db, txn, crashes, book>>

\* release is called instead of settle, or after a settle or a release of
\* route() raised (its `except BaseException`); relay() has no such handler.
Release(r) ==
    /\ \/ phase[r] = "held"
       \/ phase[r] = "unsettled" /\ r \notin Streams
    /\ phase' = [phase EXCEPT ![r] = "release"]
    /\ Queue(ask[r].worker, r)
    /\ UNCHANGED <<now, db, txn, ask, crashes, book>>

\* The client hangs up while relay() awaits settle().  The await is cancelled
\* and the lock freed.  A waiter, or work no thread has picked up yet, is
\* dropped; a thread that has started cannot be stopped and runs on.
Cancel(r) ==
    /\ r \in Streams /\ phase[r] = "settle"
    /\ LET w == ask[r].worker
           holds == Head(line[w]) = r
           begun == w \in DOMAIN txn /\ txn[w].owner = r
       IN  \/ ~begun /\ phase' = [phase EXCEPT ![r] = "unsettled"] /\ Leave(w, r)
           \/ holds /\ phase' = [phase EXCEPT ![r] = "orphan"] /\ Leave(w, r)
    /\ UNCHANGED <<now, db, txn, ask, crashes, book>>

-----------------------------------------------------------------------------
(* The work of a call, on a pool thread.                                   *)

HasThread(r) ==
    \/ phase[r] = "orphan"
    \/ /\ phase[r] \in {"reserve", "settle", "release"}
       /\ Head(line[ask[r].worker]) = r

Owns(r) == \E w \in DOMAIN txn : txn[w].owner = r

\* MUTANT of Begin: the snapshot is read without taking the write lock.
BeginUnlocked(r) ==
    /\ HasThread(r)
    /\ ask[r].worker \notin DOMAIN txn
    /\ txn' = Insert(txn, ask[r].worker, [owner |-> r, step |-> "begun", rows |-> db, wait |-> 0])
    /\ UNCHANGED <<now, db, line, phase, ask, crashes, book>>

\* BEGIN IMMEDIATE obtains the write lock and a snapshot to read.
Begin(r) ==
    /\ HasThread(r)
    /\ DOMAIN txn = {}
    /\ txn' = Insert(txn, ask[r].worker, [owner |-> r, step |-> "begun", rows |-> db, wait |-> 0])
    /\ UNCHANGED <<now, db, line, phase, ask, crashes, book>>

\* The exception reaches the caller, and the lock is freed on its way.
Raise(r) ==
    /\ phase' = [phase EXCEPT ![r] = IF @ = "reserve" THEN "error" ELSE "unsettled"]
    /\ Leave(ask[r].worker, r)
    /\ UNCHANGED <<now, db, ask, crashes, book>>

\* BEGIN IMMEDIATE raises: another worker kept the write lock for longer than
\* busy_timeout, or this connection is inside the transaction of an orphan.
BeginFails(r) ==
    /\ HasThread(r) /\ ~Owns(r)
    /\ DOMAIN txn # {}
    /\ Raise(r)
    /\ UNCHANGED txn

\* MUTANT of Fault: no ROLLBACK.
FaultKeepsTransaction(r) ==
    /\ Faults
    /\ HasThread(r) /\ Owns(r)
    /\ Raise(r)
    /\ UNCHANGED txn

\* A statement raises: ROLLBACK; a COMMIT that fails rolls back by itself.
Fault(r) ==
    /\ Faults
    /\ HasThread(r) /\ Owns(r)
    /\ txn' = Delete(txn, ask[r].worker)
    /\ Raise(r)

\* MUTANT of ReserveBody: the request's own estimate is not counted.
ReserveBodyAdmitsLast(r, t) ==
    LET a == ask[r]
        kept == Evict(t.rows, a.stamp)
        row == [tenant |-> a.tenant, tokens |-> a.estimate,
                created |-> a.stamp, state |-> "reserved"]
    IN  IF Used(kept, a.tenant, a.stamp) > Limit
        THEN [t EXCEPT !.step = "refuse", !.rows = kept,
                       !.wait = RetryAfter(kept, a.tenant, a.stamp, a.estimate)]
        ELSE [t EXCEPT !.step = "admit", !.rows = Insert(kept, r, row)]

\* The statements of check_and_reserve.
ReserveBody(r, t) ==
    LET a == ask[r]
        kept == Evict(t.rows, a.stamp)
        row == [tenant |-> a.tenant, tokens |-> a.estimate,
                created |-> a.stamp, state |-> "reserved"]
    IN  IF Used(kept, a.tenant, a.stamp) + a.estimate > Limit
        THEN [t EXCEPT !.step = "refuse", !.rows = kept,
                       !.wait = RetryAfter(kept, a.tenant, a.stamp, a.estimate)]
        ELSE [t EXCEPT !.step = "admit", !.rows = Insert(kept, r, row)]

\* MUTANT of SettleBody: the row is re-stamped to the completion time.
SettleBodyRestamps(r, t) ==
    [t EXCEPT !.step = "done",
              !.rows = [q \in DOMAIN @ |->
                           IF q = r THEN [@[q] EXCEPT !.tokens = ask[r].usage, !.state = "settled",
                                                      !.created = now]
                           ELSE @[q]]]

\* The UPDATE of settle: no row, no effect.
SettleBody(r, t) ==
    [t EXCEPT !.step = "done",
              !.rows = [q \in DOMAIN @ |->
                           IF q = r THEN [@[q] EXCEPT !.tokens = ask[r].usage, !.state = "settled"]
                           ELSE @[q]]]

\* The DELETE of release.
ReleaseBody(r, t) == [t EXCEPT !.step = "done", !.rows = Delete(@, r)]

\* What a call does to its open transaction.
Work(r, t) ==
    CASE phase[r] = "reserve" -> ReserveBody(r, t)
      [] phase[r] \in {"settle", "orphan"} -> SettleBody(r, t)
      [] phase[r] = "release" -> ReleaseBody(r, t)

Body(r) ==
    /\ Owns(r) /\ txn[ask[r].worker].step = "begun"
    /\ txn' = [txn EXCEPT ![ask[r].worker] = Work(r, @)]
    /\ UNCHANGED <<now, db, line, phase, ask, crashes, book>>

\* What the history makes of a committed call.
Enter(r) ==
    book' = CASE phase[r] = "reserve" ->
                    IF txn[ask[r].worker].step = "admit"
                    THEN Insert(book, r, [tenant |-> ask[r].tenant, estimate |-> ask[r].estimate,
                                          tokens |-> ask[r].estimate, created |-> ask[r].stamp])
                    ELSE book
              [] phase[r] \in {"settle", "orphan"} -> [book EXCEPT ![r].tokens = ask[r].usage]
              [] phase[r] = "release" -> Delete(book, r)

\* COMMIT; the caller, if it still waits, gets its answer and frees the lock.
Commit(r) ==
    LET t == txn[ask[r].worker]
        outcome == CASE t.step = "admit" -> "held"
                     [] t.step = "refuse" -> "refused"
                     [] t.step = "done" -> IF phase[r] = "release" THEN "released" ELSE "settled"
    IN  /\ Owns(r) /\ t.step # "begun"
        /\ db' = t.rows
        /\ txn' = Delete(txn, ask[r].worker)
        /\ phase' = [phase EXCEPT ![r] = outcome]
        /\ Leave(ask[r].worker, r)
        /\ Enter(r)
        /\ UNCHANGED <<now, ask, crashes>>

Thread(r) == Begin(r) \/ BeginFails(r) \/ Body(r) \/ Commit(r)

-----------------------------------------------------------------------------
\* A worker process dies: SQLite rolls its transaction back, and the requests
\* it served are never answered.
Crash(w) ==
    /\ crashes < MaxCrashes
    /\ crashes' = crashes + 1
    /\ txn' = Delete(txn, w)
    /\ line' = [line EXCEPT ![w] = <<>>]
    /\ phase' = [r \in Requests |->
                    IF /\ phase[r] \in {"reserve", "held", "settle", "orphan", "unsettled", "release"}
                       /\ ask[r].worker = w
                    THEN "lost" ELSE phase[r]]
    /\ UNCHANGED <<now, db, ask, book>>

Tick ==
    /\ now < MaxTime
    /\ now' = now + 1
    /\ UNCHANGED <<db, line, txn, phase, ask, crashes, book>>

Next ==
    \/ Tick
    \/ \E w \in Workers : Crash(w)
    \/ \E r \in Requests :
          \/ \E w \in Workers, t \in Tenants, n \in Estimates : Reserve(r, w, t, n)
          \/ \E u \in Usages : Settle(r, u)
          \/ Release(r)
          \/ Cancel(r)
          \/ Thread(r)
          \/ Fault(r)

Spec == Init /\ [][Next]_vars

\* A pool thread that can run does run, and SQLite answers it.
FairSpec == Spec /\ \A r \in Requests : WF_vars(Thread(r))
-----------------------------------------------------------------------------
Expired(created) == created <= now - Window

\* TYPE INVARIANT: types, a call waits in its own worker's line exactly while
\* it is being served there, and the history holds what was admitted.
TypeOK ==
    /\ now \in 0 .. MaxTime
    /\ crashes \in 0 .. MaxCrashes
    /\ phase \in [Requests -> Phases]
    /\ DOMAIN db \subseteq Requests /\ \A r \in DOMAIN db : db[r] \in Row
    /\ DOMAIN ask = {r \in Requests : phase[r] # "idle"}
    /\ \A r \in DOMAIN ask :
          ask[r] \in [worker : Workers, tenant : Tenants, estimate : Estimates,
                      stamp : 0 .. now, usage : Usages \cup {0}]
    /\ \A w \in DOMAIN txn :
          /\ txn[w].owner \in DOMAIN ask
          /\ txn[w].step \in {"begun", "refuse", "admit", "done"}
          /\ \A r \in DOMAIN txn[w].rows : txn[w].rows[r] \in Row
    /\ line \in [Workers -> Seq(Requests)]
    /\ \A w \in Workers :
          /\ IsInjective(line[w])
          /\ ToSet(line[w]) = {r \in Requests : /\ phase[r] \in {"reserve", "settle", "release"}
                                               /\ ask[r].worker = w}

\* SAFETY: an open transaction always has a thread of its own worker that will
\* end it, whatever was cancelled, failed or crashed: nothing wedges the
\* database for good (store.py:115-123 rolls back or commits on every path).
TransactionHasThread ==
    \A w \in DOMAIN txn : ask[txn[w].owner].worker = w /\ HasThread(txn[w].owner)

\* SAFETY: the table is the history minus what has left the window.  No commit
\* of any worker undoes another's, a settled row shows the reported cost, and
\* a row disappears only by release or by age (store.py:18-29).
TableIsBook ==
    /\ DOMAIN db \subseteq DOMAIN book
    /\ \A r \in DOMAIN book :
          IF r \in DOMAIN db
          THEN /\ db[r].tokens = book[r].tokens
               /\ db[r].created = book[r].created
               /\ db[r].tenant = book[r].tenant
               /\ db[r].state = "settled" <=> phase[r] = "settled"
          ELSE Expired(book[r].created)

\* What the limiter vouched for in a set of admissions; see QuotaLedger.
Vouched(S) == [r \in S |-> Lesser(book[r].tokens, book[r].estimate)]

\* SAFETY: reserve-then-settle never lets a tenant's live admissions pass the
\* limit, however its checks, settlements and releases on several workers
\* interleave (ratelimit.py:11-19, store.py:18-29).
LiveBound ==
    \A t \in Tenants :
        Total(Vouched({r \in DOMAIN book : book[r].tenant = t /\ ~Expired(book[r].created)})) <= Limit

\* SAFETY: the advertised wait is the least one.  At the stamp of the check
\* plus the wait the request would fit, at no instant before it would; a
\* request larger than the limit is told one window (ratelimit.py:109-135).
RetryIsLeast ==
    \A w \in DOMAIN txn :
        txn[w].step = "refuse" =>
            LET a == ask[txn[w].owner]
                fitsAfter(d) == Used(txn[w].rows, a.tenant, a.stamp + d) + a.estimate <= Limit
            IN  IF a.estimate > Limit
                THEN txn[w].wait = Window
                ELSE fitsAfter(txn[w].wait) /\ \A d \in 0 .. txn[w].wait - 1 : ~fitsAfter(d)

\* REFINEMENT: with one worker every behaviour of the code is one of the
\* ledger, where each call is one atomic step on a book that never forgets.
Verdict(r) ==
    CASE phase[r] \in {"idle", "reserve", "error"} -> "pending"
      [] phase[r] \in {"held", "settle", "orphan", "unsettled", "release"} -> "admitted"
      [] phase[r] = "settled" -> "charged"
      [] phase[r] = "released" -> "returned"
      [] phase[r] = "refused" -> "refused"
      [] phase[r] = "lost" -> IF r \in DOMAIN book THEN "admitted" ELSE "pending"

Ledger == INSTANCE QuotaLedger WITH verdict <- [r \in Requests |-> Verdict(r)]

LedgerSpec == Ledger!Spec

\* LIVENESS: every call of the limiter ends, in an answer or an exception; a
\* cancelled, failed or crashed call does not hold up those behind it.
CallsEnd ==
    \A r \in Requests :
        /\ phase[r] = "reserve" ~> phase[r] # "reserve"
        /\ phase[r] = "settle" ~> phase[r] # "settle"
        /\ phase[r] = "release" ~> phase[r] # "release"
        /\ phase[r] = "orphan" ~> phase[r] # "orphan"

-----------------------------------------------------------------------------
(* What the documentation says and the code does not keep.                 *)

\* "The constraint holds at every instant" (ratelimit.py:8-9), here of the
\* admissions of all workers.
EveryInstant == Ledger!EveryInstant

=============================================================================
