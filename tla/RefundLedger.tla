---------------------------- MODULE RefundLedger ----------------------------
(***************************************************************************)
(* customer_mcp/idempotency.py with the refund half of customer_mcp/       *)
(* store.py: server processes that share one ledger file and keep their    *)
(* balances in memory.  A process serves one call at a time, because       *)
(* handle_call_tool runs the store on the event loop.  A client that got   *)
(* no answer, or an error, may repeat its request as another call.         *)
(*                                                                         *)
(* The reason of a refund is left out: to the operation key it is one more *)
(* field, like the amount.                                                 *)
(***************************************************************************)
EXTENDS Integers, Sequences, FiniteSets

CONSTANTS
    Processes,  \* server processes on one CUSTOMER_MCP_DB
    Calls,      \* bound: tools/call requests for trigger_refund, retries included
    Customers,
    Active,     \* customers whose status is "active"
    Amounts,    \* refund amounts that pass validation
    Supplied,   \* idempotency keys a client may supply
    Seed,       \* refundable balance of a customer when a process starts
    Replay,     \* replay_window_seconds, in ticks
    MaxTime,    \* bound: the clock stops here
    MaxCrashes, \* bound: process crashes in a behaviour
    Faults      \* whether the disk may fail a statement

ASSUME RefundAssumption ==
    /\ Active \subseteq Customers
    /\ Amounts \subseteq Nat \ {0}
    /\ Seed \in Nat /\ Calls \in Nat
    /\ Replay \in Nat \ {0}
    /\ MaxTime \in Nat
    /\ MaxCrashes \in Nat
    /\ Faults \in BOOLEAN

VARIABLES
    now,        \* the clock of the host
    records,    \* refund_operations as last committed, by operation_key
    txn,        \* the open transaction, by process
    serving,    \* the call each process serves, if any
    balance,    \* _store.customers[...].refundable_balance, in each process
    told,       \* what each call was answered
    moved,      \* history: every refund issued, in order
    crashes     \* process crashes so far

vars == <<now, records, txn, serving, balance, told, moved, crashes>>

Request == [customer : Customers, amount : Amounts, key : Supplied \cup {"none"}]

\* MUTANT of OperationKey: a supplied key is not scoped to its customer.
OperationKeyShared(q) ==
    IF q.key # "none" THEN <<"key", q.key>>
    ELSE <<"auto", q.customer, q.amount>>

\* RefundLedger.operation_key
OperationKey(q) ==
    IF q.key # "none" THEN <<"key", q.customer, q.key>>
    ELSE <<"auto", q.customer, q.amount>>

Nothing == [r \in {} |-> 0]
Put(f, k, v) == [j \in DOMAIN f \cup {k} |-> IF j = k THEN v ELSE f[j]]
Drop(f, k) == [j \in DOMAIN f \ {k} |-> f[j]]

Init ==
    /\ now = 0
    /\ records = Nothing
    /\ txn = Nothing
    /\ serving = Nothing
    /\ balance = [p \in Processes |-> [c \in Customers |-> Seed]]
    /\ told = Nothing
    /\ moved = <<>>
    /\ crashes = 0

-----------------------------------------------------------------------------
\* A call reaches an idle process, which derives its key and reads the clock.
\* Calls are numbered as they arrive.
Ask(p, q) ==
    LET arrived == Cardinality(DOMAIN told) + Cardinality(DOMAIN serving)
    IN  /\ p \notin DOMAIN serving
        /\ arrived < Calls
        /\ serving' = Put(serving, p, [call |-> arrived + 1, request |-> q, stamp |-> now])
        /\ UNCHANGED <<now, records, txn, balance, told, moved, crashes>>

\* MUTANT of Begin: BEGIN DEFERRED, two processes read before either writes.
BeginDeferred(p) ==
    /\ p \in DOMAIN serving \ DOMAIN txn
    /\ txn' = Put(txn, p, [step |-> "begun", rows |-> records, refund |-> 0])
    /\ UNCHANGED <<now, records, serving, balance, told, moved, crashes>>

\* BEGIN IMMEDIATE obtains the write lock.
Begin(p) ==
    /\ p \in DOMAIN serving
    /\ DOMAIN txn = {}
    /\ txn' = Put(txn, p, [step |-> "begun", rows |-> records, refund |-> 0])
    /\ UNCHANGED <<now, records, serving, balance, told, moved, crashes>>

\* The call is answered, with the refund it names, and the process is idle.
Answer(p, outcome, refund) ==
    /\ told' = Put(told, serving[p].call,
                   [outcome |-> outcome, refund |-> refund,
                    request |-> serving[p].request])
    /\ serving' = Drop(serving, p)

\* Another process holds the write lock for longer than busy_timeout.
BeginFails(p) ==
    /\ p \in DOMAIN serving \ DOMAIN txn
    /\ DOMAIN txn # {}
    /\ Answer(p, "error", 0)
    /\ UNCHANGED <<now, records, txn, balance, moved, crashes>>

At(p, step) == p \in DOMAIN txn /\ txn[p].step = step
Uncommitted(p) == At(p, "issued") \/ At(p, "recorded")

\* MUTANT of LookUp: records are purged one tick early.
LookUpPurgesEarly(p) ==
    LET horizon == serving[p].stamp - Replay + 1
        key == OperationKey(serving[p].request)
        kept == [k \in {j \in DOMAIN txn[p].rows : txn[p].rows[j].created > horizon}
                    |-> txn[p].rows[k]]
    IN  /\ At(p, "begun")
        /\ txn' = [txn EXCEPT ![p] =
                      IF key \in DOMAIN kept
                      THEN [step |-> "replay", rows |-> kept, refund |-> kept[key].refund]
                      ELSE [step |-> "miss", rows |-> kept, refund |-> 0]]
        /\ UNCHANGED <<now, records, serving, balance, told, moved, crashes>>

\* Records older than the window are deleted; then the key is looked up.
LookUp(p) ==
    LET horizon == serving[p].stamp - Replay
        key == OperationKey(serving[p].request)
        kept == [k \in {j \in DOMAIN txn[p].rows : txn[p].rows[j].created > horizon}
                    |-> txn[p].rows[k]]
    IN  /\ At(p, "begun")
        /\ txn' = [txn EXCEPT ![p] =
                      IF key \in DOMAIN kept
                      THEN [step |-> "replay", rows |-> kept, refund |-> kept[key].refund]
                      ELSE [step |-> "miss", rows |-> kept, refund |-> 0]]
        /\ UNCHANGED <<now, records, serving, balance, told, moved, crashes>>

Refusable(p) ==
    LET q == serving[p].request
    IN  q.customer \notin Active \/ q.amount > balance[p][q.customer]

\* _issue_refund raises DomainError: ROLLBACK, and a result with isError.
IssueRefuses(p) ==
    /\ At(p, "miss") /\ Refusable(p)
    /\ txn' = Drop(txn, p)
    /\ Answer(p, "refused", 0)
    /\ UNCHANGED <<now, records, balance, moved, crashes>>

\* _issue_refund moves the money, in memory and inside the transaction.
Issue(p) ==
    LET q == serving[p].request
    IN  /\ At(p, "miss") /\ ~Refusable(p)
        /\ balance' = [balance EXCEPT ![p][q.customer] = @ - q.amount]
        /\ moved' = Append(moved, [key |-> OperationKey(q), by |-> p, customer |-> q.customer,
                                   amount |-> q.amount, call |-> serving[p].call,
                                   stamp |-> serving[p].stamp, at |-> now,
                                   undone |-> FALSE])
        /\ txn' = [txn EXCEPT ![p].step = "issued", ![p].refund = Len(moved')]
        /\ UNCHANGED <<now, records, serving, told, crashes>>

\* MUTANT of Record: the record is stamped with the horizon it was purged at.
RecordAlreadyOld(p) ==
    /\ At(p, "issued")
    /\ txn' = [txn EXCEPT ![p].step = "recorded",
                          ![p].rows = Put(@, OperationKey(serving[p].request),
                                          [refund |-> txn[p].refund,
                                           created |-> serving[p].stamp - Replay])]
    /\ UNCHANGED <<now, records, serving, balance, told, moved, crashes>>

\* INSERT INTO refund_operations.
Record(p) ==
    /\ At(p, "issued")
    /\ txn' = [txn EXCEPT ![p].step = "recorded",
                          ![p].rows = Put(@, OperationKey(serving[p].request),
                                          [refund |-> txn[p].refund,
                                           created |-> serving[p].stamp])]
    /\ UNCHANGED <<now, records, serving, balance, told, moved, crashes>>

\* COMMIT, of a replay or of a new refund; the call returns its payload.
Commit(p) ==
    /\ At(p, "replay") \/ At(p, "recorded")
    /\ records' = txn[p].rows
    /\ txn' = Drop(txn, p)
    /\ Answer(p, IF txn[p].step = "replay" THEN "replayed" ELSE "issued", txn[p].refund)
    /\ UNCHANGED <<now, balance, moved, crashes>>

\* A statement or the COMMIT fails: the transaction rolls back, and
\* handle_call_tool turns the exception into an internal error.  The balance
\* in memory does not roll back; the history notes the refund as undone.
Fault(p) ==
    /\ Faults
    /\ p \in DOMAIN txn
    /\ txn' = Drop(txn, p)
    /\ Answer(p, "error", 0)
    /\ moved' = IF Uncommitted(p) THEN [moved EXCEPT ![Len(moved)].undone = TRUE] ELSE moved
    /\ UNCHANGED <<now, records, balance, crashes>>

\* The process dies and is started again with its seed balances.  A refund it
\* had issued and not committed was only ever in its memory.
Crash(p) ==
    /\ crashes < MaxCrashes
    /\ crashes' = crashes + 1
    /\ moved' = IF Uncommitted(p)
                THEN SubSeq(moved, 1, Len(moved) - 1) ELSE moved
    /\ balance' = [balance EXCEPT ![p] = [c \in Customers |-> Seed]]
    /\ txn' = Drop(txn, p)
    /\ IF p \in DOMAIN serving THEN Answer(p, "lost", 0) ELSE UNCHANGED <<told, serving>>
    /\ UNCHANGED <<now, records>>

Tick ==
    /\ now < MaxTime
    /\ now' = now + 1
    /\ UNCHANGED <<records, txn, serving, balance, told, moved, crashes>>

Serve(p) ==
    \/ Begin(p) \/ BeginFails(p)
    \/ LookUp(p) \/ IssueRefuses(p) \/ Issue(p) \/ Record(p) \/ Commit(p)

Next ==
    \/ Tick
    \/ \E p \in Processes :
          \/ \E q \in Request : Ask(p, q)
          \/ Serve(p)
          \/ Fault(p)
          \/ Crash(p)

Spec == Init /\ [][Next]_vars

-----------------------------------------------------------------------------
Refunds == 1 .. Len(moved)
Lapsed(i) == moved[i].stamp <= now - Replay

\* TYPE INVARIANT.
TypeOK ==
    /\ now \in 0 .. MaxTime
    /\ \A k \in DOMAIN records : records[k].refund \in Refunds /\ records[k].created <= now
    /\ Cardinality(DOMAIN txn) <= 1 /\ DOMAIN txn \subseteq DOMAIN serving
    /\ \A p \in DOMAIN txn :
          txn[p].step \in {"begun", "miss", "replay", "issued", "recorded"}
    /\ \A p \in DOMAIN serving : serving[p].request \in Request /\ serving[p].stamp <= now
    /\ \A p \in Processes, c \in Customers : balance[p][c] \in 0 .. Seed
    /\ \A c \in DOMAIN told :
          told[c].outcome \in {"issued", "replayed", "refused", "error", "lost"}

\* SAFETY: one operation moves money once per replay window, however many
\* processes are asked, whatever crashes and whoever retries (store.py:142,
\* idempotency.py:18-24), unless the disk failed under the first refund.
PaidOnce ==
    \A i, j \in Refunds : i < j /\ moved[i].key = moved[j].key =>
        moved[i].undone \/ moved[j].at >= moved[i].stamp + Replay

\* SAFETY: a replay moves nothing and names the refund that was issued for the
\* same operation: the same customer's, and where the key is derived one of the
\* same amount (store.py:144-147, idempotency.py:136-137).
ReplayIsOriginal ==
    \A c \in DOMAIN told : told[c].outcome \in {"replayed", "issued"} =>
        /\ told[c].refund \in Refunds
        /\ moved[told[c].refund].customer = told[c].request.customer
        /\ told[c].request.key = "none" =>
              moved[told[c].refund].amount = told[c].request.amount
        /\ (told[c].outcome = "issued") <=> (moved[told[c].refund].call = c)
        /\ told[c].outcome = "replayed" => \A i \in Refunds : moved[i].call # c

\* SAFETY: a refund that moved money is on disk from its commit until its window
\* has passed, whether or not its client was told, so that a retry of a lost
\* answer finds it, also after a crash (idempotency.py:6-16).
MovedIsOnRecord ==
    \A i \in Refunds :
        \/ Lapsed(i) \/ moved[i].undone
        \/ \E p \in Processes : Uncommitted(p) /\ txn[p].refund = i
        \/ moved[i].key \in DOMAIN records /\ records[moved[i].key].refund = i
=============================================================================
