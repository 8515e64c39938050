------------------------- MODULE RefundLedgerProofs -------------------------
(***************************************************************************)
(* Proofs about RefundLedger, for any processes, customers, amounts, keys, *)
(* number of calls and crashes, with a disk that may fail any statement:   *)
(* an operation pays once per replay window, a replay names the refund of  *)
(* its own operation, and what was paid can be found by a retry.           *)
(***************************************************************************)
EXTENDS RefundLedger, FiniteSetTheorems, SequenceTheorems, TLAPS

Keys == {OperationKey(q) : q \in Request}
Row == [refund : Nat, created : Nat]
Tables == UNION {[S -> Row] : S \in SUBSET Keys}
Steps == {"begun", "miss", "replay", "issued", "recorded"}
Transaction == [step : Steps, rows : Tables, refund : Nat]
Serving == [call : Nat, request : Request, stamp : Nat]
Outcomes == {"issued", "replayed", "refused", "error", "lost"}
Move == [key : Keys, by : Processes, customer : Customers, amount : Amounts, call : Nat,
         stamp : Nat, at : Nat, undone : BOOLEAN]

\* The types of the state; one transaction at a time, of a process that serves.
Shape ==
    /\ now \in 0 .. MaxTime
    /\ records \in Tables
    /\ DOMAIN serving \subseteq Processes
    /\ \A p \in DOMAIN serving : serving[p] \in Serving /\ serving[p].stamp <= now
    /\ DOMAIN txn \subseteq DOMAIN serving
    /\ \A p \in DOMAIN txn : txn[p] \in Transaction
    /\ \A p, q \in DOMAIN txn : p = q
    /\ balance \in [Processes -> [Customers -> 0 .. Seed]]
    /\ \A c \in DOMAIN told :
          told[c].outcome \in Outcomes /\ told[c].refund \in Nat /\ told[c].request \in Request
    /\ moved \in Seq(Move)

Arrived == Cardinality(DOMAIN told) + Cardinality(DOMAIN serving)

\* Every call has a number of its own.
Numbered ==
    /\ IsFiniteSet(DOMAIN told) /\ IsFiniteSet(DOMAIN serving)
    /\ \A c \in DOMAIN told : c \in 1 .. Arrived
    /\ \A p \in DOMAIN serving :
          serving[p].call \in 1 .. Arrived /\ serving[p].call \notin DOMAIN told
    /\ \A p, q \in DOMAIN serving : p # q => serving[p].call # serving[q].call

\* The refund that process p has issued and not committed, the last one.
Pending(p, i) ==
    /\ Uncommitted(p)
    /\ i = Len(moved) /\ txn[p].refund = i
    /\ moved[i].key = OperationKey(serving[p].request)
    /\ moved[i].call = serving[p].call
    /\ moved[i].stamp = serving[p].stamp

\* Rows of committed refunds, each under its key and the stamp of its call.
Committed(rows) ==
    \A k \in DOMAIN rows :
        /\ rows[k].refund \in Refunds
        /\ moved[rows[k].refund].key = k
        /\ moved[rows[k].refund].call \in DOMAIN told
        /\ moved[rows[k].refund].stamp = rows[k].created
        /\ rows[k].created <= now

\* The records a call does not purge.
Kept(p) == {k \in DOMAIN records : records[k].created > serving[p].stamp - Replay}

\* What the open transaction has read and written.
TransactionIsRight(p) ==
    LET t == txn[p]
        key == OperationKey(serving[p].request)
    IN  /\ t.step = "begun" => t.rows = records
        /\ t.step \in {"miss", "replay", "issued"} => t.rows = [k \in Kept(p) |-> records[k]]
        /\ t.step = "replay" => key \in Kept(p) /\ t.refund = records[key].refund
        /\ t.step \in {"miss", "issued", "recorded"} => key \notin Kept(p)
        /\ t.step = "recorded" =>
              t.rows = Put([k \in Kept(p) |-> records[k]], key,
                           [refund |-> t.refund, created |-> serving[p].stamp])
        /\ Uncommitted(p) => Refunds # {} /\ Pending(p, Len(moved))

\* A refund was moved for a request, by a call that was answered or is pending.
MoveIsRight(i) ==
    /\ \E q \in Request : /\ moved[i].key = OperationKey(q)
                          /\ moved[i].customer = q.customer /\ moved[i].amount = q.amount
    /\ moved[i].call \in DOMAIN told \/ \E p \in DOMAIN txn : Pending(p, i)

\* An answer names a committed refund of its own operation.
AnswerIsRight(c) ==
    told[c].outcome \in {"replayed", "issued"} =>
        /\ told[c].refund \in Refunds
        /\ moved[told[c].refund].key = OperationKey(told[c].request)
        /\ moved[told[c].refund].call \in DOMAIN told
        /\ (told[c].outcome = "issued") <=> (moved[told[c].refund].call = c)
        /\ told[c].outcome = "replayed" => \A i \in Refunds : moved[i].call # c

Accounts ==
    /\ Committed(records)
    /\ \A p \in DOMAIN txn : TransactionIsRight(p)
    /\ \A i \in Refunds : MoveIsRight(i)
    /\ \A c \in DOMAIN told : AnswerIsRight(c)

IInv == Shape /\ Numbered /\ Accounts /\ MovedIsOnRecord /\ PaidOnce

-----------------------------------------------------------------------------
(***************************************************************************)
(* Tables and keys                                                         *)
(***************************************************************************)
\* A table is a function from keys to rows.
LEMMA TableIs ==
    ASSUME NEW rows
    PROVE  rows \in Tables <=>
              /\ DOMAIN rows \subseteq Keys
              /\ rows = [k \in DOMAIN rows |-> rows[k]]
              /\ \A k \in DOMAIN rows : rows[k] \in Row
<1>1. ASSUME rows \in Tables
      PROVE  /\ DOMAIN rows \subseteq Keys
             /\ rows = [k \in DOMAIN rows |-> rows[k]]
             /\ \A k \in DOMAIN rows : rows[k] \in Row
  <2>1. PICK S \in SUBSET Keys : rows \in [S -> Row]
    BY <1>1 DEF Tables
  <2> QED
    BY <2>1
<1>2. ASSUME DOMAIN rows \subseteq Keys, rows = [k \in DOMAIN rows |-> rows[k]],
             \A k \in DOMAIN rows : rows[k] \in Row
      PROVE  rows \in Tables
  <2>1. rows \in [DOMAIN rows -> Row]
    BY <1>2
  <2> QED
    BY <1>2, <2>1 DEF Tables
<1> QED
  BY <1>1, <1>2

\* A table with some rows purged, or with one row more, is a table.
LEMMA TableChanges ==
    ASSUME NEW rows \in Tables, NEW K \in SUBSET DOMAIN rows
    PROVE  /\ [k \in K |-> rows[k]] \in Tables
           /\ \A key \in Keys, row \in Row : Put([k \in K |-> rows[k]], key, row) \in Tables
<1>1. DOMAIN rows \subseteq Keys /\ \A k \in DOMAIN rows : rows[k] \in Row
  BY TableIs
<1>2. [k \in K |-> rows[k]] \in [K -> Row] /\ K \in SUBSET Keys
  BY <1>1
<1>3. ASSUME NEW key \in Keys, NEW row \in Row
      PROVE  Put([k \in K |-> rows[k]], key, row) \in Tables
  <2>1. Put([k \in K |-> rows[k]], key, row) \in [K \cup {key} -> Row]
    BY <1>1 DEF Put
  <2>2. K \cup {key} \in SUBSET Keys
    BY <1>2
  <2> QED
    BY <2>1, <2>2 DEF Tables
<1> QED
  BY <1>2, <1>3 DEF Tables

\* An operation key names its customer and, where it is derived, its amount.
LEMMA KeyNames ==
    ASSUME NEW q \in Request, NEW s \in Request, OperationKey(q) = OperationKey(s)
    PROVE  q.customer = s.customer /\ (q.key = "none" => q.amount = s.amount)
<1>1. CASE q.key # "none" /\ s.key # "none"
  BY <1>1 DEF OperationKey
<1>2. CASE q.key = "none" /\ s.key = "none"
  BY <1>2 DEF OperationKey
<1>3. CASE (q.key = "none") # (s.key = "none")
  BY <1>3 DEF OperationKey
<1> QED
  BY <1>1, <1>2, <1>3

-----------------------------------------------------------------------------
(***************************************************************************)
(* Calls and their answers                                                 *)
(***************************************************************************)
\* A call gets a number no call had.
LEMMA AskKeepsNumbers ==
    ASSUME Numbered, NEW p \in Processes, NEW q \in Request, Ask(p, q)
    PROVE  Numbered'
<1>1. /\ p \notin DOMAIN serving
      /\ serving' = Put(serving, p, [call |-> Arrived + 1, request |-> q, stamp |-> now])
      /\ told' = told
  BY DEF Ask, Arrived
<1>2. /\ DOMAIN serving' = DOMAIN serving \cup {p}
      /\ serving'[p] = [call |-> Arrived + 1, request |-> q, stamp |-> now]
      /\ \A o \in DOMAIN serving : serving'[o] = serving[o]
  BY <1>1 DEF Put
<1>3. IsFiniteSet(DOMAIN serving') /\ Cardinality(DOMAIN serving') = Cardinality(DOMAIN serving) + 1
  BY <1>1, <1>2, FS_AddElement DEF Numbered
<1>4. Cardinality(DOMAIN serving) \in Nat /\ Cardinality(DOMAIN told) \in Nat
  BY FS_CardinalityType DEF Numbered
<1>5. Arrived' = Arrived + 1 /\ Arrived \in Nat
  BY <1>1, <1>3, <1>4 DEF Arrived
<1>6. serving'[p].call = Arrived + 1
  BY <1>2
<1> HIDE DEF Arrived
<1>7. \A c \in DOMAIN told' : c \in 1 .. Arrived'
  BY <1>1, <1>5 DEF Numbered
<1>8. \A o \in DOMAIN serving' : serving'[o].call \in 1 .. Arrived' /\ serving'[o].call \notin DOMAIN told'
  BY <1>1, <1>2, <1>5, <1>6 DEF Numbered
<1>9. \A o, s \in DOMAIN serving' : o # s => serving'[o].call # serving'[s].call
  BY <1>2, <1>5, <1>6 DEF Numbered
<1> QED
  BY <1>1, <1>3, <1>7, <1>8, <1>9 DEF Numbered

\* An answer moves one call from the served to the told.
LEMMA AnswerFacts ==
    ASSUME Shape, Numbered, NEW p \in DOMAIN serving, NEW o \in Outcomes, NEW n \in Nat,
           Answer(p, o, n)
    PROVE  /\ Numbered'
           /\ DOMAIN told' = DOMAIN told \cup {serving[p].call}
           /\ serving[p].call \notin DOMAIN told
           /\ told'[serving[p].call] = [outcome |-> o, refund |-> n, request |-> serving[p].request]
           /\ \A c \in DOMAIN told : told'[c] = told[c]
           /\ DOMAIN serving' = DOMAIN serving \ {p}
           /\ \A s \in DOMAIN serving' : serving'[s] = serving[s]
           /\ \A c \in DOMAIN told' :
                 told'[c].outcome \in Outcomes /\ told'[c].refund \in Nat /\ told'[c].request \in Request
<1> DEFINE call == serving[p].call
<1>1. call \notin DOMAIN told /\ call \in 1 .. Arrived /\ serving[p].request \in Request
  BY DEF Numbered, Shape, Serving
<1>2. /\ DOMAIN told' = DOMAIN told \cup {call}
      /\ told'[call] = [outcome |-> o, refund |-> n, request |-> serving[p].request]
      /\ \A c \in DOMAIN told \ {call} : told'[c] = told[c]
  BY DEF Answer, Put
<1>3. /\ DOMAIN serving' = DOMAIN serving \ {p}
      /\ \A s \in DOMAIN serving \ {p} : serving'[s] = serving[s]
  BY DEF Answer, Drop
<1>4. IsFiniteSet(DOMAIN told') /\ Cardinality(DOMAIN told') = Cardinality(DOMAIN told) + 1
  BY <1>1, <1>2, FS_AddElement DEF Numbered
<1>5. IsFiniteSet(DOMAIN serving') /\ Cardinality(DOMAIN serving') = Cardinality(DOMAIN serving) - 1
  BY <1>3, FS_RemoveElement DEF Numbered
<1>6. Cardinality(DOMAIN serving) \in Nat /\ Cardinality(DOMAIN told) \in Nat
  BY FS_CardinalityType DEF Numbered
<1>7. Arrived' = Arrived
  BY <1>4, <1>5, <1>6 DEF Arrived
<1>8. \A c \in DOMAIN told' : c \in 1 .. Arrived'
  BY <1>1, <1>2, <1>7 DEF Numbered
<1>9. \A s \in DOMAIN serving' : serving'[s].call \in 1 .. Arrived' /\ serving'[s].call \notin DOMAIN told'
  BY <1>2, <1>3, <1>7 DEF Numbered
<1>10. \A r, s \in DOMAIN serving' : r # s => serving'[r].call # serving'[s].call
  BY <1>3 DEF Numbered
<1>11. Numbered'
  BY <1>4, <1>5, <1>8, <1>9, <1>10 DEF Numbered
<1>12. \A c \in DOMAIN told' :
          told'[c].outcome \in Outcomes /\ told'[c].refund \in Nat /\ told'[c].request \in Request
  BY <1>1, <1>2 DEF Shape
<1> QED
  BY <1>1, <1>2, <1>3, <1>11, <1>12

-----------------------------------------------------------------------------
(***************************************************************************)
(* The history                                                             *)
(***************************************************************************)
\* Answers and committed refunds stay; a refund that is new is of a call that
\* has no answer yet.
HistoryStands ==
    /\ DOMAIN told \subseteq DOMAIN told'
    /\ now' >= now
    /\ \A i \in Refunds : moved[i].call \in DOMAIN told => i \in Refunds'
    /\ \A i \in Refunds : i \in Refunds' =>
          /\ moved'[i].key = moved[i].key /\ moved'[i].customer = moved[i].customer
          /\ moved'[i].amount = moved[i].amount /\ moved'[i].call = moved[i].call
          /\ moved'[i].stamp = moved[i].stamp
    /\ \A i \in Refunds' : i \notin Refunds => moved'[i].call \notin DOMAIN told

\* So what is on record stays right,
LEMMA RecordsStand ==
    ASSUME Shape, Shape', Committed(records), HistoryStands, records' = records
    PROVE  Committed(records)'
<1>1. \A k \in DOMAIN records : records[k] \in Row
  BY TableIs DEF Shape
<1> QED
  BY <1>1 DEF Committed, HistoryStands, Shape, Row

\* and so does an answer.
LEMMA AnswerStands ==
    ASSUME NEW c \in DOMAIN told, told'[c] = told[c], AnswerIsRight(c), HistoryStands
    PROVE  AnswerIsRight(c)'
BY DEF AnswerIsRight, HistoryStands

\* What the open transaction moved is the last refund; every other one is of a
\* call that has its answer.
LEMMA OpenTransaction ==
    ASSUME IInv, NEW p \in DOMAIN txn
    PROVE  /\ Uncommitted(p) =>
                 /\ Len(moved) \in Nat \ {0} /\ txn[p].refund = Len(moved)
                 /\ moved[Len(moved)].call = serving[p].call
                 /\ moved[Len(moved)].key = OperationKey(serving[p].request)
                 /\ moved[Len(moved)].stamp = serving[p].stamp
                 /\ \A i \in Refunds : i # Len(moved) => moved[i].call \in DOMAIN told
           /\ ~Uncommitted(p) => \A i \in Refunds : moved[i].call \in DOMAIN told
           /\ serving[p].call \notin DOMAIN told
           /\ \A q \in Processes : Uncommitted(q) => q = p
<1>1. \A q \in DOMAIN txn : q = p
  BY DEF IInv, Shape
<1>2. Len(moved) \in Nat
  BY DEF IInv, Shape
<1>3. p \in DOMAIN serving /\ TransactionIsRight(p)
  BY DEF IInv, Shape, Accounts
<1>4. \A i \in Refunds : moved[i].call \in DOMAIN told \/ Pending(p, i)
  BY <1>1 DEF IInv, Accounts, MoveIsRight
<1> QED
  BY <1>1, <1>2, <1>3, <1>4
     DEF IInv, Numbered, TransactionIsRight, Pending, Refunds, Uncommitted, At

-----------------------------------------------------------------------------
(***************************************************************************)
(* Steps that leave the open transaction alone                             *)
(***************************************************************************)
\* The records, the history and the transactions stay; a new answer is none
\* that names a refund.
Bystands ==
    /\ UNCHANGED <<records, moved>>
    /\ now' >= now
    /\ DOMAIN txn' = DOMAIN txn
    /\ \A p \in DOMAIN txn :
          txn'[p] = txn[p] /\ p \in DOMAIN serving' /\ serving'[p] = serving[p]
    /\ \A c \in DOMAIN told : c \in DOMAIN told' /\ told'[c] = told[c]
    /\ \A c \in DOMAIN told' : c \notin DOMAIN told => told'[c].outcome \notin {"replayed", "issued"}

LEMMA BystanderKeeps ==
    ASSUME IInv, Shape', Numbered', Bystands
    PROVE  IInv'
<1>1. HistoryStands
  BY DEF Bystands, HistoryStands, Refunds
<1>2. Committed(records)'
  BY <1>1, RecordsStand DEF IInv, Accounts, Bystands
<1>3. ASSUME NEW p \in DOMAIN txn
      PROVE  TransactionIsRight(p)'
  BY DEF IInv, Accounts, TransactionIsRight, Bystands, Pending, Kept, Uncommitted, At, Refunds
<1>4. ASSUME NEW i \in Refunds
      PROVE  MoveIsRight(i)'
  <2>1. MoveIsRight(i)
    BY DEF IInv, Accounts
  <2> QED
    BY <2>1 DEF MoveIsRight, Bystands, Pending, Uncommitted, At, IInv, Shape
<1>5. ASSUME NEW c \in DOMAIN told'
      PROVE  AnswerIsRight(c)'
  <2>1. CASE c \in DOMAIN told
    BY <2>1, <1>1, AnswerStands DEF IInv, Accounts, Bystands
  <2>2. CASE c \notin DOMAIN told
    BY <2>2 DEF AnswerIsRight, Bystands
  <2> QED
    BY <2>1, <2>2
<1>6. MovedIsOnRecord'
  <2> SUFFICES ASSUME NEW i \in Refunds'
               PROVE  \/ Lapsed(i)' \/ moved'[i].undone
                      \/ \E p \in Processes : Uncommitted(p)' /\ txn'[p].refund = i
                      \/ moved'[i].key \in DOMAIN records' /\ records'[moved'[i].key].refund = i
    BY DEF MovedIsOnRecord
  <2>1. i \in Refunds /\ moved'[i] = moved[i]
    BY DEF Bystands, Refunds
  <2>2. Lapsed(i) => Lapsed(i)'
    <3>1. moved[i] \in Move
      BY <2>1 DEF IInv, Shape, Refunds
    <3> QED
      BY <2>1, <3>1, RefundAssumption DEF Lapsed, Bystands, IInv, Shape, Move
  <2>3. \A p \in Processes : Uncommitted(p) => Uncommitted(p)' /\ txn'[p] = txn[p]
    BY DEF Bystands, Uncommitted, At
  <2> QED
    BY <2>1, <2>2, <2>3 DEF IInv, MovedIsOnRecord, Bystands
<1>7. PaidOnce'
  BY DEF IInv, PaidOnce, Bystands, Refunds
<1> QED
  BY <1>2, <1>3, <1>4, <1>5, <1>6, <1>7 DEF IInv, Accounts, Bystands, Refunds

\* The clock moves.
LEMMA TickKeeps == ASSUME IInv, Tick PROVE IInv'
<1>1. now' = now + 1 /\ now < MaxTime /\ now \in Nat
  BY DEF Tick, IInv, Shape
<1>2. UNCHANGED <<records, txn, serving, balance, told, moved>>
  BY DEF Tick
<1>3. Shape'
  BY <1>1, <1>2, RefundAssumption DEF IInv, Shape, Serving
<1>4. Numbered'
  BY <1>2 DEF IInv, Numbered, Arrived
<1>5. Bystands
  BY <1>1, <1>2 DEF Bystands, IInv, Shape
<1> QED
  BY <1>3, <1>4, <1>5, BystanderKeeps

\* A call arrives.
LEMMA AskKeeps == ASSUME IInv, NEW p \in Processes, NEW q \in Request, Ask(p, q) PROVE IInv'
<1>1. /\ p \notin DOMAIN serving
      /\ UNCHANGED <<now, records, txn, balance, told, moved>>
      /\ serving' = Put(serving, p, [call |-> Arrived + 1, request |-> q, stamp |-> now])
  BY DEF Ask, Arrived
<1>2. /\ DOMAIN serving' = DOMAIN serving \cup {p}
      /\ serving'[p] = [call |-> Arrived + 1, request |-> q, stamp |-> now]
      /\ \A o \in DOMAIN serving : serving'[o] = serving[o]
  BY <1>1 DEF Put
<1>3. Arrived \in Nat /\ now \in Nat
  BY FS_CardinalityType DEF IInv, Numbered, Shape, Arrived
<1>4. Shape'
  <2>1. \A o \in DOMAIN serving' : serving'[o] \in Serving /\ serving'[o].stamp <= now'
    BY <1>1, <1>2, <1>3, SMTT(20) DEF IInv, Shape, Serving
  <2> QED
    BY <1>1, <1>2, <2>1 DEF IInv, Shape
<1>5. Numbered'
  BY AskKeepsNumbers DEF IInv
<1>6. Bystands
  BY <1>1, <1>2, <1>3 DEF Bystands, IInv, Shape
<1> QED
  BY <1>4, <1>5, <1>6, BystanderKeeps

\* A call that holds no transaction is given up, and the balances of its
\* process are as before or at their seed.
LEMMA GivenUpKeeps ==
    ASSUME IInv, NEW p \in DOMAIN serving \ DOMAIN txn, NEW o \in {"error", "lost"},
           Answer(p, o, 0), UNCHANGED <<now, records, moved>>,
           DOMAIN txn' = DOMAIN txn, \A q \in DOMAIN txn : txn'[q] = txn[q],
           balance' \in [Processes -> [Customers -> 0 .. Seed]]
    PROVE  IInv'
<1>1. /\ Numbered'
      /\ DOMAIN told' = DOMAIN told \cup {serving[p].call}
      /\ serving[p].call \notin DOMAIN told
      /\ told'[serving[p].call] = [outcome |-> o, refund |-> 0, request |-> serving[p].request]
      /\ \A c \in DOMAIN told : told'[c] = told[c]
      /\ DOMAIN serving' = DOMAIN serving \ {p}
      /\ \A s \in DOMAIN serving' : serving'[s] = serving[s]
      /\ \A c \in DOMAIN told' :
            told'[c].outcome \in Outcomes /\ told'[c].refund \in Nat /\ told'[c].request \in Request
  <2>1. Shape /\ Numbered /\ p \in DOMAIN serving /\ o \in Outcomes /\ 0 \in Nat
    BY DEF IInv, Outcomes
  <2> QED
    BY <2>1, AnswerFacts
<1>2. Shape'
  BY <1>1 DEF IInv, Shape
<1>3. Bystands
  BY <1>1 DEF Bystands, IInv, Shape
<1> QED
  BY <1>1, <1>2, <1>3, BystanderKeeps

\* A process dies that holds no transaction.
LEMMA IdleCrashKeeps ==
    ASSUME IInv, NEW p \in Processes, Crash(p), p \notin DOMAIN txn
    PROVE  IInv'
<1>1. balance' = [balance EXCEPT ![p] = [c \in Customers |-> Seed]]
  BY DEF Crash
<1>2. balance' \in [Processes -> [Customers -> 0 .. Seed]]
  BY <1>1, RefundAssumption DEF IInv, Shape
<1>3. DOMAIN txn' = DOMAIN txn /\ \A q \in DOMAIN txn : txn'[q] = txn[q]
  BY DEF Crash, Drop
<1>4. CASE p \in DOMAIN serving
  <2>1. Answer(p, "lost", 0) /\ UNCHANGED <<now, records, moved>>
    BY <1>4 DEF Crash, Uncommitted, At
  <2> QED
    BY <1>2, <1>3, <1>4, <2>1, GivenUpKeeps
<1>5. CASE p \notin DOMAIN serving
  <2>1. UNCHANGED <<now, records, moved, told, serving>>
    BY <1>5 DEF Crash, Uncommitted, At
  <2>2. Shape'
    BY <1>2, <1>3, <2>1 DEF IInv, Shape
  <2>3. Numbered'
    BY <2>1 DEF IInv, Numbered, Arrived
  <2>4. Bystands
    BY <1>3, <2>1 DEF Bystands, IInv, Shape
  <2> QED
    BY <2>2, <2>3, <2>4, BystanderKeeps
<1> QED
  BY <1>4, <1>5

-----------------------------------------------------------------------------
(***************************************************************************)
(* Steps of the open transaction                                           *)
(***************************************************************************)
\* A step that only reads or writes in its transaction.
LEMMA WritesKeep ==
    ASSUME IInv, NEW p \in DOMAIN serving, DOMAIN txn \subseteq {p}, DOMAIN txn' = {p},
           txn'[p] \in Transaction, TransactionIsRight(p)',
           Uncommitted(p) <=> Uncommitted(p)',
           Uncommitted(p) => txn'[p].refund = txn[p].refund,
           UNCHANGED <<now, records, serving, balance, told, moved>>
    PROVE  IInv'
<1>1. Shape'
  BY DEF IInv, Shape
<1>2. Numbered'
  BY DEF IInv, Numbered, Arrived
<1>3. Committed(records)'
  BY DEF IInv, Accounts, Committed, Refunds
<1>4. ASSUME NEW i \in Refunds
      PROVE  MoveIsRight(i)'
  <2>1. MoveIsRight(i)
    BY DEF IInv, Accounts
  <2>2. \A q \in DOMAIN txn : Pending(q, i) => Pending(p, i)'
    BY DEF Pending
  <2> QED
    BY <2>1, <2>2 DEF MoveIsRight
<1>5. \A c \in DOMAIN told : AnswerIsRight(c)'
  BY DEF IInv, Accounts, AnswerIsRight, Refunds
<1>6. MovedIsOnRecord'
  <2>1. \A q \in Processes : Uncommitted(q) => q = p
    BY DEF Uncommitted, At
  <2> QED
    BY <2>1 DEF IInv, MovedIsOnRecord, Refunds, Lapsed
<1>7. PaidOnce'
  BY DEF IInv, PaidOnce, Refunds
<1> QED
  BY <1>1, <1>2, <1>3, <1>4, <1>5, <1>6, <1>7 DEF IInv, Accounts, Refunds

\* The write lock is taken, and the records are read under it.
LEMMA BeginKeeps == ASSUME IInv, NEW p \in Processes, Begin(p) PROVE IInv'
<1>1. p \in DOMAIN serving /\ DOMAIN txn = {}
  BY DEF Begin
<1>2. DOMAIN txn' = {p} /\ txn'[p] = [step |-> "begun", rows |-> records, refund |-> 0]
  BY <1>1 DEF Begin, Put
<1>3. UNCHANGED <<now, records, serving, balance, told, moved>>
  BY DEF Begin
<1>4. txn'[p] \in Transaction
  BY <1>2 DEF Transaction, Steps, IInv, Shape
<1>5. TransactionIsRight(p)'
  BY <1>2, <1>3 DEF TransactionIsRight, Uncommitted, At
<1>6. ~Uncommitted(p) /\ ~Uncommitted(p)'
  BY <1>1, <1>2 DEF Uncommitted, At
<1> QED
  BY <1>1, <1>2, <1>3, <1>4, <1>5, <1>6, WritesKeep

\* What a step at some point of the transaction knows.
LEMMA Holder ==
    ASSUME IInv, NEW p \in DOMAIN txn
    PROVE  /\ p \in DOMAIN serving /\ p \in Processes
           /\ DOMAIN txn = {p}
           /\ txn[p] \in Transaction /\ txn[p].rows \in Tables
           /\ TransactionIsRight(p)
           /\ serving[p] \in Serving /\ serving[p].request \in Request
           /\ serving[p].stamp \in Nat /\ serving[p].stamp <= now
           /\ OperationKey(serving[p].request) \in Keys
           /\ records \in Tables
           /\ Kept(p) \subseteq DOMAIN records
BY DEF IInv, Shape, Accounts, Transaction, Serving, Keys, Kept

\* Old records go, and the key is found or not.
LEMMA LookUpKeeps == ASSUME IInv, NEW p \in Processes, LookUp(p) PROVE IInv'
<1> DEFINE key == OperationKey(serving[p].request)
           kept == [k \in Kept(p) |-> records[k]]
<1>1. p \in DOMAIN txn /\ txn[p].step = "begun"
  BY DEF LookUp, At
<1>2. UNCHANGED <<now, records, serving, balance, told, moved>>
  BY DEF LookUp
<1>3. txn[p].rows = records
  BY <1>1, Holder DEF TransactionIsRight
<1>4. /\ DOMAIN txn' = DOMAIN txn
      /\ txn'[p] = IF key \in Kept(p)
                   THEN [step |-> "replay", rows |-> kept, refund |-> kept[key].refund]
                   ELSE [step |-> "miss", rows |-> kept, refund |-> 0]
  BY <1>1, <1>3 DEF LookUp, Kept
<1>5. kept \in Tables
  BY <1>1, Holder, TableChanges
<1>6. key \in Kept(p) => kept[key].refund \in Nat /\ kept[key] = records[key]
  BY <1>1, Holder, TableIs DEF Row
<1>7. txn'[p] \in Transaction
  BY <1>4, <1>5, <1>6 DEF Transaction, Steps
<1>8. ~Uncommitted(p) /\ ~Uncommitted(p)'
  BY <1>1, <1>4 DEF Uncommitted, At
<1>9. Kept(p)' = Kept(p)
  BY <1>2 DEF Kept
<1>10. TransactionIsRight(p)'
  BY <1>2, <1>4, <1>6, <1>8, <1>9 DEF TransactionIsRight
<1> QED
  BY <1>1, <1>2, <1>4, <1>7, <1>8, <1>10, Holder, WritesKeep

\* The refund is recorded under its key, at the stamp of its call.
LEMMA RecordKeeps == ASSUME IInv, NEW p \in Processes, Record(p) PROVE IInv'
<1> DEFINE key == OperationKey(serving[p].request)
           kept == [k \in Kept(p) |-> records[k]]
           row == [refund |-> txn[p].refund, created |-> serving[p].stamp]
<1>1. p \in DOMAIN txn /\ txn[p].step = "issued"
  BY DEF Record, At
<1>2. UNCHANGED <<now, records, serving, balance, told, moved>>
  BY DEF Record
<1>3. txn[p].rows = kept /\ key \notin Kept(p) /\ Pending(p, Len(moved))
  BY <1>1, Holder DEF TransactionIsRight, Uncommitted, At
<1>4. txn[p] \in Transaction /\ serving[p].stamp \in Nat
  BY <1>1, Holder
<1>5. /\ DOMAIN txn' = DOMAIN txn
      /\ txn'[p] = [step |-> "recorded", rows |-> Put(kept, key, row), refund |-> txn[p].refund]
  BY <1>1, <1>3, <1>4 DEF Record, Transaction
<1>6. txn'[p] \in Transaction
  <2>1. row \in Row
    BY <1>4 DEF Row, Transaction
  <2>2. Put(kept, key, row) \in Tables
    BY <1>1, <2>1, Holder, TableChanges
  <2> QED
    BY <1>4, <1>5, <2>2 DEF Transaction, Steps
<1>7. Uncommitted(p) /\ Uncommitted(p)'
  BY <1>1, <1>5 DEF Uncommitted, At
<1>8. Kept(p)' = Kept(p)
  BY <1>2 DEF Kept
<1>9. TransactionIsRight(p)'
  <2>1. Refunds # {} /\ txn[p].refund = Len(moved)
    BY <1>1, <1>3, <1>7, Holder DEF TransactionIsRight, Pending
  <2>2. Pending(p, Len(moved))'
    BY <1>2, <1>3, <1>5, <1>7 DEF Pending
  <2> QED
    BY <1>2, <1>3, <1>5, <1>8, <2>1, <2>2 DEF TransactionIsRight, Refunds
<1>10. txn'[p].refund = txn[p].refund
  BY <1>5
<1>11. p \in DOMAIN serving /\ DOMAIN txn \subseteq {p} /\ DOMAIN txn' = {p}
  BY <1>1, <1>5, Holder
<1> QED
  BY <1>2, <1>6, <1>7, <1>9, <1>10, <1>11, WritesKeep

\* The money moves, in the memory of the process; the history is longer by one.
LEMMA IssueKeeps == ASSUME IInv, NEW p \in Processes, Issue(p) PROVE IInv'
<1> DEFINE q == serving[p].request
           key == OperationKey(q)
           n == Len(moved) + 1
           m == [key |-> key, by |-> p, customer |-> q.customer, amount |-> q.amount,
                 call |-> serving[p].call, stamp |-> serving[p].stamp, at |-> now,
                 undone |-> FALSE]
<1>1. /\ p \in DOMAIN txn /\ txn[p].step = "miss"
      /\ q.customer \in Active /\ ~(q.amount > balance[p][q.customer])
  BY DEF Issue, At, Refusable
<1>2. UNCHANGED <<now, records, serving, told>>
  BY DEF Issue
<1>3. /\ txn[p] \in Transaction /\ serving[p] \in Serving /\ q \in Request /\ key \in Keys
      /\ DOMAIN txn = {p} /\ p \in DOMAIN serving
      /\ TransactionIsRight(p)
  BY <1>1, Holder
<1>4. ~Uncommitted(p)
  BY <1>1 DEF Uncommitted, At
<1>5. m \in Move /\ now \in Nat
  BY <1>3 DEF Move, Serving, Request, IInv, Shape
<1>6. /\ moved' = Append(moved, m) /\ moved \in Seq(Move) /\ moved' \in Seq(Move)
      /\ Len(moved') = n /\ n \in Nat \ {0}
      /\ moved'[n] = m
      /\ \A i \in Refunds : moved'[i] = moved[i]
      /\ Refunds' = Refunds \cup {n} /\ n \notin Refunds
  <2>1. moved' = Append(moved, m)
    BY DEF Issue
  <2>2. moved \in Seq(Move)
    BY DEF IInv, Shape
  <2> QED
    BY <1>5, <2>1, <2>2 DEF Refunds
<1>7. /\ DOMAIN txn' = DOMAIN txn
      /\ txn'[p] = [step |-> "issued", rows |-> txn[p].rows, refund |-> n]
  BY <1>1, <1>3, <1>6 DEF Issue, Transaction
<1>6a. /\ m.key = key /\ m.customer = q.customer /\ m.amount = q.amount
      /\ m.call = serving[p].call /\ m.stamp = serving[p].stamp /\ m.at = now
      /\ Refunds = 1 .. Len(moved) /\ Len(moved) \in Nat /\ n = Len(moved) + 1
      /\ \A i \in Refunds : moved[i] \in Move
  <2>1. moved \in Seq(Move)
    BY <1>6
  <2>2. \A i \in 1 .. Len(moved) : moved[i] \in Move
    BY <2>1
  <2> QED
    BY <2>1, <2>2 DEF Refunds
<1> HIDE DEF m, n
<1>8. balance' \in [Processes -> [Customers -> 0 .. Seed]]
  <2>1. /\ balance \in [Processes -> [Customers -> 0 .. Seed]]
        /\ balance' = [balance EXCEPT ![p][q.customer] = @ - q.amount]
        /\ q.customer \in Customers /\ q.amount \in Nat /\ Seed \in Nat
    BY <1>3, RefundAssumption DEF IInv, Shape, Issue, Request
  <2>2. balance[p][q.customer] - q.amount \in 0 .. Seed
    BY <1>1, <2>1
  <2> HIDE DEF q
  <2> QED
    BY <2>1, <2>2
<1>9. Shape'
  <2>1. txn'[p] \in Transaction
    BY <1>3, <1>6, <1>6a, <1>7 DEF Transaction, Steps
  <2> QED
    BY <1>2, <1>3, <1>6, <1>6a, <1>7, <1>8, <2>1 DEF IInv, Shape
<1>10. Numbered'
  BY <1>2 DEF IInv, Numbered, Arrived
<1>11. /\ \A i \in Refunds : moved[i].call \in DOMAIN told
       /\ serving[p].call \notin DOMAIN told
  BY <1>1, <1>4, OpenTransaction
<1>12. HistoryStands
  BY <1>2, <1>5, <1>6, <1>6a, <1>11 DEF HistoryStands
<1>13. Committed(records)'
  BY <1>2, <1>9, <1>12, RecordsStand DEF IInv, Accounts
<1>14. \A c \in DOMAIN told' : AnswerIsRight(c)'
  BY <1>2, <1>12, AnswerStands DEF IInv, Accounts
<1>15. Uncommitted(p)' /\ Pending(p, Len(moved))'
  BY <1>1, <1>2, <1>6, <1>6a, <1>7 DEF Uncommitted, At, Pending
<1>16. TransactionIsRight(p)'
  <2>1. Kept(p)' = Kept(p)
    BY <1>2 DEF Kept
  <2>2. key \notin Kept(p) /\ txn[p].rows = [k \in Kept(p) |-> records[k]]
    BY <1>1, <1>3 DEF TransactionIsRight
  <2>3. Refunds' # {}
    BY <1>6
  <2> QED
    BY <1>2, <1>7, <1>15, <2>1, <2>2, <2>3 DEF TransactionIsRight
<1>17. ASSUME NEW i \in Refunds'
       PROVE  MoveIsRight(i)'
  <2>1. CASE i \in Refunds
    BY <1>2, <1>6, <1>6a, <1>11, <2>1 DEF MoveIsRight, IInv, Accounts
  <2>2. CASE i = n
    BY <1>3, <1>6, <1>6a, <1>7, <1>15, <2>2 DEF MoveIsRight
  <2> QED
    BY <1>6, <1>6a, <2>1, <2>2
<1>18. \A i \in Refunds : \/ Lapsed(i) \/ moved[i].undone
                          \/ moved[i].key \in DOMAIN records /\ records[moved[i].key].refund = i
  BY <1>1, <1>4, OpenTransaction DEF IInv, MovedIsOnRecord
<1>19. MovedIsOnRecord'
  BY <1>2, <1>6, <1>6a, <1>7, <1>15, <1>18 DEF MovedIsOnRecord, Lapsed
<1>20. ASSUME NEW i \in Refunds, moved[i].key = key
       PROVE  moved[i].undone \/ now >= moved[i].stamp + Replay
  <2>1. moved[i].stamp \in Nat
    BY <1>6, <1>6a DEF Refunds, Move
  <2>2. CASE Lapsed(i)
    BY <1>5, <2>1, <2>2, RefundAssumption DEF Lapsed
  <2>3. CASE key \in DOMAIN records /\ records[key].refund = i
    <3>1. key \notin Kept(p)
      BY <1>1, <1>3 DEF TransactionIsRight
    <3>2. records[key].created = moved[i].stamp
      BY <2>3 DEF IInv, Accounts, Committed
    <3>3. serving[p].stamp <= now /\ serving[p].stamp \in Nat
      BY <1>1, Holder
    <3> QED
      BY <1>5, <2>1, <2>3, <3>1, <3>2, <3>3, RefundAssumption DEF Kept
  <2> QED
    BY <1>18, <1>20, <2>2, <2>3
<1>21. PaidOnce'
  <2> SUFFICES ASSUME NEW i \in Refunds', NEW j \in Refunds', i < j, moved'[i].key = moved'[j].key
               PROVE  moved'[i].undone \/ moved'[j].at >= moved'[i].stamp + Replay
    BY DEF PaidOnce
  <2>1. i \in Refunds
    BY <1>6, <1>6a DEF Refunds
  <2>2. CASE j \in Refunds
    BY <1>6, <1>6a, <2>1, <2>2 DEF IInv, PaidOnce
  <2>3. CASE j = n
    BY <1>6, <1>6a, <1>20, <2>1, <2>3
  <2> QED
    BY <1>6, <1>6a, <2>2, <2>3
<1> QED
  BY <1>2, <1>3, <1>7, <1>9, <1>10, <1>13, <1>14, <1>16, <1>17, <1>19, <1>21 DEF IInv, Accounts

-----------------------------------------------------------------------------
(***************************************************************************)
(* Steps that end the open transaction                                     *)
(***************************************************************************)
\* A transaction ends with an answer to its call.
Closes(p, o, n) ==
    /\ p \in DOMAIN txn /\ DOMAIN txn' = {}
    /\ Answer(p, o, n) /\ now' = now

\* Nothing is pending then.
LEMMA CloseFacts ==
    ASSUME IInv, NEW p, NEW o \in Outcomes, NEW n \in Nat, Closes(p, o, n)
    PROVE  /\ Numbered'
           /\ DOMAIN told' = DOMAIN told \cup {serving[p].call}
           /\ serving[p].call \notin DOMAIN told
           /\ told'[serving[p].call] = [outcome |-> o, refund |-> n, request |-> serving[p].request]
           /\ \A c \in DOMAIN told : told'[c] = told[c]
           /\ records' \in Tables /\ moved' \in Seq(Move)
              /\ balance' \in [Processes -> [Customers -> 0 .. Seed]] => Shape'
           /\ \A i \in Refunds : moved[i].call \in DOMAIN told'
           /\ \A q \in Processes : ~Uncommitted(q)'
<1>1. p \in DOMAIN serving /\ Shape /\ Numbered
  BY Holder DEF Closes, IInv
<1>2. /\ Numbered'
      /\ DOMAIN told' = DOMAIN told \cup {serving[p].call}
      /\ serving[p].call \notin DOMAIN told
      /\ told'[serving[p].call] = [outcome |-> o, refund |-> n, request |-> serving[p].request]
      /\ \A c \in DOMAIN told : told'[c] = told[c]
      /\ DOMAIN serving' = DOMAIN serving \ {p}
      /\ \A s \in DOMAIN serving' : serving'[s] = serving[s]
      /\ \A c \in DOMAIN told' :
            told'[c].outcome \in Outcomes /\ told'[c].refund \in Nat /\ told'[c].request \in Request
  BY <1>1, AnswerFacts DEF Closes
<1>3. records' \in Tables /\ moved' \in Seq(Move)
         /\ balance' \in [Processes -> [Customers -> 0 .. Seed]] => Shape'
  BY <1>1, <1>2 DEF Shape, Closes
<1>4. \A i \in Refunds : moved[i].call \in DOMAIN told'
  BY <1>2, OpenTransaction DEF Closes
<1>5. \A q \in Processes : ~Uncommitted(q)'
  BY DEF Closes, Uncommitted, At
<1> QED
  BY <1>2, <1>3, <1>4, <1>5

\* A transaction that is rolled back leaves the records; what it issued is
\* undone or forgotten.
LEMMA RollbackKeeps ==
    ASSUME IInv, NEW p, NEW o \in {"refused", "error", "lost"}, Closes(p, o, 0),
           records' = records,
           moved' \in Seq(Move), balance' \in [Processes -> [Customers -> 0 .. Seed]],
           Refunds' \subseteq Refunds,
           \A i \in Refunds : moved[i].call \in DOMAIN told => i \in Refunds',
           \A i \in Refunds' :
              /\ moved'[i].key = moved[i].key /\ moved'[i].customer = moved[i].customer
              /\ moved'[i].amount = moved[i].amount /\ moved'[i].call = moved[i].call
              /\ moved'[i].stamp = moved[i].stamp /\ moved'[i].at = moved[i].at
              /\ moved[i].undone => moved'[i].undone
              /\ Uncommitted(p) /\ i = Len(moved) => moved'[i].undone
    PROVE  IInv'
<1>1. /\ Numbered'
      /\ DOMAIN told' = DOMAIN told \cup {serving[p].call}
      /\ serving[p].call \notin DOMAIN told
      /\ told'[serving[p].call] = [outcome |-> o, refund |-> 0, request |-> serving[p].request]
      /\ \A c \in DOMAIN told : told'[c] = told[c]
      /\ records' \in Tables /\ moved' \in Seq(Move)
         /\ balance' \in [Processes -> [Customers -> 0 .. Seed]] => Shape'
      /\ \A i \in Refunds : moved[i].call \in DOMAIN told'
      /\ \A q \in Processes : ~Uncommitted(q)'
  <2>1. o \in Outcomes /\ 0 \in Nat
    BY DEF Outcomes
  <2> QED
    BY <2>1, CloseFacts
<1>2. Shape'
  BY <1>1 DEF IInv, Shape
<1>3. p \in DOMAIN txn /\ now' = now /\ now \in Nat
  BY DEF Closes, IInv, Shape
<1>4. HistoryStands
  BY <1>1, <1>3 DEF HistoryStands
<1>5. Committed(records)'
  BY <1>2, <1>4, RecordsStand DEF IInv, Accounts
<1>6. ASSUME NEW i \in Refunds'
      PROVE  MoveIsRight(i)'
  <2>1. MoveIsRight(i) /\ i \in Refunds
    BY DEF IInv, Accounts
  <2> QED
    BY <1>1, <2>1 DEF MoveIsRight
<1>7. ASSUME NEW c \in DOMAIN told'
      PROVE  AnswerIsRight(c)'
  <2>1. CASE c \in DOMAIN told
    BY <1>1, <1>4, <2>1, AnswerStands DEF IInv, Accounts
  <2>2. CASE c = serving[p].call
    BY <1>1, <2>2 DEF AnswerIsRight
  <2> QED
    BY <1>1, <2>1, <2>2
<1>8. MovedIsOnRecord'
  <2> SUFFICES ASSUME NEW i \in Refunds'
               PROVE  \/ Lapsed(i)' \/ moved'[i].undone
                      \/ moved'[i].key \in DOMAIN records' /\ records'[moved'[i].key].refund = i
    BY DEF MovedIsOnRecord
  <2>1. \/ Lapsed(i) \/ moved[i].undone
        \/ \E q \in Processes : Uncommitted(q) /\ txn[q].refund = i
        \/ moved[i].key \in DOMAIN records /\ records[moved[i].key].refund = i
    BY DEF IInv, MovedIsOnRecord
  <2>2. CASE \E q \in Processes : Uncommitted(q) /\ txn[q].refund = i
    BY <1>3, <2>2, OpenTransaction
  <2> QED
    BY <1>3, <2>1, <2>2 DEF Lapsed
<1>9. PaidOnce'
  BY DEF IInv, PaidOnce
<1>10. DOMAIN txn' = {}
  BY DEF Closes
<1> QED
  BY <1>1, <1>2, <1>5, <1>6, <1>7, <1>8, <1>9, <1>10 DEF IInv, Accounts

\* The refund is refused: nothing moved.
LEMMA RefuseKeeps == ASSUME IInv, NEW p \in Processes, IssueRefuses(p) PROVE IInv'
<1>1. p \in DOMAIN txn /\ ~Uncommitted(p) /\ UNCHANGED <<now, records, balance, moved>>
  BY DEF IssueRefuses, Uncommitted, At
<1>2. Closes(p, "refused", 0)
  BY <1>1, Holder DEF IssueRefuses, Closes, Drop
<1>3. moved' \in Seq(Move) /\ balance' \in [Processes -> [Customers -> 0 .. Seed]]
  BY <1>1 DEF IInv, Shape
<1>4. Refunds' = Refunds
  BY <1>1 DEF Refunds
<1> QED
  BY <1>1, <1>2, <1>3, <1>4, RollbackKeeps

\* A statement fails: the records are as before, and the history notes what
\* was issued as undone.
LEMMA FaultKeeps == ASSUME IInv, NEW p \in Processes, Fault(p) PROVE IInv'
<1>1. p \in DOMAIN txn /\ UNCHANGED <<now, records, balance>>
  BY DEF Fault
<1>2. Closes(p, "error", 0)
  BY <1>1, Holder DEF Fault, Closes, Drop
<1>3. moved \in Seq(Move) /\ balance' \in [Processes -> [Customers -> 0 .. Seed]]
  BY <1>1 DEF IInv, Shape
<1>4. CASE Uncommitted(p)
  <2>1. moved' = [moved EXCEPT ![Len(moved)].undone = TRUE]
    BY <1>4 DEF Fault
  <2>2. Len(moved) \in Nat \ {0}
    BY <1>1, <1>4, OpenTransaction
  <2>3. \A i \in 1 .. Len(moved) : moved[i] \in Move
    BY <1>3
  <2> DEFINE last == moved[Len(moved)]
             undone == [last EXCEPT !.undone = TRUE]
  <2>4. /\ undone \in Move /\ undone.undone
        /\ undone.key = last.key /\ undone.customer = last.customer
        /\ undone.amount = last.amount /\ undone.call = last.call
        /\ undone.stamp = last.stamp /\ undone.at = last.at
    <3>1. last \in Move
      BY <2>2, <2>3
    <3> HIDE DEF last
    <3> QED
      BY <3>1 DEF Move
  <2>5. /\ moved' \in Seq(Move) /\ Len(moved') = Len(moved) /\ Refunds' = Refunds
        /\ \A i \in 1 .. Len(moved) : moved'[i] = IF i = Len(moved) THEN undone ELSE moved[i]
    <3> HIDE DEF undone
    <3>1. moved' = [moved EXCEPT ![Len(moved)] = undone]
      BY <2>1 DEF undone
    <3>2. Len(moved) \in 1 .. Len(moved)
      BY <2>2
    <3>3. /\ moved' \in Seq(Move) /\ Len(moved') = Len(moved)
          /\ \A i \in 1 .. Len(moved) : moved'[i] = IF i = Len(moved) THEN undone ELSE moved[i]
      BY <1>3, <2>4, <3>1, <3>2, ExceptSeq
    <3> QED
      BY <3>3 DEF Refunds
  <2>6. ASSUME NEW i \in Refunds'
        PROVE  /\ moved'[i].key = moved[i].key /\ moved'[i].customer = moved[i].customer
               /\ moved'[i].amount = moved[i].amount /\ moved'[i].call = moved[i].call
               /\ moved'[i].stamp = moved[i].stamp /\ moved'[i].at = moved[i].at
               /\ moved[i].undone => moved'[i].undone
               /\ i = Len(moved) => moved'[i].undone
    <3> HIDE DEF undone
    <3>1. i \in 1 .. Len(moved)
      BY <2>5 DEF Refunds
    <3> QED
      BY <2>4, <2>5, <3>1
  <2> QED
    BY <1>1, <1>2, <1>3, <2>5, <2>6, RollbackKeeps
<1>5. CASE ~Uncommitted(p)
  <2>1. moved' = moved
    BY <1>5 DEF Fault
  <2>2. Refunds' = Refunds
    BY <2>1 DEF Refunds
  <2> QED
    BY <1>1, <1>2, <1>3, <1>5, <2>1, <2>2, RollbackKeeps
<1> QED
  BY <1>4, <1>5

\* The process dies in its transaction: what it had issued was in its memory.
LEMMA CrashKeeps == ASSUME IInv, NEW p \in DOMAIN txn, Crash(p) PROVE IInv'
<1>1. UNCHANGED <<now, records>> /\ p \in DOMAIN serving /\ p \in Processes
  BY Holder DEF Crash
<1>2. Closes(p, "lost", 0)
  BY <1>1, Holder DEF Crash, Closes, Drop
<1>3. moved \in Seq(Move) /\ Len(moved) \in Nat
  BY DEF IInv, Shape
<1>4. balance' \in [Processes -> [Customers -> 0 .. Seed]]
  <2>1. balance' = [balance EXCEPT ![p] = [c \in Customers |-> Seed]]
    BY DEF Crash
  <2> QED
    BY <2>1, RefundAssumption DEF IInv, Shape
<1>5. CASE Uncommitted(p)
  <2>1. moved' = SubSeq(moved, 1, Len(moved) - 1)
    BY <1>5 DEF Crash
  <2>2. /\ Len(moved) \in Nat \ {0}
        /\ moved[Len(moved)].call \notin DOMAIN told
    BY <1>5, OpenTransaction
  <2>3. /\ moved' \in Seq(Move) /\ Len(moved') = Len(moved) - 1
        /\ \A i \in 1 .. Len(moved) - 1 : moved'[i] = moved[i]
    <3>1. \A i \in 1 .. Len(moved) - 1 : moved[i] \in Move
      BY <1>3
    <3>2. /\ moved' \in Seq(Move)
          /\ Len(moved') = IF 1 <= Len(moved) - 1 THEN Len(moved) - 1 - 1 + 1 ELSE 0
          /\ \A i \in 1 .. Len(moved) - 1 - 1 + 1 : moved'[i] = moved[1 + i - 1]
      BY <1>3, <2>1, <3>1, SubSeqProperties
    <3>3. Len(moved') = Len(moved) - 1
      <4> DEFINE k == Len(moved)
      <4>1. k \in Nat \ {0} /\ Len(moved') = IF 1 <= k - 1 THEN k - 1 - 1 + 1 ELSE 0
        BY <2>2, <3>2
      <4> HIDE DEF k
      <4>2. Len(moved') = k - 1
        BY <4>1
      <4> QED
        BY <4>2 DEF k
    <3>4. ASSUME NEW i \in 1 .. Len(moved) - 1
          PROVE  moved'[i] = moved[i]
      <4>1. i \in 1 .. Len(moved) - 1 - 1 + 1 /\ 1 + i - 1 = i
        BY <2>2
      <4> QED
        BY <3>2, <4>1
    <3> QED
      BY <3>2, <3>3, <3>4
  <2>4. Refunds' = 1 .. Len(moved) - 1 /\ Refunds = 1 .. Len(moved)
    BY <2>3 DEF Refunds
  <2>5. Refunds' \subseteq Refunds /\ Len(moved) \notin Refunds'
        /\ \A i \in Refunds : moved[i].call \in DOMAIN told => i \in Refunds'
    BY <2>2, <2>4
  <2>6. \A i \in Refunds' : moved'[i] = moved[i] /\ i # Len(moved)
    BY <2>3, <2>4, <2>5
  <2> QED
    BY <1>1, <1>2, <1>4, <2>3, <2>5, <2>6, RollbackKeeps
<1>6. CASE ~Uncommitted(p)
  <2>1. moved' = moved
    BY <1>6 DEF Crash
  <2>2. Refunds' = Refunds
    BY <2>1 DEF Refunds
  <2> QED
    BY <1>1, <1>2, <1>3, <1>4, <1>6, <2>1, <2>2, RollbackKeeps
<1> QED
  BY <1>5, <1>6

\* The records of the transaction are on disk, and the client has its payload.
LEMMA CommitKeeps == ASSUME IInv, NEW p \in Processes, Commit(p) PROVE IInv'
<1> DEFINE key == OperationKey(serving[p].request)
           call == serving[p].call
           outcome == IF txn[p].step = "replay" THEN "replayed" ELSE "issued"
           n == txn[p].refund
<1>1. /\ p \in DOMAIN txn /\ txn[p].step \in {"replay", "recorded"}
      /\ records' = txn[p].rows /\ UNCHANGED <<now, balance, moved>>
  BY DEF Commit, At
<1>2. /\ txn[p] \in Transaction /\ txn[p].rows \in Tables
      /\ TransactionIsRight(p) /\ Kept(p) \subseteq DOMAIN records
      /\ serving[p].stamp \in Nat /\ serving[p].stamp <= now /\ now \in Nat
  <2>1. now \in Nat
    BY DEF IInv, Shape
  <2> QED
    BY <1>1, <2>1, Holder
<1>3. Closes(p, outcome, n)
  BY <1>1, Holder DEF Commit, Closes, Drop
<1>4. outcome \in Outcomes /\ n \in Nat
  BY <1>2 DEF Outcomes, Transaction
<1>5. /\ Numbered'
      /\ DOMAIN told' = DOMAIN told \cup {call}
      /\ call \notin DOMAIN told
      /\ told'[call] = [outcome |-> outcome, refund |-> n, request |-> serving[p].request]
      /\ \A c \in DOMAIN told : told'[c] = told[c]
      /\ records' \in Tables /\ moved' \in Seq(Move)
         /\ balance' \in [Processes -> [Customers -> 0 .. Seed]] => Shape'
      /\ \A i \in Refunds : moved[i].call \in DOMAIN told'
      /\ \A q \in Processes : ~Uncommitted(q)'
  BY <1>3, <1>4, CloseFacts
<1>6. Shape'
  BY <1>1, <1>2, <1>5 DEF IInv, Shape
<1>7. Refunds' = Refunds
  BY <1>1 DEF Refunds
<1>8. HistoryStands
  BY <1>1, <1>2, <1>5, <1>7 DEF HistoryStands
\* What the transaction leaves on disk.
<1>9. /\ \A k \in DOMAIN records' : \/ k \in Kept(p) /\ records'[k] = records[k]
                                    \/ /\ k = key /\ txn[p].step = "recorded"
                                       /\ records'[k] = [refund |-> n, created |-> serving[p].stamp]
      /\ \A k \in Kept(p) : k \in DOMAIN records' /\ records'[k] = records[k]
      /\ txn[p].step = "recorded" => key \in DOMAIN records' /\ records'[key].refund = n
  <2>1. CASE txn[p].step = "replay"
    <3>1. records' = [k \in Kept(p) |-> records[k]]
      BY <1>1, <1>2, <2>1 DEF TransactionIsRight
    <3> QED
      BY <2>1, <3>1
  <2>2. CASE txn[p].step = "recorded"
    <3>1. /\ records' = Put([k \in Kept(p) |-> records[k]], key,
                            [refund |-> n, created |-> serving[p].stamp])
          /\ key \notin Kept(p)
      BY <1>1, <1>2, <2>2 DEF TransactionIsRight
    <3> HIDE DEF key, n
    <3> QED
      BY <2>2, <3>1 DEF Put
  <2> QED
    BY <1>1, <2>1, <2>2
<1>10. txn[p].step = "recorded" =>
          /\ Uncommitted(p) /\ n = Len(moved) /\ n \in Refunds
          /\ moved[n].key = key /\ moved[n].call = call /\ moved[n].stamp = serving[p].stamp
  BY <1>1, OpenTransaction DEF Uncommitted, At, Refunds
<1>11. txn[p].step = "replay" =>
          /\ ~Uncommitted(p) /\ \A i \in Refunds : moved[i].call \in DOMAIN told
          /\ n \in Refunds /\ moved[n].key = key
  <2>1. CASE txn[p].step = "replay"
    <3>1. key \in Kept(p) /\ n = records[key].refund
      BY <1>2, <2>1 DEF TransactionIsRight
    <3>2. n \in Refunds /\ moved[n].key = key
      BY <1>2, <3>1 DEF IInv, Accounts, Committed
    <3>3. ~Uncommitted(p)
      BY <2>1 DEF Uncommitted, At
    <3> QED
      BY <1>1, <3>2, <3>3, OpenTransaction
  <2> QED
    BY <2>1
<1>12. Committed(records)'
  <2> SUFFICES ASSUME NEW k \in DOMAIN records'
               PROVE  /\ records'[k].refund \in Refunds'
                      /\ moved'[records'[k].refund].key = k
                      /\ moved'[records'[k].refund].call \in DOMAIN told'
                      /\ moved'[records'[k].refund].stamp = records'[k].created
                      /\ records'[k].created <= now'
    BY DEF Committed
  <2>1. CASE k \in Kept(p) /\ records'[k] = records[k]
    BY <1>1, <1>2, <1>5, <1>7, <2>1 DEF IInv, Accounts, Committed
  <2>2. CASE /\ k = key /\ txn[p].step = "recorded"
             /\ records'[k] = [refund |-> n, created |-> serving[p].stamp]
    BY <1>1, <1>2, <1>5, <1>7, <1>10, <2>2
  <2> QED
    BY <1>9, <2>1, <2>2
<1>13. ASSUME NEW i \in Refunds'
       PROVE  MoveIsRight(i)'
  <2>1. MoveIsRight(i)
    BY <1>7 DEF IInv, Accounts
  <2> QED
    BY <1>1, <1>5, <1>7, <2>1 DEF MoveIsRight
<1>14. ASSUME NEW c \in DOMAIN told'
       PROVE  AnswerIsRight(c)'
  <2>1. CASE c \in DOMAIN told
    BY <1>5, <1>8, <2>1, AnswerStands DEF IInv, Accounts
  <2>2. CASE c = call
    <3>1. CASE txn[p].step = "recorded"
      BY <1>1, <1>5, <1>7, <1>10, <2>2, <3>1 DEF AnswerIsRight
    <3>2. CASE txn[p].step = "replay"
      BY <1>1, <1>5, <1>7, <1>11, <2>2, <3>2 DEF AnswerIsRight
    <3> QED
      BY <1>1, <3>1, <3>2
  <2> QED
    BY <1>5, <2>1, <2>2
<1>15. MovedIsOnRecord'
  <2> SUFFICES ASSUME NEW i \in Refunds, ~Lapsed(i), ~moved[i].undone
               PROVE  moved[i].key \in DOMAIN records' /\ records'[moved[i].key].refund = i
    BY <1>1, <1>7 DEF MovedIsOnRecord, Lapsed
  <2>1. CASE \E q \in Processes : Uncommitted(q) /\ txn[q].refund = i
    <3>1. Uncommitted(p) /\ n = i
      BY <1>1, <2>1, OpenTransaction
    <3>2. txn[p].step = "recorded"
      BY <1>1, <3>1 DEF Uncommitted, At
    <3> QED
      BY <1>9, <1>10, <3>1, <3>2
  <2>2. CASE moved[i].key \in DOMAIN records /\ records[moved[i].key].refund = i
    <3>1. records[moved[i].key].created = moved[i].stamp /\ moved[i].stamp \in Nat
      <4>1. moved \in Seq(Move)
        BY DEF IInv, Shape
      <4>2. moved[i] \in Move
        BY <4>1 DEF Refunds
      <4> QED
        BY <2>2, <4>2 DEF IInv, Accounts, Committed, Move
    <3>2. moved[i].key \in Kept(p)
      BY <1>2, <2>2, <3>1, RefundAssumption DEF Kept, Lapsed
    <3> QED
      BY <1>9, <2>2, <3>2
  <2> QED
    BY <2>1, <2>2 DEF IInv, MovedIsOnRecord
<1>16. PaidOnce'
  BY <1>1, <1>7 DEF IInv, PaidOnce
<1>17. DOMAIN txn' = {}
  BY <1>3 DEF Closes
<1> QED
  BY <1>5, <1>6, <1>12, <1>13, <1>14, <1>15, <1>16, <1>17 DEF IInv, Accounts

-----------------------------------------------------------------------------
(***************************************************************************)
(* Every step                                                              *)
(***************************************************************************)
\* Before the first call nothing was moved.
LEMMA InitHolds == Init => IInv
<1> SUFFICES ASSUME Init PROVE IInv
  OBVIOUS
<1>1. /\ now = 0 /\ moved = <<>>
      /\ DOMAIN records = {} /\ DOMAIN txn = {} /\ DOMAIN serving = {} /\ DOMAIN told = {}
      /\ records = [k \in DOMAIN records |-> records[k]]
      /\ balance = [p \in Processes |-> [c \in Customers |-> Seed]]
  BY DEF Init, Nothing
<1>2. Refunds = {}
  BY <1>1 DEF Refunds
<1>3. records \in Tables
  BY <1>1, TableIs
<1>4. Shape
  BY <1>1, <1>3, RefundAssumption DEF Shape
<1>5. Numbered
  BY <1>1, FS_EmptySet DEF Numbered
<1> QED
  BY <1>1, <1>2, <1>4, <1>5 DEF IInv, Accounts, Committed, MovedIsOnRecord, PaidOnce

\* Every step keeps the invariant.
LEMMA StepKeeps == IInv /\ [Next]_vars => IInv'
<1> SUFFICES ASSUME IInv, [Next]_vars PROVE IInv'
  OBVIOUS
<1>1. CASE Tick
  BY <1>1, TickKeeps
<1>2. ASSUME NEW p \in Processes, NEW q \in Request, Ask(p, q)
      PROVE  IInv'
  BY <1>2, AskKeeps
<1>3. ASSUME NEW p \in Processes, BeginFails(p)
      PROVE  IInv'
  <2>1. /\ p \in DOMAIN serving \ DOMAIN txn /\ Answer(p, "error", 0)
        /\ UNCHANGED <<now, records, txn, balance, moved>>
    BY <1>3 DEF BeginFails
  <2>2. balance' \in [Processes -> [Customers -> 0 .. Seed]]
    BY <2>1 DEF IInv, Shape
  <2> QED
    BY <2>1, <2>2, GivenUpKeeps
<1>4. ASSUME NEW p \in Processes, Serve(p)
      PROVE  IInv'
  BY <1>3, <1>4, BeginKeeps, LookUpKeeps, RefuseKeeps, IssueKeeps, RecordKeeps, CommitKeeps
     DEF Serve
<1>5. ASSUME NEW p \in Processes, Fault(p)
      PROVE  IInv'
  BY <1>5, FaultKeeps
<1>6. ASSUME NEW p \in Processes, Crash(p)
      PROVE  IInv'
  BY <1>6, CrashKeeps, IdleCrashKeeps
<1>7. CASE UNCHANGED vars
  <2>1. UNCHANGED <<now, records, txn, serving, balance, told, moved>>
    BY <1>7 DEF vars
  <2>2. Shape'
    BY <2>1 DEF IInv, Shape
  <2>3. Numbered'
    BY <2>1 DEF IInv, Numbered, Arrived
  <2>4. Bystands
    BY <2>1, <2>2 DEF Bystands, IInv, Shape
  <2> QED
    BY <2>2, <2>3, <2>4, BystanderKeeps
<1> QED
  BY <1>1, <1>2, <1>4, <1>5, <1>6, <1>7 DEF Next

LEMMA Inductive == Spec => []IInv
BY InitHolds, StepKeeps, PTL DEF Spec

-----------------------------------------------------------------------------
\* The state keeps its types: one transaction at a time, records of refunds
\* that were issued, balances that are never overdrawn.
THEOREM TypeCorrect == Spec => []TypeOK
<1>1. IInv => TypeOK
  <2> SUFFICES ASSUME IInv PROVE TypeOK
    OBVIOUS
  <2>1. Cardinality(DOMAIN txn) <= 1
    <3>1. CASE DOMAIN txn = {}
      BY <3>1, FS_EmptySet
    <3>2. ASSUME NEW p \in DOMAIN txn
          PROVE  Cardinality(DOMAIN txn) <= 1
      <4>1. DOMAIN txn = {p}
        BY DEF IInv, Shape
      <4> QED
        BY <4>1, FS_Singleton
    <3> QED
      BY <3>1, <3>2
  <2>2. \A p \in DOMAIN txn : txn[p].step \in Steps
    BY DEF IInv, Shape, Transaction
  <2>3. \A p \in DOMAIN serving : serving[p].request \in Request /\ serving[p].stamp <= now
    BY DEF IInv, Shape, Serving
  <2> QED
    BY <2>1, <2>2, <2>3 DEF IInv, Shape, Accounts, Committed, TypeOK, Steps, Outcomes
<1> QED
  BY <1>1, Inductive, PTL

\* One operation moves money once per replay window, however many processes
\* are asked, whatever crashes and whoever retries (store.py:142,
\* idempotency.py:18-24), unless the disk failed under the first refund.
THEOREM OperationPaysOnce == Spec => []PaidOnce
<1>1. IInv => PaidOnce
  BY DEF IInv
<1> QED
  BY <1>1, Inductive, PTL

\* A replay moves nothing and names the refund of the same operation
\* (store.py:144-147, idempotency.py:136-137).
THEOREM ReplayNamesItsRefund == Spec => []ReplayIsOriginal
<1>1. IInv => ReplayIsOriginal
  <2> SUFFICES ASSUME IInv, NEW c \in DOMAIN told, told[c].outcome \in {"replayed", "issued"}
               PROVE  /\ told[c].refund \in Refunds
                      /\ moved[told[c].refund].customer = told[c].request.customer
                      /\ told[c].request.key = "none" =>
                            moved[told[c].refund].amount = told[c].request.amount
                      /\ (told[c].outcome = "issued") <=> (moved[told[c].refund].call = c)
                      /\ told[c].outcome = "replayed" => \A i \in Refunds : moved[i].call # c
    BY DEF ReplayIsOriginal
  <2>1. AnswerIsRight(c) /\ told[c].request \in Request
    BY DEF IInv, Shape, Accounts
  <2>2. told[c].refund \in Refunds /\ moved[told[c].refund].key = OperationKey(told[c].request)
    BY <2>1 DEF AnswerIsRight
  <2>3. PICK q \in Request : /\ moved[told[c].refund].key = OperationKey(q)
                             /\ moved[told[c].refund].customer = q.customer
                             /\ moved[told[c].refund].amount = q.amount
    BY <2>2 DEF IInv, Accounts, MoveIsRight
  <2>4. told[c].request.customer = q.customer
        /\ (told[c].request.key = "none" => told[c].request.amount = q.amount)
    BY <2>1, <2>2, <2>3, KeyNames
  <2> QED
    BY <2>1, <2>2, <2>3, <2>4 DEF AnswerIsRight
<1> QED
  BY <1>1, Inductive, PTL

\* What was moved is on disk from its commit until its window has passed, told
\* or not, also after a crash (idempotency.py:6-16).
THEOREM MovedStaysOnRecord == Spec => []MovedIsOnRecord
<1>1. IInv => MovedIsOnRecord
  BY DEF IInv
<1> QED
  BY <1>1, Inductive, PTL
=============================================================================
