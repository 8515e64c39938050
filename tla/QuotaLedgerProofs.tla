------------------------- MODULE QuotaLedgerProofs -------------------------
(***************************************************************************)
(* The ledger keeps its types and its promise for every window, limit, set *)
(* of requests, tenants, estimates and usages.                             *)
(***************************************************************************)
EXTENDS QuotaLedger, FiniteSetTheorems, TLAPS

-----------------------------------------------------------------------------
(* The sums of SlidingWindow.tla.                                          *)

\* A finite function into Nat has finitely many token units.
LEMMA UnitsFinite ==
  ASSUME NEW S, IsFiniteSet(S), NEW f \in [S -> Nat]
  PROVE  IsFiniteSet(Units(f))
<1> DEFINE part == [r \in S |-> {r} \X (1 .. f[r])]
           parts == {{r} \X (1 .. f[r]) : r \in S}
<1>1. part \in Surjection(S, parts)
  BY DEF Surjection
<1>2. IsFiniteSet(parts)
  BY <1>1, FS_Surjection
<1>3. ASSUME NEW r \in S
      PROVE  IsFiniteSet({r} \X (1 .. f[r]))
  <2>1. f[r] \in Int
    OBVIOUS
  <2>2. IsFiniteSet(1 .. f[r])
    BY <2>1, FS_Interval
  <2> QED
    BY <2>2, FS_Singleton, FS_Product
<1>4. \A T \in parts : IsFiniteSet(T)
  BY <1>3
<1> QED
  BY <1>2, <1>4, FS_UNION DEF Units

\* So its total is a natural number.
LEMMA TotalNat ==
  ASSUME NEW S, IsFiniteSet(S), NEW f \in [S -> Nat]
  PROVE  Total(f) \in Nat
BY UnitsFinite, FS_CardinalityType DEF Total

\* A total grows with its terms and with its domain.
LEMMA TotalMonotone ==
  ASSUME NEW T, IsFiniteSet(T), NEW S \in SUBSET T,
         NEW f \in [S -> Nat], NEW g \in [T -> Nat],
         \A r \in S : f[r] <= g[r]
  PROVE  Total(f) <= Total(g)
<1>1. Units(f) \subseteq Units(g)
  <2> SUFFICES ASSUME NEW r \in S, NEW u \in {r} \X (1 .. f[r])
               PROVE  u \in {r} \X (1 .. g[r])
    BY DEF Units
  <2>1. /\ f[r] \in Nat
        /\ g[r] \in Nat
        /\ f[r] <= g[r]
    OBVIOUS
  <2> QED
    BY <2>1
<1>2. IsFiniteSet(Units(g))
  BY UnitsFinite
<1> QED
  BY <1>1, <1>2, FS_Subset DEF Total

\* Disjoint finite sets: cardinalities add up.
LEMMA DisjointCardinality ==
  ASSUME NEW A, IsFiniteSet(A), NEW B, IsFiniteSet(B), A \cap B = {}
  PROVE  Cardinality(A \cup B) = Cardinality(A) + Cardinality(B)
<1>1. Cardinality(A \cap B) = 0
  BY FS_EmptySet
<1>2. Cardinality(A) \in Nat /\ Cardinality(B) \in Nat
  BY FS_CardinalityType
<1>3. Cardinality(A \cup B)
         = Cardinality(A) + Cardinality(B) - Cardinality(A \cap B)
  BY FS_Union
<1> QED
  BY <1>1, <1>2, <1>3

\* A total over two disjoint sets is the sum of the two totals.
LEMMA TotalSplit ==
  ASSUME NEW S, IsFiniteSet(S), NEW T, IsFiniteSet(T), S \cap T = {},
         NEW f \in [S \cup T -> Nat]
  PROVE  Total(f) = Total([r \in S |-> f[r]]) + Total([r \in T |-> f[r]])
<1> DEFINE fs == [r \in S |-> f[r]]
           ft == [r \in T |-> f[r]]
<1>1. fs \in [S -> Nat] /\ ft \in [T -> Nat]
  OBVIOUS
<1>2. IsFiniteSet(Units(fs)) /\ IsFiniteSet(Units(ft))
  BY <1>1, UnitsFinite
<1>3. Units(f) = Units(fs) \cup Units(ft)
  BY DEF Units
<1>4. Units(fs) \cap Units(ft) = {}
  BY DEF Units
<1>5. Cardinality(Units(fs) \cup Units(ft))
         = Cardinality(Units(fs)) + Cardinality(Units(ft))
  BY <1>2, <1>4, DisjointCardinality
<1>6. Total(fs) = Cardinality(Units(fs)) /\ Total(ft) = Cardinality(Units(ft))
  BY DEF Total
<1>7. Total(f) = Cardinality(Units(fs) \cup Units(ft))
  BY <1>3 DEF Total
<1> QED
  BY <1>5, <1>6, <1>7

\* The total of a single term is the term.
LEMMA TotalSingle ==
  ASSUME NEW r, NEW f \in [{r} -> Nat]
  PROVE  Total(f) = f[r]
<1> DEFINE n == f[r]
           pair == [i \in 1 .. n |-> <<r, i>>]
<1>1. n \in Nat
  OBVIOUS
<1>2. Units(f) = {r} \X (1 .. n)
  BY DEF Units
<1>3. pair \in Bijection(1 .. n, Units(f))
  <2>1. \A i \in 1 .. n : <<r, i>> \in Units(f)
    BY <1>2
  <2>2. \A u \in Units(f) : \E i \in 1 .. n : u = <<r, i>>
    BY <1>2
  <2> QED
    BY <2>1, <2>2 DEF Bijection, Injection, Surjection, IsInjective
<1>4. IsFiniteSet(1 .. n) /\ Cardinality(1 .. n) = n
  BY <1>1, FS_Interval
<1>5. ExistsBijection(1 .. n, Units(f))
  BY <1>3 DEF ExistsBijection
<1> QED
  BY <1>4, <1>5, FS_Bijection DEF Total

\* Adding one term adds its value.
LEMMA TotalAdd ==
  ASSUME NEW S, IsFiniteSet(S), NEW r, r \notin S,
         NEW f \in [S \cup {r} -> Nat]
  PROVE  Total(f) = Total([q \in S |-> f[q]]) + f[r]
<1> DEFINE fr == [q \in {r} |-> f[q]]
<1>1. IsFiniteSet({r}) /\ S \cap {r} = {}
  BY FS_Singleton
<1>2. Total(f) = Total([q \in S |-> f[q]]) + Total(fr)
  BY <1>1, TotalSplit
<1>3. fr \in [{r} -> Nat] /\ fr[r] = f[r]
  OBVIOUS
<1>4. Total(fr) = f[r]
  BY <1>3, TotalSingle
<1> QED
  BY <1>2, <1>4

-----------------------------------------------------------------------------
(* The ledger.                                                             *)

\* The empty ledger is well formed.
LEMMA TypeInitially == Init => TypeOK
BY DEF Init, TypeOK, Verdicts

\* No operation breaks the ledger's types.
LEMMA TypeStep == TypeOK /\ [Next]_vars => TypeOK'
<1> SUFFICES ASSUME TypeOK, [Next]_vars
             PROVE  TypeOK'
  OBVIOUS
<1> USE DEF TypeOK, Verdicts, Entry
<1>1. CASE Tick
  BY <1>1 DEF Tick
<1>2. ASSUME NEW r \in Requests, NEW t \in Tenants, NEW n \in Estimates,
             NEW s \in 0 .. now, Admit(r, t, n, s)
      PROVE  TypeOK'
  <2> DEFINE e == [tenant |-> t, estimate |-> n, tokens |-> n, created |-> s]
  <2>1. e \in Entry
    BY EstimatesAssumption
  <2>2. /\ book' = Insert(book, r, e)
        /\ now' = now
        /\ verdict' = [verdict EXCEPT ![r] = "admitted"]
        /\ s <= now
    BY <1>2 DEF Admit
  <2>3. DOMAIN book' = {q \in Requests : verdict'[q] \in {"admitted", "charged"}}
    BY <2>2 DEF Insert
  <2>4. ASSUME NEW q \in DOMAIN book'
        PROVE  /\ book'[q] \in Entry
               /\ book'[q].created <= now'
               /\ verdict'[q] = "admitted" => book'[q].tokens = book'[q].estimate
    <3>1. CASE q = r
      BY <3>1, <2>1, <2>2 DEF Insert
    <3>2. CASE q # r
      BY <3>2, <2>2 DEF Insert
    <3> QED
      BY <3>1, <3>2
  <2>5. verdict' \in [Requests -> Verdicts]
    BY <2>2
  <2> QED
    BY <2>2, <2>3, <2>4, <2>5
<1>3. ASSUME NEW r \in Requests, NEW t \in Tenants, NEW n \in Estimates,
             NEW s \in 0 .. now, Refuse(r, t, n, s)
      PROVE  TypeOK'
  BY <1>3 DEF Refuse
<1>4. ASSUME NEW r \in Requests, NEW u \in Usages, Settle(r, u)
      PROVE  TypeOK'
  BY <1>4, UsagesAssumption DEF Settle
<1>5. ASSUME NEW r \in Requests, Release(r)
      PROVE  TypeOK'
  BY <1>5 DEF Release, Delete
<1>6. CASE UNCHANGED vars
  BY <1>6 DEF vars
<1> QED
  BY <1>1, <1>2, <1>3, <1>4, <1>5, <1>6 DEF Next

\* The ledger's state stays well formed: the book holds exactly the admissions
\* not given back, each at its estimate until settle() replaces it.
THEOREM TypeCorrect == Spec => []TypeOK
BY TypeInitially, TypeStep, PTL DEF Spec

-----------------------------------------------------------------------------
\* The book is a finite set of admissions.
LEMMA BookFinite ==
  ASSUME TypeOK
  PROVE  IsFiniteSet(DOMAIN book)
<1>1. DOMAIN book \in SUBSET Requests
  BY DEF TypeOK
<1> QED
  BY <1>1, RequestsAssumption, FS_Subset

\* What a set of entries vouches for is a function into Nat, bounded entry by
\* entry by what the entries are charged.
LEMMA VouchedType ==
  ASSUME TypeOK, NEW S \in SUBSET DOMAIN book
  PROVE  /\ Vouched(book, S) \in [S -> Nat]
         /\ Tokens(book, S) \in [S -> Nat]
         /\ \A r \in S : Vouched(book, S)[r] <= Tokens(book, S)[r]
BY DEF TypeOK, Entry, Vouched, Tokens, Lesser

\* The instant of a check sees every entry of any window that ends at it or
\* later: no admission can hide from a check in a window they share.
LEMMA CheckSeesWindow ==
  ASSUME TypeOK, NEW t \in Tenants, NEW s \in 0 .. now, NEW i \in 0 .. now, s <= i
  PROVE  Total(Vouched(book, Within(book, t, i))) <= Used(book, t, s)
<1> DEFINE S == Within(book, t, i)
           T == Live(book, t, s)
<1>1. S \in SUBSET T
  BY WindowAssumption DEF TypeOK, Entry, Within, Live
<1>2. S \in SUBSET DOMAIN book /\ T \in SUBSET DOMAIN book
  BY DEF Within, Live
<1>3. IsFiniteSet(T)
  BY <1>2, BookFinite, FS_Subset
<1>4. /\ Vouched(book, S) \in [S -> Nat]
      /\ Tokens(book, T) \in [T -> Nat]
      /\ \A r \in S : Vouched(book, S)[r] <= Tokens(book, T)[r]
  <2>1. /\ Vouched(book, S) \in [S -> Nat]
        /\ \A r \in S : Vouched(book, S)[r] <= Tokens(book, S)[r]
    BY <1>2, VouchedType
  <2>2. Tokens(book, T) \in [T -> Nat]
    BY <1>2, VouchedType
  <2>3. \A r \in S : Tokens(book, S)[r] = Tokens(book, T)[r]
    BY <1>1 DEF Tokens
  <2> QED
    BY <2>1, <2>2, <2>3
<1> QED
  BY <1>1, <1>3, <1>4, TotalMonotone DEF Used

\* A step that only takes entries out of a window, or lowers what they vouch
\* for, keeps the window within the limit.
LEMMA WindowShrinks ==
  ASSUME TypeOK, TypeOK', EveryInstant, NEW t \in Tenants, NEW i \in Nat, NEW j \in 0 .. now,
         Within(book', t, i) \subseteq Within(book, t, j),
         \A q \in Within(book', t, i) :
            Lesser(book'[q].tokens, book'[q].estimate) <= Lesser(book[q].tokens, book[q].estimate)
  PROVE  Total(Vouched(book', Within(book', t, i))) <= Limit
<1> DEFINE S == Within(book', t, i)
           T == Within(book, t, j)
<1>1. S \in SUBSET T
  OBVIOUS
<1>2. T \in SUBSET DOMAIN book /\ S \in SUBSET DOMAIN book'
  BY DEF Within
<1>3. IsFiniteSet(T) /\ IsFiniteSet(S)
  BY <1>1, <1>2, BookFinite, FS_Subset
<1>4. Vouched(book, T) \in [T -> Nat] /\ Vouched(book', S) \in [S -> Nat]
  BY <1>2 DEF TypeOK, Entry, Vouched, Lesser
<1>5. \A q \in S : Vouched(book', S)[q] <= Vouched(book, T)[q]
  BY <1>1 DEF Vouched
<1>6. Total(Vouched(book', S)) <= Total(Vouched(book, T))
  BY <1>1, <1>3, <1>4, <1>5, TotalMonotone
<1>7. Total(Vouched(book, T)) <= Limit
  BY DEF EveryInstant
<1>8. Total(Vouched(book', S)) \in Nat /\ Total(Vouched(book, T)) \in Nat
  BY <1>3, <1>4, TotalNat
<1> QED
  BY <1>6, <1>7, <1>8, LimitAssumption

\* check_and_reserve admits only what fits, so every window still fits.
LEMMA AdmitKeepsWindows ==
  ASSUME TypeOK, TypeOK', EveryInstant,
         NEW r \in Requests, NEW t \in Tenants, NEW n \in Estimates, NEW s \in 0 .. now,
         Admit(r, t, n, s)
  PROVE  EveryInstant'
<1> DEFINE e == [tenant |-> t, estimate |-> n, tokens |-> n, created |-> s]
<1>1. /\ book' = Insert(book, r, e)
      /\ now' = now
      /\ Used(book, t, s) + n <= Limit
      /\ r \notin DOMAIN book
      /\ n \in Nat
  BY EstimatesAssumption DEF Admit, TypeOK
<1>2. /\ DOMAIN book' = DOMAIN book \cup {r}
      /\ book'[r] = e
      /\ \A q \in DOMAIN book : book'[q] = book[q]
  BY <1>1 DEF Insert
<1> SUFFICES ASSUME NEW x \in Tenants, NEW i \in 0 .. now
             PROVE  Total(Vouched(book', Within(book', x, i))) <= Limit
  BY <1>1 DEF EveryInstant
<1> DEFINE S == Within(book, x, i)
<1>3. CASE r \notin Within(book', x, i)
  <2>1. Within(book', x, i) = S
    BY <1>2, <1>3 DEF Within
  <2>2. Vouched(book', S) = Vouched(book, S)
    BY <1>2 DEF Vouched, Within
  <2> QED
    BY <2>1, <2>2 DEF EveryInstant
<1>4. CASE r \in Within(book', x, i)
  <2>1. x = t /\ s <= i
    BY <1>2, <1>4 DEF Within
  <2>2. Within(book', x, i) = S \cup {r} /\ r \notin S
    BY <1>1, <1>2, <1>4 DEF Within
  <2>3. S \in SUBSET DOMAIN book
    BY DEF Within
  <2>4. IsFiniteSet(S)
    BY <2>3, BookFinite, FS_Subset
  <2> DEFINE f == Vouched(book', S \cup {r})
  <2>5. f \in [S \cup {r} -> Nat]
    BY <1>2, <2>3 DEF Vouched, TypeOK, Entry, Lesser
  <2>6. f[r] = n
    BY <1>2 DEF Vouched, Lesser
  <2>7. [q \in S |-> f[q]] = Vouched(book, S)
    BY <1>2, <2>3 DEF Vouched
  <2>8. Total(f) = Total(Vouched(book, S)) + n
    BY <2>2, <2>4, <2>5, <2>6, <2>7, TotalAdd
  <2>9. Total(Vouched(book, S)) <= Used(book, t, s)
    BY <2>1, CheckSeesWindow
  <2>10. Total(Vouched(book, S)) \in Nat
    BY <2>3, <2>4, VouchedType, TotalNat
  <2>11. Used(book, t, s) \in Nat
    <3>1. Live(book, t, s) \in SUBSET DOMAIN book
      BY DEF Live
    <3>2. IsFiniteSet(Live(book, t, s))
      BY <3>1, BookFinite, FS_Subset
    <3> QED
      BY <3>1, <3>2, VouchedType, TotalNat DEF Used
  <2>12. Total(f) <= Limit
    BY <1>1, <2>8, <2>9, <2>10, <2>11, LimitAssumption
  <2> QED
    BY <2>2, <2>12
<1> QED
  BY <1>3, <1>4

\* No operation, and no passing of time, takes a window over the limit.
LEMMA EveryInstantStep == TypeOK /\ TypeOK' /\ EveryInstant /\ [Next]_vars => EveryInstant'
<1> SUFFICES ASSUME TypeOK, TypeOK', EveryInstant, [Next]_vars
             PROVE  EveryInstant'
  OBVIOUS
<1>1. CASE Tick
  <2>1. now' = now + 1 /\ book' = book /\ now \in Nat
    BY <1>1 DEF Tick, TypeOK
  <2> SUFFICES ASSUME NEW t \in Tenants, NEW i \in 0 .. now'
               PROVE  Total(Vouched(book', Within(book', t, i))) <= Limit
    BY DEF EveryInstant
  <2>2. CASE i <= now
    BY <2>1, <2>2 DEF EveryInstant
  <2>3. CASE i = now + 1
    <3>1. Within(book', t, i) \subseteq Within(book, t, now)
      BY <2>1, <2>3, WindowAssumption DEF Within, TypeOK, Entry
    <3>2. \A q \in Within(book', t, i) :
             Lesser(book'[q].tokens, book'[q].estimate)
               <= Lesser(book[q].tokens, book[q].estimate)
      BY <2>1 DEF Within, TypeOK, Entry, Lesser
    <3> QED
      BY <2>1, <2>3, <3>1, <3>2, WindowShrinks
  <2> QED
    BY <2>1, <2>2, <2>3
<1>2. ASSUME NEW r \in Requests, NEW t \in Tenants, NEW n \in Estimates,
             NEW s \in 0 .. now, Admit(r, t, n, s)
      PROVE  EveryInstant'
  BY <1>2, AdmitKeepsWindows
<1>3. ASSUME NEW r \in Requests, NEW t \in Tenants, NEW n \in Estimates,
             NEW s \in 0 .. now, Refuse(r, t, n, s)
      PROVE  EveryInstant'
  BY <1>3 DEF Refuse, EveryInstant
<1>4. ASSUME NEW r \in Requests, NEW u \in Usages, Settle(r, u)
      PROVE  EveryInstant'
  <2>1. /\ now' = now
        /\ DOMAIN book' = DOMAIN book
        /\ book' = [book EXCEPT ![r].tokens = u]
        /\ r \in DOMAIN book
        /\ book[r].tokens = book[r].estimate
        /\ u \in Nat
    BY <1>4, UsagesAssumption DEF Settle, TypeOK
  <2>2. \A q \in DOMAIN book :
           /\ book'[q].tenant = book[q].tenant
           /\ book'[q].created = book[q].created
           /\ book'[q].estimate = book[q].estimate
           /\ q # r => book'[q].tokens = book[q].tokens
    BY <2>1 DEF TypeOK, Entry
  <2> SUFFICES ASSUME NEW t \in Tenants, NEW i \in 0 .. now
               PROVE  Total(Vouched(book', Within(book', t, i))) <= Limit
    BY <2>1 DEF EveryInstant
  <2>3. Within(book', t, i) \subseteq Within(book, t, i)
    BY <2>1, <2>2 DEF Within
  <2>4. \A q \in Within(book', t, i) :
           Lesser(book'[q].tokens, book'[q].estimate)
             <= Lesser(book[q].tokens, book[q].estimate)
    BY <2>1, <2>2 DEF Within, TypeOK, Entry, Lesser
  <2> QED
    BY <2>3, <2>4, WindowShrinks DEF TypeOK
<1>5. ASSUME NEW r \in Requests, Release(r)
      PROVE  EveryInstant'
  <2>1. /\ now' = now
        /\ DOMAIN book' = DOMAIN book \ {r}
        /\ \A q \in DOMAIN book' : book'[q] = book[q]
    BY <1>5 DEF Release, Delete
  <2> SUFFICES ASSUME NEW t \in Tenants, NEW i \in 0 .. now
               PROVE  Total(Vouched(book', Within(book', t, i))) <= Limit
    BY <2>1 DEF EveryInstant
  <2>2. Within(book', t, i) \subseteq Within(book, t, i)
    BY <2>1 DEF Within
  <2>3. \A q \in Within(book', t, i) :
           Lesser(book'[q].tokens, book'[q].estimate)
             <= Lesser(book[q].tokens, book[q].estimate)
    BY <2>1 DEF Within, TypeOK, Entry, Lesser
  <2> QED
    BY <2>2, <2>3, WindowShrinks DEF TypeOK
<1>6. CASE UNCHANGED vars
  BY <1>6 DEF vars, EveryInstant
<1> QED
  BY <1>1, <1>2, <1>3, <1>4, <1>5, <1>6 DEF Next

\* The limit holds at every instant: in any trailing window, at any instant, a
\* tenant's admissions vouch for no more than the limit (ratelimit.py:8-9).
THEOREM LimitHolds == Spec => []EveryInstant
<1>1. Init => EveryInstant
  <2> SUFFICES ASSUME Init, NEW t \in Tenants, NEW i \in 0 .. now
               PROVE  Total(Vouched(book, Within(book, t, i))) <= Limit
    BY DEF EveryInstant
  <2>1. Units(Vouched(book, Within(book, t, i))) = {}
    BY DEF Init, Units, Vouched, Within
  <2> QED
    BY <2>1, FS_EmptySet, LimitAssumption DEF Total
<1>2. Spec => []TypeOK
  BY TypeCorrect
<1> QED
  BY <1>1, <1>2, EveryInstantStep, PTL DEF Spec
=============================================================================
