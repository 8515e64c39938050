------------------------- MODULE RateLimiterProofs -------------------------
(***************************************************************************)
(* What the limiter keeps for every number of workers, requests, tenants,  *)
(* crashes and faults: nobody's transaction is left without a thread, the  *)
(* table is the history less what has left the window, a tenant's live     *)
(* admissions stay within the limit, and the advertised wait is the least. *)
(* With one worker the code implements the ledger of QuotaLedger.tla.      *)
(***************************************************************************)
EXTENDS RateLimiter, FiniteSetTheorems, SequenceTheorems, TLAPS

-----------------------------------------------------------------------------
(* The ledger's proofs: QuotaLedgerProofs!LimitHolds, and its lemmas on    *)
(* sums, which are about the same sums.                                    *)
Book == INSTANCE QuotaLedgerProofs WITH verdict <- [r \in Requests |-> Verdict(r)]

LEMMA BookFiniteIs == ASSUME NEW S, IsFiniteSet(S) PROVE Book!IsFiniteSet(S)
BY DEF IsFiniteSet, Book!IsFiniteSet

LEMMA BookTotalIs == ASSUME NEW f PROVE Book!Total(f) = Total(f)
<1>1. ASSUME NEW S PROVE Book!Cardinality(S) = Cardinality(S)
  BY DEF Cardinality, Book!Cardinality
<1> QED
  BY <1>1 DEF Total, Units, Book!Total, Book!Units

LEMMA SumAssumptions ==
  /\ Book!IsFiniteSet(Requests) /\ Window \in Nat \ {0} /\ Limit \in Nat
  /\ Estimates \subseteq Nat /\ Usages \subseteq Nat /\ MaxTime \in Nat
BY BoundsAssumption, RequestsAssumption, EstimatesAssumption, UsagesAssumption, WindowAssumption,
   LimitAssumption, BookFiniteIs

\* A total is a natural number.
LEMMA TotalNat ==
  ASSUME NEW S, IsFiniteSet(S), NEW f \in [S -> Nat]
  PROVE  Total(f) \in Nat
BY SumAssumptions, BookFiniteIs, BookTotalIs, Book!TotalNat

\* It grows with its terms and with its domain.
LEMMA TotalMonotone ==
  ASSUME NEW T, IsFiniteSet(T), NEW S \in SUBSET T,
         NEW f \in [S -> Nat], NEW g \in [T -> Nat],
         \A r \in S : f[r] <= g[r]
  PROVE  Total(f) <= Total(g)
BY SumAssumptions, BookFiniteIs, BookTotalIs, Book!TotalMonotone

\* Over two disjoint sets it is the sum of two totals.
LEMMA TotalSplit ==
  ASSUME NEW S, IsFiniteSet(S), NEW T, IsFiniteSet(T), S \cap T = {},
         NEW f \in [S \cup T -> Nat]
  PROVE  Total(f) = Total([r \in S |-> f[r]]) + Total([r \in T |-> f[r]])
BY SumAssumptions, BookFiniteIs, BookTotalIs, Book!TotalSplit

\* Adding one term adds its value.
LEMMA TotalAdd ==
  ASSUME NEW S, IsFiniteSet(S), NEW r, r \notin S,
         NEW f \in [S \cup {r} -> Nat]
  PROVE  Total(f) = Total([q \in S |-> f[q]]) + f[r]
BY SumAssumptions, BookFiniteIs, BookTotalIs, Book!TotalAdd

-----------------------------------------------------------------------------
(* The advertised wait.                                                    *)

\* A set of natural numbers has a least element, and a greatest when bounded.
LEMMA LeastNat ==
  ASSUME NEW S \in SUBSET Nat, S # {}
  PROVE  \E m \in S : \A x \in S : m <= x
<1>1. PICK m \in S : \A x \in S : <<x, m>> \notin OpToRel(<, Nat)
  BY NatLessThanWellFounded, WFMin
<1>2. \A x \in S : ~(x < m)
  BY <1>1 DEF OpToRel
<1> QED
  BY <1>2

LEMMA GreatestNat ==
  ASSUME NEW S \in SUBSET Nat, S # {}, NEW b \in Nat, \A x \in S : x <= b
  PROVE  \E m \in S : \A x \in S : x <= m
<1> DEFINE T == {b - x : x \in S}
<1>1. T \in SUBSET Nat /\ T # {}
  <2>1. \A x \in S : b - x \in Nat
    OBVIOUS
  <2>2. PICK x \in S : TRUE
    OBVIOUS
  <2>3. b - x \in T
    BY <2>2
  <2> QED
    BY <2>1, <2>3
<1>2. PICK k \in T : \A y \in T : k <= y
  BY <1>1, LeastNat
<1>3. PICK m \in S : k = b - m
  OBVIOUS
<1>4. \A x \in S : b - m <= b - x
  BY <1>2, <1>3
<1> QED
  BY <1>4


\* What the table charges at an instant is a natural number, and splits at any
\* later instant into what has expired by then and what is left.
LEMMA UsedSplits ==
  ASSUME NEW rows, IsFiniteSet(DOMAIN rows),
         \A r \in DOMAIN rows : rows[r].tokens \in Nat /\ rows[r].created \in Nat,
         NEW t, NEW s \in Nat, NEW c \in Int, c >= s - Window
  PROVE  /\ Used(rows, t, s) \in Nat
         /\ Freed(rows, t, s, c) \in Nat
         /\ Used(rows, t, c + Window) \in Nat
         /\ Used(rows, t, s) = Freed(rows, t, s, c) + Used(rows, t, c + Window)
<1> DEFINE L == Live(rows, t, s)
           F == {r \in L : rows[r].created <= c}
           R == Live(rows, t, c + Window)
           f == Tokens(rows, L)
<1>1. Window \in Nat
  BY WindowAssumption
<1>2. L \in SUBSET DOMAIN rows /\ F \in SUBSET DOMAIN rows /\ R \in SUBSET DOMAIN rows
  BY DEF Live
<1>3. L = F \cup R /\ F \cap R = {}
  BY <1>1 DEF Live
<1>4. IsFiniteSet(L) /\ IsFiniteSet(F) /\ IsFiniteSet(R)
  BY <1>2, FS_Subset
<1>5. /\ Tokens(rows, L) \in [L -> Nat]
      /\ Tokens(rows, F) \in [F -> Nat]
      /\ Tokens(rows, R) \in [R -> Nat]
  BY <1>2 DEF Tokens
<1>6. /\ [r \in F |-> f[r]] = Tokens(rows, F)
      /\ [r \in R |-> f[r]] = Tokens(rows, R)
  BY <1>3 DEF Tokens
<1> HIDE DEF L, F, R
<1>7. Total(f) = Total([r \in F |-> f[r]]) + Total([r \in R |-> f[r]])
  <2> HIDE DEF f
  <2>1. f \in [F \cup R -> Nat]
    BY <1>3, <1>5 DEF f
  <2> QED
    BY <1>3, <1>4, <2>1, TotalSplit
<1>8. Total(Tokens(rows, L)) \in Nat /\ Total(Tokens(rows, F)) \in Nat /\ Total(Tokens(rows, R)) \in Nat
  BY <1>4, <1>5, TotalNat
<1> QED
  BY <1>6, <1>7, <1>8 DEF Used, Freed, L, F, R

\* The wait a refused caller is told is the least one: it would fit then and at
\* no instant before; what can never fit is told one window.
LEMMA RetryAfterIsLeast ==
  ASSUME NEW rows, IsFiniteSet(DOMAIN rows), NEW b \in Nat,
         \A r \in DOMAIN rows : /\ rows[r].tokens \in Nat
                                /\ rows[r].created \in Nat /\ rows[r].created <= b,
         NEW t, NEW s \in Nat, NEW n \in Nat,
         Used(rows, t, s) + n > Limit
  PROVE  LET wait == RetryAfter(rows, t, s, n)
         IN  IF n > Limit THEN wait = Window
             ELSE /\ wait \in Nat
                  /\ Used(rows, t, s + wait) + n <= Limit
                  /\ \A d \in 0 .. wait - 1 : ~(Used(rows, t, s + d) + n <= Limit)
<1> DEFINE L == Live(rows, t, s)
           used == Used(rows, t, s)
           freed(c) == Freed(rows, t, s, c)
           shortfall == used + n - Limit
           stamps == {rows[r].created : r \in L}
           enough == {c \in stamps : freed(c) >= shortfall}
           oldest == CHOOSE c \in enough : \A d \in enough : c <= d
<1>1. Window \in Nat /\ Limit \in Nat
  BY WindowAssumption, LimitAssumption
<1>2. L \in SUBSET DOMAIN rows /\ \A r \in L : rows[r].created > s - Window
  BY DEF Live
<1>3. /\ stamps \in SUBSET Nat
      /\ \A c \in stamps : c <= b /\ c > s - Window
  BY <1>2
<1>4. ASSUME NEW c \in Int, c >= s - Window
      PROVE  /\ used \in Nat /\ freed(c) \in Nat
             /\ Used(rows, t, c + Window) = used - freed(c)
  <2>1. /\ Used(rows, t, s) \in Nat
        /\ Freed(rows, t, s, c) \in Nat
        /\ Used(rows, t, c + Window) \in Nat
        /\ Used(rows, t, s) = Freed(rows, t, s, c) + Used(rows, t, c + Window)
    BY <1>4, UsedSplits
  <2> QED
    BY <2>1
<1>5. used \in Nat
  <2>1. s - Window \in Int /\ s - Window >= s - Window
    BY <1>1
  <2> QED
    BY <2>1, <1>4
<1>6. shortfall \in Int /\ shortfall > 0
  BY <1>1, <1>5
<1>7. RetryAfter(rows, t, s, n) = IF enough = {} THEN Window ELSE oldest + Window - s
  BY <1>6 DEF RetryAfter
<1>8. ASSUME NEW c \in stamps
      PROVE  c \in Int /\ c >= s - Window /\ freed(c) \in Nat /\ freed(c) <= used
  <2>1. c \in Nat /\ c > s - Window
    BY <1>3
  <2>2. c \in Int /\ s - Window \in Int /\ c >= s - Window
    <3> HIDE DEF stamps
    <3> QED
      BY <1>1, <2>1
  <2>3. used \in Nat /\ freed(c) \in Nat /\ Used(rows, t, c + Window) = used - freed(c)
    BY <2>2, <1>4
  <2>4. Used(rows, t, c + Window) \in Nat
    BY <2>2, UsedSplits
  <2> QED
    BY <2>2, <2>3, <2>4
<1>9. CASE n > Limit
  <2>1. enough = {}
    BY <1>1, <1>5, <1>8, <1>9
  <2> QED
    BY <2>1, <1>7, <1>9
<1>10. CASE ~(n > Limit)
  <2>1. shortfall <= used
    BY <1>1, <1>5, <1>10
  <2>2. enough # {}
    <3>1. L # {}
      <4>1. ASSUME L = {}
            PROVE  used = 0
        <5>1. Units(Tokens(rows, L)) = {}
          BY <4>1 DEF Units, Tokens
        <5> QED
          BY <5>1, FS_EmptySet DEF Used, Total
      <4> QED
        BY <4>1, <1>5, <1>6, <2>1
    <3>2. stamps # {}
      BY <3>1
    <3>3. PICK m \in stamps : \A c \in stamps : c <= m
      BY <3>2, <1>3, GreatestNat
    <3>4. {r \in L : rows[r].created <= m} = L
      BY <3>3
    <3>5. freed(m) = used
      BY <3>4 DEF Freed, Used
    <3>6. m \in enough
      BY <3>5, <1>5, <1>6, <2>1
    <3> QED
      BY <3>6
  <2>3. oldest \in enough /\ \A d \in enough : oldest <= d
    <3>1. enough \in SUBSET Nat
      BY <1>3
    <3>2. \E c \in enough : \A d \in enough : c <= d
      BY <2>2, <3>1, LeastNat
    <3> QED
      BY <3>2
  <2> DEFINE wait == oldest + Window - s
  <2>4. RetryAfter(rows, t, s, n) = wait
    BY <1>7, <2>2
  <2>5. /\ oldest \in stamps /\ freed(oldest) >= shortfall
        /\ oldest \in Nat /\ oldest > s - Window
    BY <2>3, <1>3
  <2>6. wait \in Nat /\ s + wait = oldest + Window
    BY <2>5, <1>1
  <2>7. Used(rows, t, s + wait) + n <= Limit
    <3>1. used \in Nat /\ freed(oldest) \in Nat /\ Used(rows, t, oldest + Window) = used - freed(oldest)
      BY <2>5, <1>8, <1>4
    <3> HIDE DEF oldest, used, freed, wait
    <3>2. Used(rows, t, s + wait) = used - freed(oldest)
      BY <3>1, <2>6
    <3> QED
      BY <3>1, <3>2, <2>5, <1>1
  <2>8. ASSUME NEW d \in 0 .. wait - 1
        PROVE  ~(Used(rows, t, s + d) + n <= Limit)
    <3> DEFINE c == s + d - Window
               F == {r \in L : rows[r].created <= c}
    <3>1. c \in Int /\ c >= s - Window /\ c < oldest /\ c + Window = s + d
      BY <1>1, <2>5, <2>6
    <3>2. freed(c) \in Nat /\ Used(rows, t, s + d) = used - freed(c)
      <4> HIDE DEF c
      <4>1. freed(c) \in Nat /\ Used(rows, t, c + Window) = used - freed(c)
        BY <3>1, <1>4
      <4> QED
        BY <3>1, <4>1
    <3>3. freed(c) < shortfall
      <4>1. CASE F = {}
        <5>1. Units(Tokens(rows, F)) = {}
          BY <4>1 DEF Units, Tokens
        <5>2. freed(c) = 0
          BY <5>1, FS_EmptySet DEF Freed, Total
        <5> QED
          BY <5>2, <1>6
      <4>2. CASE F # {}
        <5> DEFINE S == {rows[r].created : r \in F}
        <5>1. S \in SUBSET Nat /\ S \subseteq stamps /\ \A x \in S : x <= b
          BY <1>3
        <5>2. S # {}
          BY <4>2
        <5>3. PICK m \in S : \A x \in S : x <= m
          BY <5>1, <5>2, GreatestNat
        <5>4. m <= c /\ m \in stamps /\ m \in Nat
          BY <5>1, <5>3
        <5>5. {r \in L : rows[r].created <= m} = F
          <6>1. \A r \in F : rows[r].created <= m
            BY <5>3
          <6>2. \A r \in L : rows[r].created <= m => rows[r].created <= c
            BY <5>4, <1>2, <3>1
          <6> QED
            BY <6>1, <6>2
        <5>6. freed(m) = freed(c)
          BY <5>5 DEF Freed
        <5>7. m < oldest
          BY <5>4, <3>1, <2>5
        <5>8. m \notin enough
          BY <5>4, <5>7, <2>3, <2>5
        <5>9. ~(freed(m) >= shortfall)
          BY <5>4, <5>8
        <5>10. freed(m) \in Nat
          BY <5>4, <1>8
        <5> QED
          BY <5>6, <5>9, <5>10, <1>6
      <4> QED
        BY <4>1, <4>2
    <3> HIDE DEF c, freed
    <3>4. shortfall = used + n - Limit
      OBVIOUS
    <3> HIDE DEF used, shortfall
    <3> QED
      BY <3>2, <3>3, <3>4, <1>1, <1>5, <1>6
  <2> HIDE DEF wait
  <2> QED
    BY <1>10, <2>4, <2>6, <2>7, <2>8
<1> QED
  BY <1>9, <1>10

-----------------------------------------------------------------------------
(* The queue for a worker's lock.                                          *)

\* A call that queues comes last: it passes nobody.
LEMMA JoinLine ==
  ASSUME NEW S, NEW s \in Seq(S), IsInjective(s), NEW e \in S, e \notin ToSet(s)
  PROVE  LET t == Append(s, e)
         IN  /\ t \in Seq(S)
             /\ IsInjective(t)
             /\ ToSet(t) = ToSet(s) \cup {e}
             /\ s # <<>> => Head(t) = Head(s)
             /\ \A i \in DOMAIN t, j \in DOMAIN t :
                   i < j => /\ i \in DOMAIN s /\ t[i] = s[i]
                            /\ t[j] = e \/ (j \in DOMAIN s /\ t[j] = s[j])
<1> DEFINE t == Append(s, e)
<1>1. /\ Len(s) \in Nat
      /\ DOMAIN s = 1 .. Len(s)
      /\ \A i \in DOMAIN s : s[i] \in S
  BY LenProperties, ElementOfSeq
<1>2. /\ t \in Seq(S)
      /\ Len(t) = Len(s) + 1
      /\ \A i \in 1 .. Len(s) : t[i] = s[i]
      /\ t[Len(s) + 1] = e
  BY AppendProperties
<1>3. DOMAIN t = 1 .. Len(s) + 1
  BY <1>2, LenProperties
<1>4. \A i \in DOMAIN s : s[i] # e
  BY DEF ToSet
<1> HIDE DEF t
<1>5. IsInjective(t)
  BY <1>1, <1>2, <1>3, <1>4 DEF IsInjective
<1>6. ToSet(t) = ToSet(s) \cup {e}
  <2>1. ASSUME NEW i \in DOMAIN t
        PROVE  t[i] \in ToSet(s) \cup {e}
    BY <1>1, <1>2, <1>3 DEF ToSet
  <2>2. ASSUME NEW x \in ToSet(s) \cup {e}
        PROVE  \E i \in DOMAIN t : x = t[i]
    BY <1>1, <1>2, <1>3 DEF ToSet
  <2> QED
    BY <2>1, <2>2 DEF ToSet
<1>7. s # <<>> => Head(t) = Head(s)
  BY HeadTailAppend DEF t
<1>8. \A i \in DOMAIN t, j \in DOMAIN t :
         i < j => /\ i \in DOMAIN s /\ t[i] = s[i]
                  /\ t[j] = e \/ (j \in DOMAIN s /\ t[j] = s[j])
  BY <1>1, <1>2, <1>3
<1> QED
  BY <1>2, <1>5, <1>6, <1>7, <1>8 DEF t

\* A call that leaves, from wherever it stands, changes nobody's order.
LEMMA LeaveLine ==
  ASSUME NEW S, NEW s \in Seq(S), IsInjective(s), NEW e
  PROVE  LET t == RemoveFirst(s, e)
         IN  /\ t \in Seq(S)
             /\ IsInjective(t)
             /\ ToSet(t) = ToSet(s) \ {e}
             /\ s # <<>> /\ Head(s) # e => Head(t) = Head(s)
             /\ \A i \in DOMAIN t, j \in DOMAIN t :
                   i < j => \E k \in DOMAIN s, l \in DOMAIN s :
                               k < l /\ t[i] = s[k] /\ t[j] = s[l]
<1> DEFINE t == RemoveFirst(s, e)
<1>1. /\ Len(s) \in Nat
      /\ DOMAIN s = 1 .. Len(s)
      /\ \A i \in DOMAIN s : s[i] \in S
  BY LenProperties, ElementOfSeq
<1>2. CASE ~ \E i \in 1 .. Len(s) : s[i] = e
  <2>1. t = s
    BY <1>2 DEF RemoveFirst
  <2>2. e \notin ToSet(s)
    BY <1>1, <1>2 DEF ToSet
  <2> HIDE DEF t
  <2> QED
    BY <2>1, <2>2 DEF t
<1>3. ASSUME NEW k \in 1 .. Len(s), s[k] = e
      PROVE  LET u == RemoveFirst(s, e)
             IN  /\ u \in Seq(S)
                 /\ Len(u) = Len(s) - 1
                 /\ \A i \in 1 .. Len(s) - 1 : u[i] = IF i < k THEN s[i] ELSE s[i + 1]
  <2> DEFINE I == {i \in 1 .. Len(s) : s[i] = e}
             a == SubSeq(s, 1, k - 1)
             b == SubSeq(s, k + 1, Len(s))
  <2>1. I = {k}
    BY <1>1, <1>3 DEF IsInjective
  <2>2. Min(I) = k
    BY <2>1 DEF Min
  <2>3. SelectInSeq(s, LAMBDA v : v = e) = k
    BY <2>1, <2>2 DEF SelectInSeq
  <2>4. t = a \o b
    BY <1>3, <2>3 DEF RemoveFirst, RemoveAt
  <2>5. /\ a \in Seq(S)
        /\ Len(a) = k - 1
        /\ \A i \in 1 .. k - 1 : a[i] = s[i]
    BY <1>1, SubSeqProperties
  <2>6. /\ b \in Seq(S)
        /\ Len(b) = Len(s) - k
        /\ \A i \in 1 .. Len(s) - k : b[i] = s[k + i]
    <3> DEFINE m == k + 1
    <3>1. m \in Int /\ Len(s) \in Int /\ \A i \in m .. Len(s) : s[i] \in S
      BY <1>1
    <3>2. /\ SubSeq(s, m, Len(s)) \in Seq(S)
          /\ Len(SubSeq(s, m, Len(s))) = IF m <= Len(s) THEN Len(s) - m + 1 ELSE 0
          /\ \A i \in 1 .. Len(s) - m + 1 : SubSeq(s, m, Len(s))[i] = s[m + i - 1]
      <4> HIDE DEF m
      <4> QED
        BY <3>1, SubSeqProperties
    <3>3. ASSUME NEW i \in 1 .. Len(s) - k
          PROVE  b[i] = s[k + i]
      <4>1. i \in 1 .. Len(s) - m + 1 /\ m + i - 1 = k + i
        BY <1>1
      <4>2. b[i] = s[m + i - 1]
        BY <3>2, <4>1
      <4> QED
        BY <4>1, <4>2
    <3>4. Len(b) = Len(s) - k
      <4>1. k \in Int /\ Len(s) \in Int /\ k <= Len(s)
        BY <1>1
      <4>2. CASE k = Len(s)
        BY <4>1, <4>2, SubSeqEmpty
      <4>3. CASE k < Len(s)
        <5>1. m <= Len(s) /\ Len(s) - m + 1 = Len(s) - k
          BY <4>1, <4>3
        <5> QED
          BY <5>1, <3>2
      <4> QED
        BY <4>1, <4>2, <4>3
    <3> QED
      BY <3>2, <3>3, <3>4
  <2> HIDE DEF t, a, b
  <2>7. /\ t \in Seq(S)
        /\ Len(t) = Len(a) + Len(b)
        /\ \A i \in 1 .. Len(a) + Len(b) :
              t[i] = IF i <= Len(a) THEN a[i] ELSE b[i - Len(a)]
    BY <2>4, <2>5, <2>6, ConcatProperties
  <2>8. Len(t) = Len(s) - 1
    BY <1>1, <2>5, <2>6, <2>7
  <2>9. ASSUME NEW i \in 1 .. Len(s) - 1
        PROVE  t[i] = IF i < k THEN s[i] ELSE s[i + 1]
    BY <1>1, <2>5, <2>6, <2>7, SMTT(40)
  <2> QED
    BY <2>7, <2>8, <2>9 DEF t
<1>4. CASE \E i \in 1 .. Len(s) : s[i] = e
  <2>1. PICK k \in 1 .. Len(s) : s[k] = e
    BY <1>4
  <2>2. /\ t \in Seq(S)
        /\ Len(t) = Len(s) - 1
        /\ \A i \in 1 .. Len(s) - 1 : t[i] = IF i < k THEN s[i] ELSE s[i + 1]
    BY <2>1, <1>3
  <2> HIDE DEF t
  <2>3. DOMAIN t = 1 .. Len(s) - 1
    BY <2>2, LenProperties
  <2>4. \A i \in DOMAIN s : s[i] = e => i = k
    BY <1>1, <2>1 DEF IsInjective
  <2>5. IsInjective(t)
    BY <1>1, <2>2, <2>3, SMTT(40) DEF IsInjective
  <2>6. ToSet(t) = ToSet(s) \ {e}
    <3>1. ASSUME NEW i \in DOMAIN t
          PROVE  t[i] \in ToSet(s) \ {e}
      BY <1>1, <2>1, <2>2, <2>3, <2>4 DEF ToSet
    <3>2. ASSUME NEW i \in DOMAIN s, s[i] # e
          PROVE  \E j \in DOMAIN t : t[j] = s[i]
      <4>1. CASE i < k
        BY <4>1, <1>1, <2>1, <2>2, <2>3
      <4>2. CASE i > k
        <5>1. i - 1 \in DOMAIN t /\ t[i - 1] = s[i]
          BY <4>2, <1>1, <2>1, <2>2, <2>3
        <5> QED
          BY <5>1
      <4> QED
        BY <3>2, <4>1, <4>2, <1>1, <2>1
    <3> QED
      BY <3>1, <3>2 DEF ToSet
  <2>7. ASSUME s # <<>>, Head(s) # e
        PROVE  Head(t) = Head(s)
    <3>1. Head(s) = s[1]
      BY <2>7
    <3>2. k # 1 /\ t[1] = s[1] /\ t # <<>>
      BY <3>1, <2>7, <1>1, <2>1, <2>2, <2>3
    <3> QED
      BY <3>1, <3>2, <2>2
  <2>8. ASSUME NEW i \in DOMAIN t, NEW j \in DOMAIN t, i < j
        PROVE  \E m \in DOMAIN s, l \in DOMAIN s :
                  m < l /\ t[i] = s[m] /\ t[j] = s[l]
    <3> DEFINE at(x) == IF x < k THEN x ELSE x + 1
    <3>1. /\ at(i) \in DOMAIN s /\ t[i] = s[at(i)]
          /\ at(j) \in DOMAIN s /\ t[j] = s[at(j)]
          /\ at(i) < at(j)
      BY <2>8, <1>1, <2>1, <2>2, <2>3
    <3> QED
      BY <3>1
  <2> QED
    BY <2>2, <2>5, <2>6, <2>7, <2>8 DEF t
<1> QED
  BY <1>2, <1>4


-----------------------------------------------------------------------------
(* The inductive invariant.                                                *)

InLine(r) == phase[r] \in {"reserve", "settle", "release"}

\* Types, and that a settlement carries a cost some provider reported.
Shape ==
    /\ now \in 0 .. MaxTime
    /\ crashes \in 0 .. MaxCrashes
    /\ phase \in [Requests -> Phases]
    /\ line \in [Workers -> Seq(Requests)]
    /\ DOMAIN db \subseteq Requests /\ \A r \in DOMAIN db : db[r] \in Row
    /\ DOMAIN ask = {r \in Requests : phase[r] # "idle"}
    /\ \A r \in DOMAIN ask :
          /\ ask[r] \in [worker : Workers, tenant : Tenants, estimate : Estimates,
                         stamp : 0 .. now, usage : Usages \cup {0}]
          /\ phase[r] \in {"settle", "orphan"} => ask[r].usage \in Usages

\* A call stands once in the line of its own worker while it is served.
Queues ==
    \A w \in Workers :
        /\ IsInjective(line[w])
        /\ \A r \in Requests : r \in ToSet(line[w]) <=> InLine(r) /\ ask[r].worker = w

\* The phases in which a request's admission stands for certain.
Standing == {"held", "settle", "orphan", "unsettled", "release", "settled"}

\* The history holds the requests that were admitted and not given back, at
\* their estimate until they are settled.
Entries ==
    /\ DOMAIN book \subseteq Requests
    /\ \A r \in Requests : phase[r] \in Standing => r \in DOMAIN book
    /\ \A r \in DOMAIN book :
          /\ phase[r] \in Standing \cup {"lost"}
          /\ book[r] \in [tenant : Tenants, estimate : Nat, tokens : Nat, created : Nat]
          /\ book[r].tenant = ask[r].tenant
          /\ book[r].estimate = ask[r].estimate
          /\ book[r].created = ask[r].stamp
          /\ phase[r] # "settled" => book[r].tokens = book[r].estimate

Begun(r) == [owner |-> r, step |-> "begun", rows |-> db, wait |-> 0]

\* There is one transaction at most.  It is on the table as last committed,
\* its body has run once or not yet, and a thread of its worker will end it.
Transactions ==
    /\ \A w, v \in DOMAIN txn : w = v
    /\ \A w \in DOMAIN txn :
          /\ w \in Workers
          /\ \E r \in Requests : /\ HasThread(r)
                                 /\ ask[r].worker = w
                                 /\ txn[w] \in {Begun(r), Work(r, Begun(r))}

IInv == Shape /\ Queues /\ Entries /\ Transactions /\ TableIsBook


-----------------------------------------------------------------------------
(* The open transaction.                                                   *)

\* What the statements of each call make of a transaction on the table.
LEMMA WorkFields ==
  ASSUME NEW r
  PROVE  LET t == Work(r, Begun(r))
             a == ask[r]
             kept == Evict(db, a.stamp)
             fits == Used(kept, a.tenant, a.stamp) + a.estimate > Limit
         IN  /\ phase[r] = "reserve" /\ fits =>
                   /\ t.owner = r /\ t.step = "refuse" /\ t.rows = kept
                   /\ t.wait = RetryAfter(kept, a.tenant, a.stamp, a.estimate)
             /\ phase[r] = "reserve" /\ ~fits =>
                   /\ t.owner = r /\ t.step = "admit"
                   /\ t.rows = Insert(kept, r, [tenant |-> a.tenant, tokens |-> a.estimate,
                                                created |-> a.stamp, state |-> "reserved"])
             /\ phase[r] \in {"settle", "orphan"} =>
                   /\ t.owner = r /\ t.step = "done"
                   /\ t.rows = [q \in DOMAIN db |->
                                  IF q = r THEN [db[q] EXCEPT !.tokens = a.usage, !.state = "settled"]
                                  ELSE db[q]]
             /\ phase[r] = "release" =>
                   t.owner = r /\ t.step = "done" /\ t.rows = Delete(db, r)
<1> DEFINE a == ask[r]
           kept == Evict(db, a.stamp)
<1>1. Begun(r).rows = db /\ Begun(r).owner = r
  BY DEF Begun
<1>2. CASE phase[r] = "reserve"
  <2>1. Work(r, Begun(r)) = ReserveBody(r, Begun(r))
    BY <1>2 DEF Work
  <2> QED
    BY <1>2, <2>1 DEF ReserveBody, Begun
<1>3. CASE phase[r] \in {"settle", "orphan"}
  <2>1. Work(r, Begun(r)) = SettleBody(r, Begun(r))
    BY <1>3 DEF Work
  <2> QED
    BY <1>3, <2>1, ZenonT(40) DEF SettleBody, Begun
<1>4. CASE phase[r] = "release"
  <2>1. Work(r, Begun(r)) = ReleaseBody(r, Begun(r))
    BY <1>4 DEF Work
  <2> QED
    BY <1>4, <2>1 DEF ReleaseBody, Begun
<1> QED
  BY <1>2, <1>3, <1>4

\* The work of a call depends on the table and on the call alone; a settlement
\* whose caller has gone does the same.
LEMMA WorkFrame ==
  ASSUME NEW r, db' = db, ask'[r] = ask[r],
         phase'[r] = phase[r] \/ (phase[r] = "settle" /\ phase'[r] = "orphan")
  PROVE  Begun(r)' = Begun(r) /\ Work(r, Begun(r))' = Work(r, Begun(r))
<1>1. Begun(r)' = Begun(r)
  BY DEF Begun
<1>2. CASE phase'[r] = phase[r]
  BY <1>1, <1>2 DEF Work, ReserveBody, SettleBody, ReleaseBody
<1>3. CASE phase[r] = "settle" /\ phase'[r] = "orphan"
  BY <1>1, <1>3 DEF Work, ReserveBody, SettleBody, ReleaseBody
<1> QED
  BY <1>1, <1>2, <1>3

\* A request that has a thread is being served.
LEMMA ThreadPhase ==
  ASSUME NEW r, HasThread(r)
  PROVE  phase[r] \in {"reserve", "settle", "release", "orphan"}
BY DEF HasThread

\* The owner of a transaction, and what its transaction can look like.
LEMMA OwnerKnown ==
  ASSUME Transactions, NEW w \in DOMAIN txn
  PROVE  /\ w \in Workers /\ DOMAIN txn = {w}
         /\ \E r \in Requests :
               /\ txn[w].owner = r /\ HasThread(r) /\ ask[r].worker = w
               /\ txn[w] = Begun(r) \/ (txn[w] = Work(r, Begun(r)) /\ txn[w].step # "begun")
<1>1. PICK r \in Requests : /\ HasThread(r)
                            /\ ask[r].worker = w
                            /\ txn[w] \in {Begun(r), Work(r, Begun(r))}
  BY DEF Transactions
<1>2. txn[w].owner = r /\ (txn[w] = Work(r, Begun(r)) => txn[w].step # "begun")
  <2>1. CASE txn[w] = Begun(r)
    <3>1. Begun(r).owner = r
      BY DEF Begun
    <3>2. phase[r] \in {"reserve", "settle", "release", "orphan"}
      BY <1>1, ThreadPhase
    <3>3. Work(r, Begun(r)).step # "begun"
      BY <3>2, WorkFields
    <3> QED
      BY <2>1, <3>1, <3>3
  <2>2. CASE txn[w] = Work(r, Begun(r))
    <3>1. phase[r] \in {"reserve", "settle", "release", "orphan"}
      BY <1>1, ThreadPhase
    <3>2. Work(r, Begun(r)).owner = r /\ Work(r, Begun(r)).step # "begun"
      BY <3>1, WorkFields
    <3> QED
      BY <2>2, <3>2
  <2> QED
    BY <1>1, <2>1, <2>2
<1>3. w \in Workers /\ DOMAIN txn = {w}
  BY DEF Transactions
<1> QED
  BY <1>1, <1>2, <1>3

\* The transaction of a request that owns one.
LEMMA OwnedBy ==
  ASSUME Transactions, NEW r, Owns(r)
  PROVE  LET w == ask[r].worker
         IN  /\ r \in Requests /\ HasThread(r) /\ w \in Workers
             /\ DOMAIN txn = {w} /\ txn[w].owner = r
             /\ txn[w] = Begun(r) \/ (txn[w] = Work(r, Begun(r)) /\ txn[w].step # "begun")
<1>1. PICK w \in DOMAIN txn : txn[w].owner = r
  BY DEF Owns
<1> QED
  BY <1>1, OwnerKnown, ZenonT(40)

\* A step that leaves the table and the transactions alone, and its owner at
\* work, keeps what is known of the transaction.
LEMMA TransactionsFrame ==
  ASSUME Transactions, txn' = txn, db' = db,
         \A r \in Requests :
            Owns(r) => /\ HasThread(r)' /\ ask'[r] = ask[r]
                       /\ phase'[r] = phase[r] \/ (phase[r] = "settle" /\ phase'[r] = "orphan")
  PROVE  Transactions'
<1>1. \A w, v \in DOMAIN txn' : w = v
  BY DEF Transactions
<1>2. ASSUME NEW w \in DOMAIN txn'
      PROVE  /\ w \in Workers
             /\ \E r \in Requests : /\ HasThread(r)'
                                    /\ ask'[r].worker = w
                                    /\ txn'[w] \in {Begun(r)', Work(r, Begun(r))'}
  <2>1. w \in DOMAIN txn
    BY <1>2
  <2>2. /\ w \in Workers
        /\ \E r \in Requests : /\ txn[w].owner = r /\ ask[r].worker = w
                               /\ txn[w] = Begun(r) \/ txn[w] = Work(r, Begun(r))
    BY <2>1, OwnerKnown
  <2>3. PICK r \in Requests : /\ txn[w].owner = r /\ ask[r].worker = w
                              /\ txn[w] = Begun(r) \/ txn[w] = Work(r, Begun(r))
    BY <2>2
  <2>4. Owns(r)
    BY <2>1, <2>3 DEF Owns
  <2>5. /\ HasThread(r)' /\ ask'[r] = ask[r]
        /\ phase'[r] = phase[r] \/ (phase[r] = "settle" /\ phase'[r] = "orphan")
    BY <2>3, <2>4
  <2>6. Begun(r)' = Begun(r) /\ Work(r, Begun(r))' = Work(r, Begun(r))
    BY <2>5, WorkFrame
  <2> QED
    BY <2>2, <2>3, <2>5, <2>6
<1> QED
  BY <1>1, <1>2 DEF Transactions


-----------------------------------------------------------------------------
(* Frames: what a step keeps that touches one request.                     *)

\* A request joins its worker's line: the line stays one, and whoever has a
\* thread keeps it.
LEMMA JoinKeeps ==
  ASSUME Shape, Queues,
         NEW r \in Requests, NEW w \in Workers, ~InLine(r),
         Queue(w, r), ask'[r].worker = w,
         NEW p \in {"reserve", "settle", "release"}, phase' = [phase EXCEPT ![r] = p],
         \A q \in Requests \ {r} : phase[q] # "idle" => ask'[q] = ask[q]
  PROVE  /\ line' \in [Workers -> Seq(Requests)]
         /\ Queues'
         /\ \A q \in Requests \ {r} : HasThread(q) => HasThread(q)'
<1> DEFINE s == line[w]
           t == Append(s, r)
<1>1. s \in Seq(Requests) /\ IsInjective(s) /\ r \notin ToSet(s)
  BY DEF Shape, Queues
<1>2. /\ t \in Seq(Requests)
      /\ IsInjective(t)
      /\ ToSet(t) = ToSet(s) \cup {r}
      /\ s # <<>> => Head(t) = Head(s)
  BY <1>1, JoinLine
<1>3. line \in [Workers -> Seq(Requests)] /\ line' = [line EXCEPT ![w] = t]
  BY DEF Shape, Queue
<1> HIDE DEF t
<1>4. line' \in [Workers -> Seq(Requests)]
  BY <1>2, <1>3
<1>5. \A v \in Workers : line'[v] = IF v = w THEN t ELSE line[v]
  BY <1>3
<1>6. /\ phase'[r] = p
      /\ \A q \in Requests \ {r} : phase'[q] = phase[q]
  BY DEF Shape
<1>7. ASSUME NEW v \in Workers
      PROVE  /\ IsInjective(line'[v])
             /\ \A q \in Requests : q \in ToSet(line'[v]) <=> InLine(q)' /\ ask'[q].worker = v
  <2>1. IsInjective(line'[v])
    BY <1>2, <1>5 DEF Queues
  <2>2. ASSUME NEW q \in Requests, q # r
        PROVE  q \in ToSet(line'[v]) <=> InLine(q)' /\ ask'[q].worker = v
    <3>1. q \in ToSet(line'[v]) <=> q \in ToSet(line[v])
      BY <2>2, <1>2, <1>5
    <3>2. InLine(q)' <=> InLine(q)
      BY <2>2, <1>6 DEF InLine
    <3>3. InLine(q) => ask'[q] = ask[q]
      BY <2>2 DEF InLine
    <3> QED
      BY <3>1, <3>2, <3>3 DEF Queues
  <2>3. r \in ToSet(line'[v]) <=> InLine(r)' /\ ask'[r].worker = v
    <3>1. InLine(r)'
      BY <1>6 DEF InLine
    <3>2. CASE v = w
      BY <3>1, <3>2, <1>2, <1>5
    <3>3. CASE v # w
      BY <3>1, <3>3, <1>5 DEF Queues
    <3> QED
      BY <3>2, <3>3
  <2> QED
    BY <2>1, <2>2, <2>3
<1>8. Queues'
  BY <1>7 DEF Queues
<1>9. ASSUME NEW q \in Requests \ {r}, HasThread(q)
      PROVE  HasThread(q)'
  <2>1. phase'[q] = phase[q]
    BY <1>6
  <2>2. CASE phase[q] = "orphan"
    BY <2>1, <2>2 DEF HasThread
  <2>3. CASE InLine(q) /\ Head(line[ask[q].worker]) = q
    <3>1. ask'[q] = ask[q]
      BY <2>3 DEF InLine
    <3>2. ask[q].worker \in Workers
      BY <2>3 DEF Shape, InLine
    <3>3. q \in ToSet(line[ask[q].worker])
      BY <2>3, <3>2 DEF Queues
    <3>4. line[ask[q].worker] # <<>>
      BY <3>3 DEF ToSet
    <3>5. Head(line'[ask[q].worker]) = Head(line[ask[q].worker])
      BY <3>2, <3>4, <1>2, <1>5
    <3> QED
      BY <2>1, <2>3, <3>1, <3>5 DEF HasThread, InLine
  <2> QED
    BY <1>9, <2>2, <2>3 DEF HasThread, InLine
<1> QED
  BY <1>4, <1>8, <1>9

\* A request leaves its worker's line, or was in none.
LEMMA LeaveKeeps ==
  ASSUME Shape, Queues,
         NEW r \in Requests, phase[r] # "idle",
         Leave(ask[r].worker, r), ask' = ask,
         NEW p, p \notin {"reserve", "settle", "release"}, phase' = [phase EXCEPT ![r] = p]
  PROVE  /\ line' \in [Workers -> Seq(Requests)]
         /\ Queues'
         /\ \A q \in Requests \ {r} : HasThread(q) => HasThread(q)'
<1> DEFINE w == ask[r].worker
           s == line[w]
           t == RemoveFirst(s, r)
<1>1. w \in Workers
  BY DEF Shape
<1>2. s \in Seq(Requests) /\ IsInjective(s)
  BY <1>1 DEF Shape, Queues
<1>3. /\ t \in Seq(Requests)
      /\ IsInjective(t)
      /\ ToSet(t) = ToSet(s) \ {r}
      /\ s # <<>> /\ Head(s) # r => Head(t) = Head(s)
  BY <1>2, LeaveLine
<1>4. line \in [Workers -> Seq(Requests)] /\ line' = [line EXCEPT ![w] = t]
  BY DEF Shape, Leave
<1> HIDE DEF t, w
<1>5. line' \in [Workers -> Seq(Requests)]
  BY <1>3, <1>4
<1>6. \A v \in Workers : line'[v] = IF v = w THEN t ELSE line[v]
  BY <1>4
<1>7. /\ phase'[r] = p
      /\ \A q \in Requests \ {r} : phase'[q] = phase[q]
  BY DEF Shape
<1>8. ASSUME NEW v \in Workers
      PROVE  /\ IsInjective(line'[v])
             /\ \A q \in Requests : q \in ToSet(line'[v]) <=> InLine(q)' /\ ask'[q].worker = v
  <2>1. IsInjective(line'[v])
    BY <1>3, <1>6 DEF Queues
  <2>2. ASSUME NEW q \in Requests, q # r
        PROVE  q \in ToSet(line'[v]) <=> InLine(q)' /\ ask'[q].worker = v
    <3>1. q \in ToSet(line'[v]) <=> q \in ToSet(line[v])
      BY <2>2, <1>3, <1>6
    <3>2. InLine(q)' <=> InLine(q)
      BY <2>2, <1>7 DEF InLine
    <3> QED
      BY <3>1, <3>2 DEF Queues
  <2>3. r \notin ToSet(line'[v]) /\ ~InLine(r)'
    <3>1. ~InLine(r)'
      BY <1>7 DEF InLine
    <3>2. CASE v = w
      BY <3>1, <3>2, <1>3, <1>6
    <3>3. CASE v # w
      BY <3>1, <3>3, <1>6 DEF Queues, w
    <3> QED
      BY <3>2, <3>3
  <2> QED
    BY <2>1, <2>2, <2>3
<1>9. Queues'
  BY <1>8 DEF Queues
<1>10. ASSUME NEW q \in Requests \ {r}, HasThread(q)
       PROVE  HasThread(q)'
  <2>1. phase'[q] = phase[q]
    BY <1>7
  <2>2. CASE phase[q] = "orphan"
    BY <2>1, <2>2 DEF HasThread
  <2>3. CASE InLine(q) /\ Head(line[ask[q].worker]) = q
    <3>1. ask[q].worker \in Workers
      BY <2>3 DEF Shape, InLine
    <3>2. q \in ToSet(line[ask[q].worker])
      BY <2>3, <3>1 DEF Queues
    <3>3. line[ask[q].worker] # <<>>
      BY <3>2 DEF ToSet
    <3>4. Head(line'[ask[q].worker]) = Head(line[ask[q].worker])
      BY <2>3, <3>1, <3>3, <1>3, <1>6
    <3> QED
      BY <2>1, <2>3, <3>4 DEF HasThread, InLine
  <2> QED
    BY <1>10, <2>2, <2>3 DEF HasThread, InLine
<1> QED
  BY <1>5, <1>9, <1>10

\* A step without a commit keeps the history, when it takes no admitted
\* request out of the phases in which the admission stands.
LEMMA EntriesFrame ==
  ASSUME Entries, book' = book,
         \A q \in DOMAIN book : /\ phase[q] \in Standing => phase'[q] \in Standing \cup {"lost"}
                                /\ phase[q] = "lost" => phase'[q] = "lost"
                                /\ phase'[q] # "settled" => phase[q] # "settled"
                                /\ ask'[q].tenant = ask[q].tenant
                                /\ ask'[q].estimate = ask[q].estimate
                                /\ ask'[q].stamp = ask[q].stamp,
         \A q \in Requests : phase'[q] \in Standing => phase[q] \in Standing
  PROVE  Entries'
BY DEF Entries

\* A step without a commit keeps the table, whatever time passes.
LEMMA TableFrame ==
  ASSUME TableIsBook, Entries, Shape, book' = book, db' = db, now' \in Nat, now <= now',
         \A q \in Requests : phase'[q] = "settled" <=> phase[q] = "settled"
  PROVE  TableIsBook'
<1>1. /\ DOMAIN book \subseteq Requests
      /\ now \in Nat
      /\ \A q \in DOMAIN book : book[q].created \in Nat
  BY BoundsAssumption DEF Entries, Shape
<1>2. \A q \in DOMAIN book : Expired(book[q].created) => Expired(book[q].created)'
  BY <1>1, WindowAssumption DEF Expired
<1> QED
  BY <1>1, <1>2 DEF TableIsBook


-----------------------------------------------------------------------------
(* The invariant is kept, action by action.                                *)

LEMMA InvInitially == Init => IInv
<1> SUFFICES ASSUME Init
             PROVE  IInv
  OBVIOUS
<1> USE DEF Init
<1>1. Shape
  BY BoundsAssumption DEF Shape, Phases
<1>2. Queues
  BY DEF Queues, IsInjective, ToSet, InLine
<1>3. Entries
  BY DEF Entries, Standing
<1>4. Transactions
  BY DEF Transactions
<1>5. TableIsBook
  BY DEF TableIsBook
<1> QED
  BY <1>1, <1>2, <1>3, <1>4, <1>5 DEF IInv

\* Time passes.
LEMMA TickKeeps == IInv /\ Tick => IInv'
<1> SUFFICES ASSUME IInv, Tick
             PROVE  IInv'
  OBVIOUS
<1> USE DEF IInv, Tick
<1>1. now \in Nat /\ now' \in Nat /\ now <= now'
  BY BoundsAssumption DEF Shape
<1>2. Shape'
  <2>1. 0 .. now \subseteq 0 .. now' /\ now' \in 0 .. MaxTime
    BY <1>1, BoundsAssumption
  <2>2. ASSUME NEW r \in DOMAIN ask
        PROVE  ask[r] \in [worker : Workers, tenant : Tenants, estimate : Estimates,
                           stamp : 0 .. now', usage : Usages \cup {0}]
    BY <2>1 DEF Shape
  <2> QED
    BY <2>1, <2>2 DEF Shape
<1>3. Queues'
  BY DEF Queues, InLine
<1>4. Entries'
  BY DEF Entries
<1>5. Transactions'
  <2>1. \A r \in Requests : Owns(r) => HasThread(r)
    BY OwnedBy
  <2>2. \A r \in Requests : HasThread(r)' <=> HasThread(r)
    BY DEF HasThread
  <2> QED
    BY <2>1, <2>2, TransactionsFrame
<1>6. TableIsBook'
  BY <1>1, TableFrame
<1> QED
  BY <1>2, <1>3, <1>4, <1>5, <1>6

\* A call of the limiter that queues for the lock.
LEMMA JoinStep ==
  ASSUME IInv,
         NEW r \in Requests, NEW w \in Workers, phase[r] \in {"idle", "held", "unsettled"},
         Queue(w, r), ask'[r].worker = w,
         NEW p \in {"reserve", "settle", "release"}, phase' = [phase EXCEPT ![r] = p],
         p = "reserve" <=> phase[r] = "idle",
         \A q \in Requests \ {r} : phase[q] # "idle" => ask'[q] = ask[q],
         phase[r] # "idle" => /\ ask'[r].tenant = ask[r].tenant
                              /\ ask'[r].estimate = ask[r].estimate
                              /\ ask'[r].stamp = ask[r].stamp,
         UNCHANGED <<now, db, txn, book>>
  PROVE  /\ line' \in [Workers -> Seq(Requests)]
         /\ Queues' /\ Entries' /\ Transactions' /\ TableIsBook'
<1> USE DEF IInv
<1>1. ~InLine(r)
  BY DEF InLine
<1>2. /\ line' \in [Workers -> Seq(Requests)]
      /\ Queues'
      /\ \A q \in Requests \ {r} : HasThread(q) => HasThread(q)'
  BY <1>1, JoinKeeps
<1>3. /\ phase'[r] = p
      /\ \A q \in Requests \ {r} : phase'[q] = phase[q]
  BY DEF Shape
<1>4. Entries'
  <2>1. \A q \in DOMAIN book : q \in Requests /\ phase[q] # "idle"
    BY DEF Entries, Standing
  <2>2. \A q \in DOMAIN book : /\ phase[q] \in Standing => phase'[q] \in Standing \cup {"lost"}
                               /\ phase[q] = "lost" => phase'[q] = "lost"
                               /\ phase'[q] # "settled" => phase[q] # "settled"
                               /\ ask'[q].tenant = ask[q].tenant
                               /\ ask'[q].estimate = ask[q].estimate
                               /\ ask'[q].stamp = ask[q].stamp
    BY <2>1, <1>3 DEF Standing
  <2>3. \A q \in Requests : phase'[q] \in Standing => phase[q] \in Standing
    BY <1>3 DEF Standing
  <2> QED
    BY <2>2, <2>3, EntriesFrame
<1>5. Transactions'
  <2>1. ASSUME NEW q \in Requests, Owns(q)
        PROVE  HasThread(q)' /\ ask'[q] = ask[q] /\ phase'[q] = phase[q]
    <3>1. HasThread(q)
      BY <2>1, OwnedBy
    <3>2. phase[q] \in {"reserve", "settle", "release", "orphan"}
      BY <3>1, ThreadPhase
    <3>3. q # r
      BY <3>2
    <3> QED
      BY <3>1, <3>2, <3>3, <1>2, <1>3
  <2> QED
    BY <2>1, TransactionsFrame
<1>6. TableIsBook'
  <2>1. now' \in Nat /\ now <= now'
    BY BoundsAssumption DEF Shape
  <2>2. \A q \in Requests : phase'[q] = "settled" <=> phase[q] = "settled"
    BY <1>3
  <2> QED
    BY <2>1, <2>2, TableFrame
<1> QED
  BY <1>2, <1>4, <1>5, <1>6

\* check_and_reserve reads the clock and queues.
LEMMA ReserveKeeps ==
  ASSUME IInv, NEW r \in Requests, NEW w \in Workers, NEW t \in Tenants, NEW n \in Estimates,
         Reserve(r, w, t, n)
  PROVE  IInv'
<1> USE DEF IInv
<1> DEFINE a == [worker |-> w, tenant |-> t, estimate |-> n, stamp |-> now, usage |-> 0]
<1>1. /\ phase[r] = "idle"
      /\ ask' = Insert(ask, r, a)
      /\ phase' = [phase EXCEPT ![r] = "reserve"]
      /\ Queue(w, r)
      /\ UNCHANGED <<now, db, txn, crashes, book>>
  BY DEF Reserve
<1>2. /\ DOMAIN ask' = DOMAIN ask \cup {r}
      /\ ask'[r] = a
      /\ \A q \in Requests \ {r} : phase[q] # "idle" => ask'[q] = ask[q]
  BY <1>1 DEF Insert, Shape
<1>3. /\ line' \in [Workers -> Seq(Requests)]
      /\ Queues' /\ Entries' /\ Transactions' /\ TableIsBook'
  <2>1. ask'[r].worker = w
    BY <1>2
  <2> HIDE DEF a, IInv
  <2> QED
    BY <1>1, <1>2, <2>1, JoinStep
<1>4. /\ phase'[r] = "reserve"
      /\ phase' \in [Requests -> Phases]
      /\ \A q \in Requests \ {r} : phase'[q] = phase[q]
  BY <1>1 DEF Shape, Phases
<1>5. a \in [worker : Workers, tenant : Tenants, estimate : Estimates,
             stamp : 0 .. now, usage : Usages \cup {0}]
  BY BoundsAssumption DEF Shape
<1>6. \A q \in DOMAIN ask' :
         /\ ask'[q] \in [worker : Workers, tenant : Tenants, estimate : Estimates,
                         stamp : 0 .. now, usage : Usages \cup {0}]
         /\ phase'[q] \in {"settle", "orphan"} => ask'[q].usage \in Usages
  <2>1. ASSUME NEW q \in DOMAIN ask, q # r
        PROVE  /\ ask'[q] = ask[q] /\ phase'[q] = phase[q]
    BY <2>1, <1>2, <1>4 DEF Shape
  <2> HIDE DEF a
  <2> QED
    BY <2>1, <1>2, <1>4, <1>5 DEF Shape
<1>7. DOMAIN ask' = {q \in Requests : phase'[q] # "idle"}
  BY <1>2, <1>4 DEF Shape
<1>8. Shape'
  BY <1>1, <1>3, <1>4, <1>6, <1>7 DEF Shape
<1> QED
  BY <1>3, <1>8

\* settle and release queue for the lock.
LEMMA SettleKeeps ==
  ASSUME IInv, NEW r \in Requests, NEW u \in Usages, Settle(r, u)
  PROVE  IInv'
<1> USE DEF IInv
<1>1. /\ phase[r] = "held"
      /\ ask' = [ask EXCEPT ![r].usage = u]
      /\ phase' = [phase EXCEPT ![r] = "settle"]
      /\ Queue(ask[r].worker, r)
      /\ UNCHANGED <<now, db, txn, crashes, book>>
  BY DEF Settle
<1>2. r \in DOMAIN ask /\ ask[r] \in [worker : Workers, tenant : Tenants, estimate : Estimates,
                                      stamp : 0 .. now, usage : Usages \cup {0}]
  BY <1>1 DEF Shape
<1>3. /\ DOMAIN ask' = DOMAIN ask
      /\ ask'[r] \in [worker : Workers, tenant : Tenants, estimate : Estimates,
                      stamp : 0 .. now, usage : Usages \cup {0}]
      /\ ask'[r].usage = u
      /\ ask'[r].worker = ask[r].worker
      /\ ask'[r].tenant = ask[r].tenant
      /\ ask'[r].estimate = ask[r].estimate
      /\ ask'[r].stamp = ask[r].stamp
      /\ \A q \in Requests \ {r} : phase[q] # "idle" => ask'[q] = ask[q]
  BY <1>1, <1>2 DEF Shape
<1>4. /\ line' \in [Workers -> Seq(Requests)]
      /\ Queues' /\ Entries' /\ Transactions' /\ TableIsBook'
  BY <1>1, <1>2, <1>3, JoinStep
<1>5. /\ phase'[r] = "settle"
      /\ phase' \in [Requests -> Phases]
      /\ \A q \in Requests \ {r} : phase'[q] = phase[q]
  BY <1>1 DEF Shape, Phases
<1>6. \A q \in DOMAIN ask' :
         /\ ask'[q] \in [worker : Workers, tenant : Tenants, estimate : Estimates,
                         stamp : 0 .. now, usage : Usages \cup {0}]
         /\ phase'[q] \in {"settle", "orphan"} => ask'[q].usage \in Usages
  <2>1. ASSUME NEW q \in DOMAIN ask, q # r
        PROVE  /\ ask'[q] = ask[q] /\ phase'[q] = phase[q]
    BY <2>1, <1>3, <1>5 DEF Shape
  <2> QED
    BY <2>1, <1>3, <1>5 DEF Shape
<1>7. DOMAIN ask' = {q \in Requests : phase'[q] # "idle"}
  BY <1>1, <1>3, <1>5 DEF Shape
<1>8. Shape'
  BY <1>1, <1>4, <1>5, <1>6, <1>7 DEF Shape
<1> QED
  BY <1>4, <1>8

LEMMA ReleaseKeeps ==
  ASSUME IInv, NEW r \in Requests, Release(r)
  PROVE  IInv'
<1> USE DEF IInv
<1>1. /\ phase[r] \in {"held", "unsettled"}
      /\ phase' = [phase EXCEPT ![r] = "release"]
      /\ Queue(ask[r].worker, r)
      /\ UNCHANGED <<now, db, txn, ask, crashes, book>>
  BY DEF Release
<1>2. ask[r].worker \in Workers
  BY <1>1 DEF Shape
<1>3. /\ line' \in [Workers -> Seq(Requests)]
      /\ Queues' /\ Entries' /\ Transactions' /\ TableIsBook'
  BY <1>1, <1>2, JoinStep
<1>4. Shape'
  BY <1>1, <1>3 DEF Shape, Phases
<1> QED
  BY <1>3, <1>4


\* A call that leaves the lock without a commit: its await was cancelled, or an
\* exception passes.
LEMMA LeaveStep ==
  ASSUME IInv,
         NEW r \in Requests, phase[r] \in {"reserve", "settle", "release", "orphan"},
         Leave(ask[r].worker, r),
         NEW p \in {"error", "unsettled", "orphan"}, phase' = [phase EXCEPT ![r] = p],
         p = "error" <=> phase[r] = "reserve",
         p = "orphan" => phase[r] = "settle",
         UNCHANGED <<now, db, ask, crashes, book>>
  PROVE  /\ Shape' /\ Queues' /\ Entries' /\ TableIsBook'
         /\ \A q \in Requests :
               Owns(q) /\ (q # r \/ p = "orphan") =>
                  /\ HasThread(q)' /\ ask'[q] = ask[q]
                  /\ phase'[q] = phase[q] \/ (phase[q] = "settle" /\ phase'[q] = "orphan")
<1> USE DEF IInv
<1>1. /\ line' \in [Workers -> Seq(Requests)]
      /\ Queues'
      /\ \A q \in Requests \ {r} : HasThread(q) => HasThread(q)'
  <2>1. p \notin {"reserve", "settle", "release"} /\ phase[r] # "idle"
    OBVIOUS
  <2> QED
    BY <2>1, LeaveKeeps
<1>2. /\ phase'[r] = p
      /\ \A q \in Requests \ {r} : phase'[q] = phase[q]
      /\ phase' \in [Requests -> Phases]
  BY DEF Shape, Phases
<1>3. Shape'
  <2>1. DOMAIN ask' = {q \in Requests : phase'[q] # "idle"}
    BY <1>2 DEF Shape
  <2>2. \A q \in DOMAIN ask' : phase'[q] \in {"settle", "orphan"} => ask'[q].usage \in Usages
    BY <1>2 DEF Shape
  <2> QED
    BY <1>1, <1>2, <2>1, <2>2 DEF Shape
<1>4. Entries'
  <2>1. \A q \in DOMAIN book : q \in Requests /\ phase[q] \in Standing \cup {"lost"}
    BY DEF Entries
  <2>2. \A q \in DOMAIN book : /\ phase[q] \in Standing => phase'[q] \in Standing \cup {"lost"}
                               /\ phase[q] = "lost" => phase'[q] = "lost"
                               /\ phase'[q] # "settled" => phase[q] # "settled"
                               /\ ask'[q].tenant = ask[q].tenant
                               /\ ask'[q].estimate = ask[q].estimate
                               /\ ask'[q].stamp = ask[q].stamp
    BY <2>1, <1>2 DEF Standing
  <2>3. \A q \in Requests : phase'[q] \in Standing => phase[q] \in Standing
    BY <1>2 DEF Standing
  <2> QED
    BY <2>2, <2>3, EntriesFrame
<1>5. TableIsBook'
  <2>1. now' \in Nat /\ now <= now'
    BY BoundsAssumption DEF Shape
  <2>2. \A q \in Requests : phase'[q] = "settled" <=> phase[q] = "settled"
    BY <1>2
  <2> QED
    BY <2>1, <2>2, TableFrame
<1>6. ASSUME NEW q \in Requests, Owns(q), q # r \/ p = "orphan"
      PROVE  /\ HasThread(q)' /\ ask'[q] = ask[q]
             /\ phase'[q] = phase[q] \/ (phase[q] = "settle" /\ phase'[q] = "orphan")
  <2>1. CASE q # r
    BY <2>1, <1>1, <1>2, <1>6, OwnedBy
  <2>2. CASE q = r
    BY <2>2, <1>2, <1>6 DEF HasThread
  <2> QED
    BY <2>1, <2>2
<1> QED
  BY <1>1, <1>3, <1>4, <1>5, <1>6

\* The client hangs up: a settlement that has begun goes on as an orphan.
LEMMA CancelKeeps ==
  ASSUME IInv, NEW r \in Requests, Cancel(r)
  PROVE  IInv'
<1>1. /\ phase[r] = "settle"
      /\ Leave(ask[r].worker, r)
      /\ UNCHANGED <<now, db, txn, ask, crashes, book>>
  BY DEF Cancel
<1>2. CASE phase' = [phase EXCEPT ![r] = "orphan"]
  <2>1. /\ Shape' /\ Queues' /\ Entries' /\ TableIsBook'
        /\ \A q \in Requests :
              Owns(q) => /\ HasThread(q)' /\ ask'[q] = ask[q]
                         /\ phase'[q] = phase[q] \/ (phase[q] = "settle" /\ phase'[q] = "orphan")
    BY <1>1, <1>2, LeaveStep
  <2> QED
    BY <1>1, <2>1, TransactionsFrame DEF IInv
<1>3. CASE phase' = [phase EXCEPT ![r] = "unsettled"]
           /\ ~(ask[r].worker \in DOMAIN txn /\ txn[ask[r].worker].owner = r)
  <2>1. ~Owns(r)
    BY <1>3, OwnedBy DEF IInv
  <2>2. /\ Shape' /\ Queues' /\ Entries' /\ TableIsBook'
        /\ \A q \in Requests :
              Owns(q) /\ q # r => /\ HasThread(q)' /\ ask'[q] = ask[q]
                                  /\ phase'[q] = phase[q] \/ (phase[q] = "settle" /\ phase'[q] = "orphan")
    BY <1>1, <1>3, LeaveStep, ZenonT(40)
  <2> QED
    BY <1>1, <2>1, <2>2, TransactionsFrame DEF IInv
<1> QED
  BY <1>2, <1>3 DEF Cancel

\* BEGIN IMMEDIATE obtains the write lock.
LEMMA BeginKeeps ==
  ASSUME IInv, NEW r \in Requests, Begin(r)
  PROVE  IInv'
<1> USE DEF IInv
<1> DEFINE w == ask[r].worker
<1>1. /\ HasThread(r) /\ DOMAIN txn = {}
      /\ txn' = Insert(txn, w, Begun(r))
      /\ UNCHANGED <<now, db, line, phase, ask, crashes, book>>
  BY DEF Begin, Begun
<1>2. w \in Workers
  <2>1. phase[r] \in {"reserve", "settle", "release", "orphan"}
    BY <1>1, ThreadPhase
  <2> QED
    BY <2>1 DEF Shape
<1>3. DOMAIN txn' = {w} /\ txn'[w] = Begun(r)
  BY <1>1 DEF Insert
<1>4. Begun(r)' = Begun(r)
  BY <1>1 DEF Begun
<1>5. HasThread(r)'
  BY <1>1 DEF HasThread
<1>6. Transactions'
  <2>1. ASSUME NEW v \in DOMAIN txn'
        PROVE  /\ v \in Workers
               /\ \E q \in Requests : /\ HasThread(q)'
                                      /\ ask'[q].worker = v
                                      /\ txn'[v] \in {Begun(q)', Work(q, Begun(q))'}
    <3>1. v = w
      BY <2>1, <1>3
    <3>2. /\ HasThread(r)' /\ ask'[r].worker = v
          /\ txn'[v] \in {Begun(r)', Work(r, Begun(r))'}
      BY <3>1, <1>1, <1>3, <1>4, <1>5
    <3> QED
      BY <3>1, <3>2, <1>2
  <2> QED
    BY <2>1, <1>3 DEF Transactions
<1>7. Shape' /\ Queues' /\ Entries' /\ TableIsBook'
  BY <1>1 DEF Shape, Queues, InLine, Entries, TableIsBook, Expired
<1> QED
  BY <1>6, <1>7

\* The exception of a BEGIN that failed, or of a statement that did.
LEMMA RaiseStep ==
  ASSUME IInv, NEW r \in Requests, HasThread(r), Raise(r)
  PROVE  /\ Shape' /\ Queues' /\ Entries' /\ TableIsBook'
         /\ \A q \in Requests :
               Owns(q) /\ q # r => HasThread(q)' /\ ask'[q] = ask[q] /\ phase'[q] = phase[q]
<1>1. phase[r] \in {"reserve", "settle", "release", "orphan"}
  BY ThreadPhase
<1> DEFINE p == IF phase[r] = "reserve" THEN "error" ELSE "unsettled"
<1>2. phase' = [phase EXCEPT ![r] = p] /\ Leave(ask[r].worker, r)
  BY DEF Raise
<1>3. p \in {"error", "unsettled", "orphan"} /\ p # "orphan" /\ (p = "error" <=> phase[r] = "reserve")
  OBVIOUS
<1>4. UNCHANGED <<now, db, ask, crashes, book>>
  BY DEF Raise
<1> HIDE DEF p
<1>5. PICK c \in {"error", "unsettled", "orphan"} : c = p
  BY <1>3
<1>6. /\ Shape' /\ Queues' /\ Entries' /\ TableIsBook'
      /\ \A q \in Requests : Owns(q) /\ (q # r \/ c = "orphan") => HasThread(q)' /\ ask'[q] = ask[q]
  BY <1>1, <1>2, <1>3, <1>4, <1>5, LeaveStep
<1>7. \A q \in Requests \ {r} : phase'[q] = phase[q]
  BY <1>2 DEF IInv, Shape
<1> QED
  BY <1>6, <1>7

LEMMA BeginFailsKeeps ==
  ASSUME IInv, NEW r \in Requests, BeginFails(r)
  PROVE  IInv'
<1>1. HasThread(r) /\ ~Owns(r) /\ Raise(r) /\ txn' = txn /\ db' = db
  BY DEF BeginFails, Raise
<1>2. /\ Shape' /\ Queues' /\ Entries' /\ TableIsBook'
      /\ \A q \in Requests :
            Owns(q) => HasThread(q)' /\ ask'[q] = ask[q] /\ phase'[q] = phase[q]
  BY <1>1, RaiseStep
<1> QED
  BY <1>1, <1>2, TransactionsFrame DEF IInv

LEMMA FaultKeeps ==
  ASSUME IInv, NEW r \in Requests, Fault(r)
  PROVE  IInv'
<1>1. HasThread(r) /\ Owns(r) /\ Raise(r) /\ txn' = Delete(txn, ask[r].worker)
  BY DEF Fault
<1>2. DOMAIN txn' = {}
  BY <1>1, OwnedBy DEF IInv, Delete
<1>3. Shape' /\ Queues' /\ Entries' /\ TableIsBook'
  BY <1>1, RaiseStep
<1> QED
  BY <1>2, <1>3 DEF IInv, Transactions

\* The statements of a call run once, on the table as committed.
LEMMA BodyKeeps ==
  ASSUME IInv, NEW r \in Requests, Body(r)
  PROVE  IInv'
<1> USE DEF IInv
<1> DEFINE w == ask[r].worker
<1>1. /\ Owns(r) /\ txn[w].step = "begun"
      /\ txn' = [txn EXCEPT ![w] = Work(r, txn[w])]
      /\ UNCHANGED <<now, db, line, phase, ask, crashes, book>>
  BY DEF Body
<1>2. /\ HasThread(r) /\ w \in Workers /\ DOMAIN txn = {w} /\ txn[w] = Begun(r)
  BY <1>1, OwnedBy
<1>3. DOMAIN txn' = {w} /\ txn'[w] = Work(r, Begun(r))
  BY <1>1, <1>2
<1>4. Work(r, Begun(r))' = Work(r, Begun(r))
  BY <1>1, WorkFrame
<1>5. HasThread(r)'
  BY <1>1, <1>2 DEF HasThread
<1>6. Transactions'
  <2>1. ASSUME NEW v \in DOMAIN txn'
        PROVE  /\ v \in Workers
               /\ \E q \in Requests : /\ HasThread(q)'
                                      /\ ask'[q].worker = v
                                      /\ txn'[v] \in {Begun(q)', Work(q, Begun(q))'}
    <3>1. v = w
      BY <2>1, <1>3
    <3>2. /\ HasThread(r)' /\ ask'[r].worker = v
          /\ txn'[v] \in {Begun(r)', Work(r, Begun(r))'}
      BY <3>1, <1>1, <1>3, <1>4, <1>5
    <3> QED
      BY <3>1, <3>2, <1>2
  <2> QED
    BY <2>1, <1>3 DEF Transactions
<1>7. Shape' /\ Queues' /\ Entries' /\ TableIsBook'
  BY <1>1 DEF Shape, Queues, InLine, Entries, TableIsBook, Expired
<1> QED
  BY <1>6, <1>7


-----------------------------------------------------------------------------
(* COMMIT.                                                                 *)

\* What a commit publishes, by the kind of call.
LEMMA Committed ==
  ASSUME IInv, NEW r \in Requests, Commit(r)
  PROVE  LET a == ask[r]
             kept == Evict(db, a.stamp)
             fits == ~(Used(kept, a.tenant, a.stamp) + a.estimate > Limit)
         IN  /\ DOMAIN txn' = {}
             /\ Leave(a.worker, r)
             /\ UNCHANGED <<now, ask, crashes>>
             /\ \/ /\ phase[r] = "reserve" /\ ~fits
                   /\ phase' = [phase EXCEPT ![r] = "refused"]
                   /\ db' = kept
                   /\ book' = book
                \/ /\ phase[r] = "reserve" /\ fits
                   /\ phase' = [phase EXCEPT ![r] = "held"]
                   /\ db' = Insert(kept, r, [tenant |-> a.tenant, tokens |-> a.estimate,
                                             created |-> a.stamp, state |-> "reserved"])
                   /\ book' = Insert(book, r, [tenant |-> a.tenant, estimate |-> a.estimate,
                                               tokens |-> a.estimate, created |-> a.stamp])
                \/ /\ phase[r] \in {"settle", "orphan"}
                   /\ phase' = [phase EXCEPT ![r] = "settled"]
                   /\ db' = [q \in DOMAIN db |->
                               IF q = r THEN [db[q] EXCEPT !.tokens = a.usage, !.state = "settled"]
                               ELSE db[q]]
                   /\ book' = [book EXCEPT ![r].tokens = a.usage]
                \/ /\ phase[r] = "release"
                   /\ phase' = [phase EXCEPT ![r] = "released"]
                   /\ db' = Delete(db, r)
                   /\ book' = Delete(book, r)
<1> DEFINE a == ask[r]
           w == a.worker
           t == txn[w]
           kept == Evict(db, a.stamp)
           fits == ~(Used(kept, a.tenant, a.stamp) + a.estimate > Limit)
           row == [tenant |-> a.tenant, tokens |-> a.estimate,
                   created |-> a.stamp, state |-> "reserved"]
           entry == [tenant |-> a.tenant, estimate |-> a.estimate,
                     tokens |-> a.estimate, created |-> a.stamp]
           settled == [q \in DOMAIN db |->
                         IF q = r THEN [db[q] EXCEPT !.tokens = a.usage, !.state = "settled"]
                         ELSE db[q]]
<1>1. /\ Owns(r) /\ t.step # "begun"
      /\ db' = t.rows
      /\ txn' = Delete(txn, w)
      /\ phase' = [phase EXCEPT ![r] =
                     CASE t.step = "admit" -> "held"
                       [] t.step = "refuse" -> "refused"
                       [] t.step = "done" -> IF phase[r] = "release" THEN "released" ELSE "settled"]
      /\ Leave(w, r)
      /\ Enter(r)
      /\ UNCHANGED <<now, ask, crashes>>
  BY DEF Commit
<1>2. HasThread(r) /\ DOMAIN txn = {w} /\ t = Work(r, Begun(r))
  <2>1. Begun(r).step = "begun"
    BY DEF Begun
  <2> QED
    BY <1>1, <2>1, OwnedBy DEF IInv
<1>3. DOMAIN txn' = {}
  BY <1>1, <1>2 DEF Delete
<1>4. CASE phase[r] = "reserve" /\ ~fits
  <2>1. t.step = "refuse" /\ t.rows = kept
    BY <1>2, <1>4, WorkFields
  <2>2. phase' = [phase EXCEPT ![r] = "refused"]
    BY <1>1, <2>1
  <2>3. book' = book
    <3>1. book' = IF t.step = "admit" THEN Insert(book, r, entry) ELSE book
      BY <1>1, <1>4 DEF Enter
    <3> QED
      BY <3>1, <2>1
  <2> QED
    BY <1>1, <1>3, <1>4, <2>1, <2>2, <2>3
<1>5. CASE phase[r] = "reserve" /\ fits
  <2>1. t.step = "admit" /\ t.rows = Insert(kept, r, row)
    BY <1>2, <1>5, WorkFields, ZenonT(40)
  <2>2. phase' = [phase EXCEPT ![r] = "held"]
    BY <1>1, <2>1
  <2>3. book' = Insert(book, r, entry)
    <3>1. book' = IF t.step = "admit" THEN Insert(book, r, entry) ELSE book
      BY <1>1, <1>5 DEF Enter
    <3> QED
      BY <3>1, <2>1
  <2> QED
    BY <1>1, <1>3, <1>5, <2>1, <2>2, <2>3
<1>6. CASE phase[r] \in {"settle", "orphan"}
  <2>1. t.step = "done" /\ t.rows = settled
    BY <1>2, <1>6, WorkFields
  <2>2. phase' = [phase EXCEPT ![r] = "settled"]
    BY <1>1, <1>6, <2>1
  <2>3. book' = [book EXCEPT ![r].tokens = a.usage]
    BY <1>1, <1>6 DEF Enter
  <2> QED
    BY <1>1, <1>3, <1>6, <2>1, <2>2, <2>3
<1>7. CASE phase[r] = "release"
  <2>1. t.step = "done" /\ t.rows = Delete(db, r)
    <3>1. Work(r, Begun(r)).step = "done" /\ Work(r, Begun(r)).rows = Delete(db, r)
      BY <1>7, WorkFields
    <3> QED
      BY <3>1, <1>2
  <2>2. phase' = [phase EXCEPT ![r] = "released"]
    BY <1>1, <1>7, <2>1
  <2>3. book' = Delete(book, r)
    BY <1>1, <1>7 DEF Enter
  <2> QED
    BY <1>1, <1>3, <1>7, <2>1, <2>2, <2>3
<1>8. phase[r] \in {"reserve", "settle", "release", "orphan"}
  BY <1>2, ThreadPhase
<1> QED
  BY <1>4, <1>5, <1>6, <1>7, <1>8


\* What every commit keeps but for the table and the history: its line, the
\* types of the calls, and that no transaction is left.
LEMMA CommitShape ==
  ASSUME IInv, NEW r \in Requests, Commit(r),
         NEW p \in {"refused", "held", "settled", "released"}, phase' = [phase EXCEPT ![r] = p],
         DOMAIN db' \subseteq Requests, \A q \in DOMAIN db' : db'[q] \in Row
  PROVE  Shape' /\ Queues' /\ Transactions'
<1> USE DEF IInv
<1>1. /\ DOMAIN txn' = {}
      /\ Leave(ask[r].worker, r)
      /\ UNCHANGED <<now, ask, crashes>>
      /\ phase[r] \in {"reserve", "settle", "release", "orphan"}
  BY Committed
<1>2. p \notin {"reserve", "settle", "release"} /\ phase[r] # "idle"
  BY <1>1
<1>3. line' \in [Workers -> Seq(Requests)] /\ Queues'
  BY <1>1, <1>2, LeaveKeeps
<1>4. /\ phase'[r] = p
      /\ \A q \in Requests \ {r} : phase'[q] = phase[q]
      /\ phase' \in [Requests -> Phases]
  BY DEF Shape, Phases
<1>5. DOMAIN ask' = {q \in Requests : phase'[q] # "idle"}
  BY <1>1, <1>4 DEF Shape
<1>6. \A q \in DOMAIN ask' : phase'[q] \in {"settle", "orphan"} => ask'[q].usage \in Usages
  BY <1>1, <1>4 DEF Shape
<1>7. Shape'
  BY <1>1, <1>3, <1>4, <1>5, <1>6 DEF Shape
<1>8. Transactions'
  BY <1>1 DEF Transactions
<1> QED
  BY <1>3, <1>7, <1>8

\* The call of a request, and what its numbers are.
LEMMA AskKnown ==
  ASSUME Shape, NEW r \in Requests, phase[r] # "idle"
  PROVE  /\ r \in DOMAIN ask
         /\ ask[r].worker \in Workers /\ ask[r].tenant \in Tenants
         /\ ask[r].estimate \in Nat
         /\ ask[r].stamp \in Nat /\ ask[r].stamp <= now
         /\ ask[r].usage \in Nat
<1>1. r \in DOMAIN ask
  BY DEF Shape
<1>2. ask[r] \in [worker : Workers, tenant : Tenants, estimate : Estimates,
                  stamp : 0 .. now, usage : Usages \cup {0}]
  BY <1>1 DEF Shape
<1>3. now \in Nat
  BY BoundsAssumption DEF Shape
<1>4. /\ ask[r].worker \in Workers /\ ask[r].tenant \in Tenants
      /\ ask[r].estimate \in Estimates
      /\ ask[r].stamp \in 0 .. now
      /\ ask[r].usage \in Usages \cup {0}
  BY <1>2
<1>5. ask[r].estimate \in Nat
  BY <1>4, EstimatesAssumption
<1>6. ask[r].usage \in Nat
  <2>1. Usages \cup {0} \subseteq Nat
    BY UsagesAssumption
  <2> QED
    BY <1>4, <2>1
<1>7. ask[r].stamp \in Nat /\ ask[r].stamp <= now
  BY <1>3, <1>4
<1> QED
  BY <1>1, <1>4, <1>5, <1>6, <1>7

\* An eviction takes rows that have left the window out of the table.
LEMMA Evicted ==
  ASSUME Shape, Entries, TableIsBook, NEW s \in Nat, s <= now
  PROVE  LET kept == Evict(db, s)
         IN  /\ DOMAIN kept \subseteq DOMAIN db
             /\ \A q \in DOMAIN kept : kept[q] = db[q] /\ kept[q] \in Row
             /\ \A q \in DOMAIN book : q \notin DOMAIN kept => book[q].created <= now - Window
<1> DEFINE kept == Evict(db, s)
<1>1. /\ now \in Nat
      /\ \A q \in DOMAIN db : db[q] \in Row /\ db[q].created \in Nat
      /\ \A q \in DOMAIN book : book[q].created \in Nat
  BY BoundsAssumption DEF Shape, Entries, Row
<1>2. /\ DOMAIN kept = {q \in DOMAIN db : db[q].created > s - Window}
      /\ \A q \in DOMAIN kept : kept[q] = db[q]
  BY DEF Evict
<1> HIDE DEF kept
<1>3. ASSUME NEW q \in DOMAIN book, q \notin DOMAIN kept
      PROVE  book[q].created <= now - Window
  <2>1. CASE q \notin DOMAIN db
    BY <2>1 DEF TableIsBook, Expired
  <2>2. CASE q \in DOMAIN db
    <3>1. ~(db[q].created > s - Window) /\ db[q].created = book[q].created
      BY <2>2, <1>2, <1>3 DEF TableIsBook
    <3> QED
      BY <3>1, <2>2, <1>1, WindowAssumption
  <2> QED
    BY <2>1, <2>2
<1> QED
  BY <1>1, <1>2, <1>3 DEF kept

LEMMA CommitKeeps ==
  ASSUME IInv, NEW r \in Requests, Commit(r)
  PROVE  IInv'
<1> USE DEF IInv
<1> DEFINE a == ask[r]
           kept == Evict(db, a.stamp)
           fits == ~(Used(kept, a.tenant, a.stamp) + a.estimate > Limit)
           row == [tenant |-> a.tenant, tokens |-> a.estimate,
                   created |-> a.stamp, state |-> "reserved"]
           entry == [tenant |-> a.tenant, estimate |-> a.estimate,
                     tokens |-> a.estimate, created |-> a.stamp]
<1>1. UNCHANGED <<now, ask, crashes>> /\ phase[r] \in {"reserve", "settle", "release", "orphan"}
  BY Committed
<1>2. /\ a.tenant \in Tenants /\ a.estimate \in Nat
      /\ a.stamp \in Nat /\ a.stamp <= now /\ a.usage \in Nat
  BY <1>1, AskKnown
<1>3. /\ DOMAIN kept \subseteq DOMAIN db
      /\ \A q \in DOMAIN kept : kept[q] = db[q] /\ kept[q] \in Row
      /\ \A q \in DOMAIN book : q \notin DOMAIN kept => book[q].created <= now - Window
  BY <1>2, Evicted
<1>4. \A q \in DOMAIN db : q \in Requests /\ db[q] \in Row
  BY DEF Shape
<1>5. \A q \in Requests : q \in DOMAIN book => phase[q] \in Standing \cup {"lost"}
  BY DEF Entries
<1>6. CASE /\ phase[r] = "reserve" /\ ~fits
           /\ phase' = [phase EXCEPT ![r] = "refused"]
           /\ db' = kept
           /\ book' = book
  <2>1. phase'[r] = "refused" /\ \A q \in Requests \ {r} : phase'[q] = phase[q]
    BY <1>6 DEF Shape
  <2>2. r \notin DOMAIN book
    BY <1>5, <1>6 DEF Standing
  <2> HIDE DEF kept, fits
  <2>3. DOMAIN db' \subseteq Requests /\ \A q \in DOMAIN db' : db'[q] \in Row
    BY <1>3, <1>4, <1>6
  <2>4. Shape' /\ Queues' /\ Transactions'
    BY <1>6, <2>3, CommitShape
  <2>5. Entries'
    BY <1>1, <1>6, <2>1, <2>2 DEF Entries, Standing
  <2>6. TableIsBook'
    BY <1>1, <1>3, <1>6, <2>1, <2>2 DEF TableIsBook, Entries, Expired
  <2> QED
    BY <2>4, <2>5, <2>6
<1>7. CASE /\ phase[r] = "reserve" /\ fits
           /\ phase' = [phase EXCEPT ![r] = "held"]
           /\ db' = Insert(kept, r, row)
           /\ book' = Insert(book, r, entry)
  <2>1. phase'[r] = "held" /\ \A q \in Requests \ {r} : phase'[q] = phase[q]
    BY <1>7 DEF Shape
  <2>2. r \notin DOMAIN book
    BY <1>5, <1>7 DEF Standing
  <2>3. row \in Row /\ entry \in [tenant : Tenants, estimate : Nat, tokens : Nat, created : Nat]
    BY <1>2 DEF Row
  <2> HIDE DEF kept, fits
  <2>4. /\ DOMAIN db' = DOMAIN kept \cup {r}
        /\ db'[r] = row
        /\ \A q \in DOMAIN kept \ {r} : db'[q] = kept[q]
    BY <1>7 DEF Insert
  <2>5. /\ DOMAIN book' = DOMAIN book \cup {r}
        /\ book'[r] = entry
        /\ \A q \in DOMAIN book : book'[q] = book[q]
    BY <1>7, <2>2 DEF Insert
  <2>6. DOMAIN db' \subseteq Requests /\ \A q \in DOMAIN db' : db'[q] \in Row
    <3> HIDE DEF row, entry
    <3> QED
      BY <1>3, <1>4, <2>3, <2>4
  <2>7. Shape' /\ Queues' /\ Transactions'
    BY <1>7, <2>6, CommitShape
  <2>8. Entries'
    <3>1. /\ entry.tenant = a.tenant
          /\ entry.estimate = a.estimate
          /\ entry.created = a.stamp
          /\ entry.tokens = entry.estimate
      OBVIOUS
    <3> HIDE DEF row, entry, a
    <3>2. \A q \in DOMAIN book : q \in Requests \ {r}
      BY <2>2 DEF Entries
    <3> QED
      BY <1>1, <2>1, <2>3, <2>5, <3>1, <3>2 DEF Entries, Standing, a
  <2>9. TableIsBook'
    <3>1. DOMAIN db' \subseteq DOMAIN book'
      BY <1>3, <2>4, <2>5 DEF TableIsBook
    <3>2. ASSUME NEW q \in DOMAIN book
          PROVE  /\ q \in Requests \ {r}
                 /\ book'[q] = book[q] /\ phase'[q] = phase[q]
                 /\ q \in DOMAIN db' => q \in DOMAIN kept /\ db'[q] = db[q]
      BY <1>3, <2>1, <2>2, <2>4, <2>5 DEF Entries
    <3>3. /\ db'[r].tokens = book'[r].tokens
          /\ db'[r].created = book'[r].created
          /\ db'[r].tenant = book'[r].tenant
          /\ db'[r].state = "settled" <=> phase'[r] = "settled"
      BY <2>1, <2>4, <2>5
    <3>4. ASSUME NEW q \in DOMAIN book, q \in DOMAIN db'
          PROVE  /\ db'[q].tokens = book'[q].tokens
                 /\ db'[q].created = book'[q].created
                 /\ db'[q].tenant = book'[q].tenant
                 /\ db'[q].state = "settled" <=> phase'[q] = "settled"
      BY <3>2, <3>4, <1>3 DEF TableIsBook
    <3>5. ASSUME NEW q \in DOMAIN book, q \notin DOMAIN db'
          PROVE  book'[q].created <= now - Window
      BY <3>2, <3>5, <1>3, <2>4
    <3> HIDE DEF row, entry
    <3> QED
      BY <1>1, <3>1, <3>3, <3>4, <3>5, <2>4, <2>5 DEF TableIsBook, Expired
  <2> QED
    BY <2>7, <2>8, <2>9
<1>8. CASE /\ phase[r] \in {"settle", "orphan"}
           /\ phase' = [phase EXCEPT ![r] = "settled"]
           /\ db' = [q \in DOMAIN db |->
                       IF q = r THEN [db[q] EXCEPT !.tokens = a.usage, !.state = "settled"]
                       ELSE db[q]]
           /\ book' = [book EXCEPT ![r].tokens = a.usage]
  <2>1. phase'[r] = "settled" /\ \A q \in Requests \ {r} : phase'[q] = phase[q]
    BY <1>8 DEF Shape
  <2>2. r \in DOMAIN book
    BY <1>8 DEF Entries, Standing
  <2>3. /\ DOMAIN db' = DOMAIN db
        /\ \A q \in DOMAIN db \ {r} : db'[q] = db[q]
    BY <1>8
  <2>4. ASSUME r \in DOMAIN db
        PROVE  /\ db'[r] \in Row
               /\ db'[r].tokens = a.usage /\ db'[r].state = "settled"
               /\ db'[r].created = db[r].created /\ db'[r].tenant = db[r].tenant
    <3>1. db[r] \in Row
      BY <2>4, <1>4
    <3>2. db'[r] = [db[r] EXCEPT !.tokens = a.usage, !.state = "settled"]
      BY <2>4, <1>8
    <3> QED
      BY <3>1, <3>2, <1>2 DEF Row
  <2>5. /\ DOMAIN book' = DOMAIN book
        /\ book'[r] = [book[r] EXCEPT !.tokens = a.usage]
        /\ \A q \in DOMAIN book \ {r} : book'[q] = book[q]
    BY <1>8, <2>2
  <2>6. /\ book'[r] \in [tenant : Tenants, estimate : Nat, tokens : Nat, created : Nat]
        /\ book'[r].tokens = a.usage
        /\ book'[r].tenant = book[r].tenant /\ book'[r].estimate = book[r].estimate
        /\ book'[r].created = book[r].created
    BY <2>2, <2>5, <1>2 DEF Entries
  <2>7. DOMAIN db' \subseteq Requests /\ \A q \in DOMAIN db' : db'[q] \in Row
    BY <1>4, <2>3, <2>4
  <2>8. Shape' /\ Queues' /\ Transactions'
    BY <1>8, <2>7, CommitShape
  <2> HIDE DEF a, kept, fits
  <2>9. Entries'
    <3>1. ASSUME NEW q \in DOMAIN book'
          PROVE  /\ phase'[q] \in Standing \cup {"lost"}
                 /\ book'[q] \in [tenant : Tenants, estimate : Nat, tokens : Nat, created : Nat]
                 /\ book'[q].tenant = ask[q].tenant
                 /\ book'[q].estimate = ask[q].estimate
                 /\ book'[q].created = ask[q].stamp
                 /\ phase'[q] # "settled" => book'[q].tokens = book'[q].estimate
      <4>1. CASE q = r
        BY <4>1, <2>1, <2>2, <2>6 DEF Entries, Standing
      <4>2. CASE q # r
        BY <4>2, <3>1, <2>1, <2>5 DEF Entries
      <4> QED
        BY <4>1, <4>2
    <3>2. \A q \in Requests : phase'[q] \in Standing => q \in DOMAIN book'
      BY <2>1, <2>2, <2>5 DEF Entries
    <3> QED
      BY <1>1, <2>5, <3>1, <3>2 DEF Entries
  <2>10. TableIsBook'
    <3>1. DOMAIN db' \subseteq DOMAIN book'
      BY <2>3, <2>5 DEF TableIsBook
    <3>2. ASSUME NEW q \in DOMAIN book, q \in DOMAIN db'
          PROVE  /\ db'[q].tokens = book'[q].tokens
                 /\ db'[q].created = book'[q].created
                 /\ db'[q].tenant = book'[q].tenant
                 /\ db'[q].state = "settled" <=> phase'[q] = "settled"
      <4>1. CASE q = r
        BY <4>1, <3>2, <2>1, <2>3, <2>4, <2>6 DEF TableIsBook
      <4>2. CASE q # r
        BY <4>2, <3>2, <2>1, <2>3, <2>5 DEF TableIsBook, Entries
      <4> QED
        BY <4>1, <4>2
    <3>3. ASSUME NEW q \in DOMAIN book, q \notin DOMAIN db'
          PROVE  book'[q].created <= now - Window
      <4>1. book'[q].created = book[q].created
        BY <2>5, <2>6
      <4> QED
        BY <4>1, <3>3, <2>3 DEF TableIsBook, Expired
    <3> QED
      BY <1>1, <3>1, <3>2, <3>3, <2>5 DEF TableIsBook, Expired
  <2> QED
    BY <2>8, <2>9, <2>10
<1>9. CASE /\ phase[r] = "release"
            /\ phase' = [phase EXCEPT ![r] = "released"]
            /\ db' = Delete(db, r)
            /\ book' = Delete(book, r)
  <2>1. phase'[r] = "released" /\ \A q \in Requests \ {r} : phase'[q] = phase[q]
    BY <1>9 DEF Shape
  <2>2. /\ DOMAIN db' = DOMAIN db \ {r}
        /\ \A q \in DOMAIN db' : db'[q] = db[q]
        /\ DOMAIN book' = DOMAIN book \ {r}
        /\ \A q \in DOMAIN book' : book'[q] = book[q]
    BY <1>9 DEF Delete
  <2>3. DOMAIN db' \subseteq Requests /\ \A q \in DOMAIN db' : db'[q] \in Row
    BY <1>4, <2>2
  <2>4. Shape' /\ Queues' /\ Transactions'
    BY <1>9, <2>3, CommitShape
  <2> HIDE DEF kept, fits
  <2>5. Entries'
    BY <1>1, <2>1, <2>2 DEF Entries, Standing
  <2>6. TableIsBook'
    BY <1>1, <2>1, <2>2 DEF TableIsBook, Entries, Expired
  <2> QED
    BY <2>4, <2>5, <2>6
<1> HIDE DEF IInv
<1> QED
  BY <1>6, <1>7, <1>8, <1>9, Committed


\* A worker dies: its line and its transaction go with it.
LEMMA CrashKeeps ==
  ASSUME IInv, NEW w \in Workers, Crash(w)
  PROVE  IInv'
<1> USE DEF IInv
<1> DEFINE Dies(r) == /\ phase[r] \in {"reserve", "held", "settle", "orphan", "unsettled", "release"}
                      /\ ask[r].worker = w
<1>1. /\ crashes < MaxCrashes /\ crashes' = crashes + 1
      /\ txn' = Delete(txn, w)
      /\ line' = [line EXCEPT ![w] = <<>>]
      /\ phase' = [r \in Requests |-> IF Dies(r) THEN "lost" ELSE phase[r]]
      /\ UNCHANGED <<now, db, ask, book>>
  BY DEF Crash
<1>2. /\ phase' \in [Requests -> Phases]
      /\ \A r \in Requests : phase'[r] = IF Dies(r) THEN "lost" ELSE phase[r]
  BY <1>1 DEF Shape, Phases
<1>3. /\ line' \in [Workers -> Seq(Requests)]
      /\ line'[w] = <<>>
      /\ \A v \in Workers \ {w} : line'[v] = line[v]
  <2>1. line \in [Workers -> Seq(Requests)] /\ <<>> \in Seq(Requests)
    BY DEF Shape
  <2> QED
    BY <2>1, <1>1
<1>4. Shape'
  <2>1. DOMAIN ask' = {r \in Requests : phase'[r] # "idle"}
    BY <1>1, <1>2 DEF Shape
  <2>2. \A r \in DOMAIN ask' : phase'[r] \in {"settle", "orphan"} => ask'[r].usage \in Usages
    BY <1>1, <1>2 DEF Shape
  <2>3. crashes' \in 0 .. MaxCrashes
    BY <1>1, BoundsAssumption DEF Shape
  <2> QED
    BY <1>1, <1>2, <1>3, <2>1, <2>2, <2>3 DEF Shape
<1>5. Queues'
  <2>1. ASSUME NEW v \in Workers
        PROVE  /\ IsInjective(line'[v])
               /\ \A r \in Requests : r \in ToSet(line'[v]) <=> InLine(r)' /\ ask'[r].worker = v
    <3>1. \A r \in Requests : InLine(r)' <=> InLine(r) /\ ask[r].worker # w
      BY <1>2 DEF InLine
    <3>2. CASE v = w
      <4>1. IsInjective(<<>>) /\ ToSet(<<>>) = {}
        BY DEF IsInjective, ToSet
      <4> QED
        BY <3>1, <3>2, <4>1, <1>1, <1>3
    <3>3. CASE v # w
      BY <3>1, <3>3, <1>1, <1>3 DEF Queues
    <3> QED
      BY <3>2, <3>3
  <2> QED
    BY <2>1 DEF Queues
<1>6. Entries'
  <2>1. \A q \in DOMAIN book : q \in Requests
    BY DEF Entries
  <2>2. \A q \in DOMAIN book : /\ phase[q] \in Standing => phase'[q] \in Standing \cup {"lost"}
                               /\ phase[q] = "lost" => phase'[q] = "lost"
                               /\ phase'[q] # "settled" => phase[q] # "settled"
                               /\ ask'[q].tenant = ask[q].tenant
                               /\ ask'[q].estimate = ask[q].estimate
                               /\ ask'[q].stamp = ask[q].stamp
    BY <2>1, <1>1, <1>2 DEF Standing
  <2>3. \A q \in Requests : phase'[q] \in Standing => phase[q] \in Standing
    BY <1>2 DEF Standing
  <2> QED
    BY <1>1, <2>2, <2>3, EntriesFrame
<1>7. Transactions'
  <2>1. DOMAIN txn' = DOMAIN txn \ {w} /\ \A v \in DOMAIN txn' : txn'[v] = txn[v]
    BY <1>1 DEF Delete
  <2>2. ASSUME NEW v \in DOMAIN txn'
        PROVE  /\ v \in Workers
               /\ \E r \in Requests : /\ HasThread(r)'
                                      /\ ask'[r].worker = v
                                      /\ txn'[v] \in {Begun(r)', Work(r, Begun(r))'}
    <3>1. v \in DOMAIN txn /\ v # w /\ txn'[v] = txn[v]
      BY <2>1, <2>2
    <3>2. v \in Workers /\ \E r \in Requests : /\ HasThread(r)
                                               /\ ask[r].worker = v
                                               /\ txn[v] \in {Begun(r), Work(r, Begun(r))}
      BY <3>1 DEF Transactions
    <3>3. PICK r \in Requests : /\ HasThread(r)
                                /\ ask[r].worker = v
                                /\ txn[v] \in {Begun(r), Work(r, Begun(r))}
      BY <3>2
    <3>4. phase'[r] = phase[r] /\ line'[v] = line[v]
      BY <3>1, <3>2, <3>3, <1>2, <1>3
    <3>5. Begun(r)' = Begun(r) /\ Work(r, Begun(r))' = Work(r, Begun(r))
      BY <1>1, <3>4, WorkFrame
    <3>6. HasThread(r)'
      BY <1>1, <3>3, <3>4 DEF HasThread
    <3> QED
      BY <1>1, <3>1, <3>2, <3>3, <3>5, <3>6
  <2> QED
    BY <2>1, <2>2 DEF Transactions
<1>8. TableIsBook'
  <2>1. now' \in Nat /\ now <= now'
    BY <1>1, BoundsAssumption DEF Shape
  <2>2. \A q \in Requests : phase'[q] = "settled" <=> phase[q] = "settled"
    BY <1>2
  <2> QED
    BY <1>1, <2>1, <2>2, TableFrame
<1> QED
  BY <1>4, <1>5, <1>6, <1>7, <1>8

LEMMA StutterKeeps == IInv /\ UNCHANGED vars => IInv'
<1> SUFFICES ASSUME IInv, UNCHANGED vars
             PROVE  IInv'
  OBVIOUS
<1> USE DEF IInv, vars
<1>1. Shape' /\ Queues' /\ Entries' /\ TableIsBook'
  BY DEF Shape, Queues, InLine, Entries, TableIsBook, Expired
<1>2. Transactions'
  <2>1. \A r \in Requests : Owns(r) => HasThread(r)
    BY OwnedBy
  <2>2. \A r \in Requests : HasThread(r)' <=> HasThread(r)
    BY DEF HasThread
  <2> QED
    BY <2>1, <2>2, TransactionsFrame
<1> QED
  BY <1>1, <1>2

\* Every step keeps the invariant.
LEMMA InvStep == IInv /\ [Next]_vars => IInv'
<1> SUFFICES ASSUME IInv, [Next]_vars
             PROVE  IInv'
  OBVIOUS
<1>1. CASE Tick
  BY <1>1, TickKeeps
<1>2. CASE \E w \in Workers : Crash(w)
  BY <1>2, CrashKeeps
<1>3. ASSUME NEW r \in Requests,
             \/ \E w \in Workers, t \in Tenants, n \in Estimates : Reserve(r, w, t, n)
             \/ \E u \in Usages : Settle(r, u)
             \/ Release(r)
             \/ Cancel(r)
             \/ Thread(r)
             \/ Fault(r)
      PROVE  IInv'
  <2>1. CASE \E w \in Workers, t \in Tenants, n \in Estimates : Reserve(r, w, t, n)
    BY <2>1, ReserveKeeps
  <2>2. CASE \E u \in Usages : Settle(r, u)
    BY <2>2, SettleKeeps
  <2>3. CASE Release(r)
    BY <2>3, ReleaseKeeps
  <2>4. CASE Cancel(r)
    BY <2>4, CancelKeeps
  <2>5. CASE Thread(r)
    BY <2>5, BeginKeeps, BeginFailsKeeps, BodyKeeps, CommitKeeps DEF Thread
  <2>6. CASE Fault(r)
    BY <2>6, FaultKeeps
  <2> QED
    BY <1>3, <2>1, <2>2, <2>3, <2>4, <2>5, <2>6
<1>4. CASE UNCHANGED vars
  BY <1>4, StutterKeeps
<1> QED
  BY <1>1, <1>2, <1>3, <1>4 DEF Next

\* The invariant holds of every behaviour.
LEMMA Invariant == Spec => []IInv
BY InvInitially, InvStep, PTL DEF Spec

-----------------------------------------------------------------------------
(* What follows.                                                           *)

\* Types hold, and a call waits in its own worker's line exactly while it is
\* being served there.
THEOREM TypeCorrect == Spec => []TypeOK
<1>1. IInv => TypeOK
  <2> SUFFICES ASSUME IInv
               PROVE  TypeOK
    OBVIOUS
  <2> USE DEF IInv
  <2>1. ASSUME NEW w \in DOMAIN txn
        PROVE  /\ txn[w].owner \in DOMAIN ask
               /\ txn[w].step \in {"begun", "refuse", "admit", "done"}
               /\ \A r \in DOMAIN txn[w].rows : txn[w].rows[r] \in Row
    <3>1. PICK o \in Requests :
             /\ txn[w].owner = o /\ HasThread(o)
             /\ txn[w] = Begun(o) \/ txn[w] = Work(o, Begun(o))
      BY OwnerKnown
    <3>2. phase[o] \in {"reserve", "settle", "release", "orphan"}
      BY <3>1, ThreadPhase
    <3>3. /\ o \in DOMAIN ask
          /\ ask[o].tenant \in Tenants /\ ask[o].estimate \in Nat
          /\ ask[o].stamp \in Nat /\ ask[o].stamp <= now /\ ask[o].usage \in Nat
      BY <3>2, AskKnown
    <3>4. \A q \in DOMAIN db : db[q] \in Row
      BY DEF Shape
    <3> DEFINE kept == Evict(db, ask[o].stamp)
               row == [tenant |-> ask[o].tenant, tokens |-> ask[o].estimate,
                       created |-> ask[o].stamp, state |-> "reserved"]
               settled == [q \in DOMAIN db |->
                             IF q = o THEN [db[q] EXCEPT !.tokens = ask[o].usage, !.state = "settled"]
                             ELSE db[q]]
    <3>5. \A q \in DOMAIN kept : kept[q] \in Row
      BY <3>4 DEF Evict
    <3>6. CASE txn[w] = Begun(o)
      BY <3>1, <3>3, <3>4, <3>6 DEF Begun
    <3>7. CASE txn[w] = Work(o, Begun(o))
      <4>1. /\ txn[w].step \in {"refuse", "admit", "done"}
            /\ txn[w].rows \in {kept, Insert(kept, o, row), settled, Delete(db, o)}
        BY <3>2, <3>7, WorkFields, ZenonT(40)
      <4>2. \A q \in DOMAIN Insert(kept, o, row) : Insert(kept, o, row)[q] \in Row
        <5>1. row \in Row
          BY <3>3 DEF Row
        <5> HIDE DEF row, kept
        <5> QED
          BY <5>1, <3>5 DEF Insert
      <4>3. \A q \in DOMAIN settled : settled[q] \in Row
        BY <3>3, <3>4 DEF Row
      <4>4. \A q \in DOMAIN Delete(db, o) : Delete(db, o)[q] \in Row
        BY <3>4 DEF Delete
      <4> HIDE DEF row, kept, settled
      <4> QED
        BY <3>1, <3>3, <3>5, <4>1, <4>2, <4>3, <4>4
    <3> QED
      BY <3>1, <3>6, <3>7
  <2>2. ASSUME NEW w \in Workers
        PROVE  /\ IsInjective(line[w])
               /\ ToSet(line[w]) = {r \in Requests : /\ phase[r] \in {"reserve", "settle", "release"}
                                                    /\ ask[r].worker = w}
    <3>1. line[w] \in Seq(Requests)
      BY DEF Shape
    <3>2. ToSet(line[w]) \subseteq Requests
      BY <3>1, ElementOfSeq, LenProperties DEF ToSet
    <3> QED
      BY <3>2 DEF Queues, InLine
  <2> QED
    BY <2>1, <2>2 DEF TypeOK, Shape
<1> QED
  BY <1>1, Invariant, PTL

\* An open transaction always has a thread of its own worker that will end it,
\* whatever was cancelled, failed or crashed (store.py:115-123).
THEOREM NothingIsWedged == Spec => []TransactionHasThread
<1>1. IInv => TransactionHasThread
  <2> SUFFICES ASSUME IInv, NEW w \in DOMAIN txn
               PROVE  ask[txn[w].owner].worker = w /\ HasThread(txn[w].owner)
    BY DEF TransactionHasThread
  <2>1. PICK o \in Requests : txn[w].owner = o /\ HasThread(o) /\ ask[o].worker = w
    BY OwnerKnown DEF IInv
  <2> QED
    BY <2>1 DEF HasThread
<1> QED
  BY <1>1, Invariant, PTL

\* The table is the history minus what has left the window: no commit of any
\* worker undoes another's (store.py:18-29).
THEOREM NoUpdateIsLost == Spec => []TableIsBook
<1>1. IInv => TableIsBook
  BY DEF IInv
<1> QED
  BY <1>1, Invariant, PTL


-----------------------------------------------------------------------------
(* The limit.                                                              *)

\* The admissions of a tenant that count at an instant, and what they vouch
\* for.  The history and the clock are parameters: a proof compares two of them.
Alive(b, n, t) == {r \in DOMAIN b : b[r].tenant = t /\ b[r].created > n - Window}
Charge(b, n, t) == [r \in Alive(b, n, t) |-> Lesser(b[r].tokens, b[r].estimate)]

\* The bound, of these.
LEMMA LiveBoundIs ==
  ASSUME IInv
  PROVE  LiveBound <=> \A t \in Tenants : Total(Charge(book, now, t)) <= Limit
<1>1. now \in Int /\ Window \in Int /\ \A r \in DOMAIN book : book[r].created \in Int
  BY WindowAssumption, BoundsAssumption DEF IInv, Shape, Entries
<1>2. ASSUME NEW t \in Tenants
      PROVE  {r \in DOMAIN book : book[r].tenant = t /\ ~Expired(book[r].created)}
                = Alive(book, now, t)
  BY <1>1 DEF Expired, Alive
<1>3. ASSUME NEW t \in Tenants
      PROVE  Vouched({r \in DOMAIN book : book[r].tenant = t /\ ~Expired(book[r].created)})
                = Charge(book, now, t)
  BY <1>2 DEF Vouched, Charge
<1> QED
  BY <1>3 DEF LiveBound

\* They are finitely many natural numbers.
LEMMA ChargeType ==
  ASSUME NEW b, NEW n, NEW t,
         DOMAIN b \subseteq Requests,
         \A r \in DOMAIN b : b[r].tokens \in Nat /\ b[r].estimate \in Nat
  PROVE  /\ IsFiniteSet(Alive(b, n, t))
         /\ Charge(b, n, t) \in [Alive(b, n, t) -> Nat]
         /\ Total(Charge(b, n, t)) \in Nat
<1>1. Alive(b, n, t) \in SUBSET Requests
  BY DEF Alive
<1>2. IsFiniteSet(Alive(b, n, t))
  BY <1>1, RequestsAssumption, FS_Subset
<1>3. Charge(b, n, t) \in [Alive(b, n, t) -> Nat]
  BY DEF Charge, Alive, Lesser
<1> QED
  BY <1>2, <1>3, TotalNat

\* Fewer admissions, none charged more, stay within the bound.
LEMMA ChargeShrinks ==
  ASSUME NEW b, NEW c, NEW n, NEW m, NEW t,
         DOMAIN b \subseteq Requests, DOMAIN c \subseteq Requests,
         \A r \in DOMAIN b : b[r].tokens \in Nat /\ b[r].estimate \in Nat,
         \A r \in DOMAIN c : c[r].tokens \in Nat /\ c[r].estimate \in Nat,
         Total(Charge(b, n, t)) <= Limit,
         Alive(c, m, t) \subseteq Alive(b, n, t),
         \A q \in Alive(c, m, t) :
            Lesser(c[q].tokens, c[q].estimate) <= Lesser(b[q].tokens, b[q].estimate)
  PROVE  Total(Charge(c, m, t)) <= Limit
<1>1. /\ IsFiniteSet(Alive(b, n, t))
      /\ Charge(b, n, t) \in [Alive(b, n, t) -> Nat]
      /\ Total(Charge(b, n, t)) \in Nat
  BY ChargeType
<1>2. /\ Charge(c, m, t) \in [Alive(c, m, t) -> Nat]
      /\ Total(Charge(c, m, t)) \in Nat
  BY ChargeType
<1>3. \A q \in Alive(c, m, t) : Charge(c, m, t)[q] <= Charge(b, n, t)[q]
  BY DEF Charge
<1>4. Total(Charge(c, m, t)) <= Total(Charge(b, n, t))
  BY <1>1, <1>2, <1>3, TotalMonotone
<1> QED
  BY <1>1, <1>2, <1>4, LimitAssumption

\* A check that finds room leaves room: what the tenant's admissions vouch for
\* now is no more than what the check counted at its own stamp.
LEMMA CheckCountsAlive ==
  ASSUME IInv, NEW t \in Tenants, NEW s \in Nat, s <= now
  PROVE  LET used == Used(Evict(db, s), t, s)
         IN  used \in Nat /\ Total(Charge(book, now, t)) <= used
<1> DEFINE kept == Evict(db, s)
           S == Alive(book, now, t)
           T == Live(kept, t, s)
<1>1. /\ DOMAIN kept \subseteq DOMAIN db
      /\ \A q \in DOMAIN kept : kept[q] = db[q] /\ kept[q] \in Row
      /\ \A q \in DOMAIN book : q \notin DOMAIN kept => book[q].created <= now - Window
  BY Evicted DEF IInv
<1>2. /\ now \in Nat /\ Window \in Nat
      /\ DOMAIN book \subseteq Requests
      /\ \A q \in DOMAIN book : /\ book[q].created \in Nat
                                /\ book[q].tokens \in Nat /\ book[q].estimate \in Nat
  BY WindowAssumption, BoundsAssumption DEF IInv, Shape, Entries
<1>3. DOMAIN kept \subseteq Requests
  BY <1>1 DEF IInv, Shape
<1> HIDE DEF kept
<1>4. T \in SUBSET DOMAIN kept
  BY DEF Live
<1>5. IsFiniteSet(T)
  BY <1>3, <1>4, RequestsAssumption, FS_Subset
<1>6. ASSUME NEW q \in S
      PROVE  q \in T /\ kept[q].tokens = book[q].tokens
  <2>1. q \in DOMAIN book /\ book[q].tenant = t /\ book[q].created > now - Window
    BY DEF Alive
  <2>2. q \in DOMAIN kept
    BY <2>1, <1>1, <1>2
  <2>3. /\ kept[q].tokens = book[q].tokens
        /\ kept[q].created = book[q].created
        /\ kept[q].tenant = book[q].tenant
    BY <2>1, <2>2, <1>1 DEF IInv, TableIsBook
  <2>4. book[q].created > s - Window
    BY <2>1, <1>2
  <2> QED
    BY <2>1, <2>2, <2>3, <2>4 DEF Live
<1>7. S \in SUBSET T
  BY <1>6
<1>8. Tokens(kept, T) \in [T -> Nat]
  BY <1>1, <1>4 DEF Tokens, Row
<1>9. Charge(book, now, t) \in [S -> Nat]
  BY <1>2, ChargeType
<1>10. \A q \in S : Charge(book, now, t)[q] <= Tokens(kept, T)[q]
  BY <1>2, <1>6 DEF Charge, Tokens, Alive, Lesser
<1>11. Total(Charge(book, now, t)) <= Total(Tokens(kept, T))
  BY <1>5, <1>7, <1>8, <1>9, <1>10, TotalMonotone
<1>12. Total(Tokens(kept, T)) \in Nat
  BY <1>5, <1>8, TotalNat
<1> QED
  BY <1>11, <1>12 DEF Used, kept

\* No step takes a tenant's live admissions past the limit.
LEMMA LiveBoundStep ==
  ASSUME IInv, IInv', [Next]_vars, NEW t \in Tenants, Total(Charge(book, now, t)) <= Limit
  PROVE  Total(Charge(book', now', t)) <= Limit
<1>1. /\ DOMAIN book \subseteq Requests
      /\ \A r \in DOMAIN book : /\ book[r].tokens \in Nat /\ book[r].estimate \in Nat
                                /\ book[r].created \in Nat
      /\ now \in Nat /\ Window \in Nat
  BY WindowAssumption, BoundsAssumption DEF IInv, Shape, Entries
<1>2. /\ DOMAIN book' \subseteq Requests
      /\ \A r \in DOMAIN book' : book'[r].tokens \in Nat /\ book'[r].estimate \in Nat
      /\ now' \in Nat
  BY BoundsAssumption DEF IInv, Shape, Entries
<1>3. ASSUME book' = book, now <= now'
      PROVE  Total(Charge(book', now', t)) <= Limit
  <2>1. Alive(book', now', t) \subseteq Alive(book, now, t)
    BY <1>1, <1>2, <1>3 DEF Alive
  <2>2. \A q \in Alive(book', now', t) :
           Lesser(book'[q].tokens, book'[q].estimate) <= Lesser(book[q].tokens, book[q].estimate)
    BY <1>1, <1>3 DEF Alive, Lesser
  <2> QED
    BY <1>1, <1>2, <2>1, <2>2, ChargeShrinks
<1>4. ASSUME NEW r \in Requests, Commit(r)
      PROVE  Total(Charge(book', now', t)) <= Limit
  <2> DEFINE a == ask[r]
             kept == Evict(db, a.stamp)
             entry == [tenant |-> a.tenant, estimate |-> a.estimate,
                       tokens |-> a.estimate, created |-> a.stamp]
  <2>1. now' = now /\ phase[r] # "idle"
    BY <1>4, Committed
  <2>2. /\ a.tenant \in Tenants /\ a.estimate \in Nat
        /\ a.stamp \in Nat /\ a.stamp <= now /\ a.usage \in Nat
    BY <2>1, AskKnown DEF IInv
  <2>3. CASE book' = book
    BY <2>1, <2>3, <1>1, <1>3
  <2>4. CASE /\ phase[r] = "reserve"
             /\ ~(Used(kept, a.tenant, a.stamp) + a.estimate > Limit)
             /\ book' = Insert(book, r, entry)
    <3>1. r \notin DOMAIN book
      BY <2>4 DEF IInv, Entries, Standing
    <3>2. /\ DOMAIN book' = DOMAIN book \cup {r}
          /\ book'[r] = entry
          /\ \A q \in DOMAIN book : book'[q] = book[q]
      BY <2>4, <3>1 DEF Insert
    <3> DEFINE S == Alive(book, now, t)
               S1 == Alive(book', now', t)
               f == Charge(book', now', t)
    <3>3. CASE r \notin S1
      <4>1. S1 \subseteq S
        BY <3>2, <3>3, <2>1 DEF Alive
      <4>2. \A q \in S1 : Lesser(book'[q].tokens, book'[q].estimate)
                            <= Lesser(book[q].tokens, book[q].estimate)
        BY <4>1, <3>2, <1>1 DEF Alive, Lesser
      <4> QED
        BY <1>1, <1>2, <4>1, <4>2, ChargeShrinks
    <3>4. CASE r \in S1
      <4>1. t = a.tenant
        BY <3>2, <3>4 DEF Alive
      <4>2. S1 = S \cup {r} /\ r \notin S
        BY <3>1, <3>2, <3>4, <2>1 DEF Alive
      <4>3. IsFiniteSet(S) /\ Total(Charge(book, now, t)) \in Nat
        BY <1>1, ChargeType
      <4>4. f \in [S1 -> Nat]
        BY <1>2, ChargeType
      <4>5. f[r] = a.estimate
        <5>1. entry.tokens = a.estimate /\ entry.estimate = a.estimate
          OBVIOUS
        <5> QED
          BY <5>1, <3>2, <3>4 DEF Charge, Lesser
      <4>6. [q \in S |-> f[q]] = Charge(book, now, t)
        BY <3>2, <4>2 DEF Charge, Alive
      <4> HIDE DEF S, S1, f
      <4>7. Total(f) = Total(Charge(book, now, t)) + a.estimate
        BY <4>2, <4>3, <4>4, <4>5, <4>6, TotalAdd
      <4> HIDE DEF a
      <4>8. /\ Used(kept, a.tenant, a.stamp) \in Nat
            /\ Total(Charge(book, now, t)) <= Used(kept, a.tenant, a.stamp)
        BY <2>2, <4>1, CheckCountsAlive
      <4>9. Total(f) <= Limit
        <5> HIDE DEF kept
        <5> QED
          BY <2>2, <2>4, <4>3, <4>7, <4>8, LimitAssumption
      <4> QED
        BY <4>9 DEF f
    <3> QED
      BY <3>3, <3>4
  <2>5. CASE /\ phase[r] \in {"settle", "orphan"}
             /\ book' = [book EXCEPT ![r].tokens = a.usage]
    <3>1. r \in DOMAIN book /\ book[r].tokens = book[r].estimate
      BY <2>5 DEF IInv, Entries, Standing
    <3>2. /\ DOMAIN book' = DOMAIN book
          /\ book'[r] = [book[r] EXCEPT !.tokens = a.usage]
          /\ \A q \in DOMAIN book \ {r} : book'[q] = book[q]
      BY <2>5, <3>1
    <3>3. /\ book'[r].tenant = book[r].tenant /\ book'[r].estimate = book[r].estimate
          /\ book'[r].created = book[r].created
      BY <3>1, <3>2 DEF IInv, Entries
    <3>4. \A q \in DOMAIN book :
             Lesser(book'[q].tokens, book'[q].estimate) <= Lesser(book[q].tokens, book[q].estimate)
      <4>1. \A q \in DOMAIN book : q # r => book'[q] = book[q]
        BY <3>2
      <4>2. ASSUME NEW x \in Nat, NEW y \in Nat
            PROVE  Lesser(x, y) \in Nat /\ Lesser(x, y) <= y /\ Lesser(y, y) = y
        BY DEF Lesser
      <4>3. Lesser(book'[r].tokens, book'[r].estimate) <= Lesser(book[r].tokens, book[r].estimate)
        BY <1>1, <1>2, <3>1, <3>2, <3>3, <4>2
      <4>4. \A q \in DOMAIN book : Lesser(book[q].tokens, book[q].estimate) \in Nat
        BY <1>1, <4>2
      <4> QED
        BY <4>1, <4>3, <4>4
    <3>5. Alive(book', now', t) \subseteq Alive(book, now, t)
      BY <2>1, <3>2, <3>3 DEF Alive
    <3>6. \A q \in Alive(book', now', t) :
             Lesser(book'[q].tokens, book'[q].estimate) <= Lesser(book[q].tokens, book[q].estimate)
      BY <3>2, <3>4 DEF Alive
    <3> QED
      BY <1>1, <1>2, <3>5, <3>6, ChargeShrinks
  <2>6. CASE book' = Delete(book, r)
    <3>1. DOMAIN book' \subseteq DOMAIN book /\ \A q \in DOMAIN book' : book'[q] = book[q]
      BY <2>6 DEF Delete
    <3>2. Alive(book', now', t) \subseteq Alive(book, now, t)
      BY <2>1, <3>1 DEF Alive
    <3>3. \A q \in Alive(book', now', t) :
             Lesser(book'[q].tokens, book'[q].estimate) <= Lesser(book[q].tokens, book[q].estimate)
      BY <1>1, <3>1 DEF Alive, Lesser
    <3> QED
      BY <1>1, <1>2, <3>2, <3>3, ChargeShrinks
  <2> QED
    BY <1>4, <2>3, <2>4, <2>5, <2>6, Committed
<1>5. CASE Tick
  BY <1>1, <1>3, <1>5 DEF Tick
<1>6. CASE \/ \E w \in Workers : Crash(w)
           \/ \E r \in Requests :
                 \/ \E w \in Workers, x \in Tenants, n \in Estimates : Reserve(r, w, x, n)
                 \/ \E u \in Usages : Settle(r, u)
                 \/ Release(r) \/ Cancel(r) \/ Fault(r)
                 \/ Begin(r) \/ BeginFails(r) \/ Body(r)
           \/ UNCHANGED vars
  <2>1. book' = book /\ now' = now
    BY <1>6 DEF Crash, Reserve, Settle, Release, Cancel, Fault, Begin, BeginFails, Body, Raise, vars
  <2> QED
    BY <2>1, <1>1, <1>3
<1> QED
  BY <1>4, <1>5, <1>6 DEF Next, Thread

\* Reserve-then-settle never lets a tenant's live admissions pass the limit,
\* however the checks, settlements and releases of several workers interleave
\* (ratelimit.py:11-19, store.py:18-29).
THEOREM LimitHolds == Spec => []LiveBound
<1> DEFINE Bound == \A t \in Tenants : Total(Charge(book, now, t)) <= Limit
<1>1. Init => Bound
  <2> SUFFICES ASSUME Init, NEW t \in Tenants
               PROVE  Total(Charge(book, now, t)) <= Limit
    OBVIOUS
  <2>1. Units(Charge(book, now, t)) = {}
    BY DEF Init, Units, Charge, Alive
  <2> QED
    BY <2>1, FS_EmptySet, LimitAssumption DEF Total
<1>2. IInv /\ IInv' /\ Bound /\ [Next]_vars => Bound'
  BY LiveBoundStep
<1>3. IInv /\ Bound => LiveBound
  BY LiveBoundIs
<1> QED
  BY <1>1, <1>2, <1>3, Invariant, PTL DEF Spec


-----------------------------------------------------------------------------
(* The advertised wait.                                                    *)

\* A transaction about to refuse has not written since the table was read: its
\* rows are those of the table its check left, and they do not leave room.
LEMMA RefusedWork ==
  ASSUME IInv, NEW w \in DOMAIN txn, txn[w].step = "refuse"
  PROVE  \E r \in Requests :
            LET a == ask[r]
                kept == Evict(db, a.stamp)
            IN  /\ txn[w].owner = r /\ phase[r] = "reserve"
                /\ txn[w].rows = kept
                /\ txn[w].wait = RetryAfter(kept, a.tenant, a.stamp, a.estimate)
                /\ Used(kept, a.tenant, a.stamp) + a.estimate > Limit
<1>1. PICK r \in Requests : /\ txn[w].owner = r /\ HasThread(r)
                            /\ txn[w] = Begun(r) \/ txn[w] = Work(r, Begun(r))
  BY OwnerKnown DEF IInv
<1>2. Begun(r).step = "begun"
  BY DEF Begun
<1>3. txn[w] = Work(r, Begun(r))
  BY <1>1, <1>2
<1>4. phase[r] \in {"reserve", "settle", "release", "orphan"}
  BY <1>1, ThreadPhase
<1> DEFINE a == ask[r]
           kept == Evict(db, a.stamp)
           full == Used(kept, a.tenant, a.stamp) + a.estimate > Limit
<1>5. phase[r] = "reserve"
  <2>1. CASE phase[r] \in {"settle", "orphan"}
    BY <1>3, <2>1, WorkFields
  <2>2. CASE phase[r] = "release"
    BY <1>3, <2>2, WorkFields
  <2> QED
    BY <1>4, <2>1, <2>2
<1>6. full
  <2>1. ~full => Work(r, Begun(r)).step = "admit"
    BY <1>5, WorkFields
  <2> QED
    BY <1>3, <2>1
<1>7. txn[w].rows = kept /\ txn[w].wait = RetryAfter(kept, a.tenant, a.stamp, a.estimate)
  BY <1>3, <1>5, <1>6, WorkFields
<1> QED
  BY <1>1, <1>5, <1>6, <1>7

\* The advertised wait is the least one: at the stamp of the check plus the
\* wait the request would fit, at no instant before it would; a request larger
\* than the limit is told one window (ratelimit.py:109-135).
THEOREM WaitIsLeast == Spec => []RetryIsLeast
<1>1. IInv => RetryIsLeast
  <2> SUFFICES ASSUME IInv, NEW w \in DOMAIN txn, txn[w].step = "refuse"
               PROVE  LET a == ask[txn[w].owner]
                          fitsAfter(d) == Used(txn[w].rows, a.tenant, a.stamp + d)
                                             + a.estimate <= Limit
                      IN  IF a.estimate > Limit
                          THEN txn[w].wait = Window
                          ELSE fitsAfter(txn[w].wait) /\ \A d \in 0 .. txn[w].wait - 1 : ~fitsAfter(d)
    BY DEF RetryIsLeast
  <2>1. PICK r \in Requests :
            LET a == ask[r]
                kept == Evict(db, a.stamp)
            IN  /\ txn[w].owner = r /\ phase[r] = "reserve"
                /\ txn[w].rows = kept
                /\ txn[w].wait = RetryAfter(kept, a.tenant, a.stamp, a.estimate)
                /\ Used(kept, a.tenant, a.stamp) + a.estimate > Limit
    BY RefusedWork
  <2> DEFINE a == ask[r]
             kept == Evict(db, a.stamp)
  <2>2. a.estimate \in Nat /\ a.stamp \in Nat /\ a.stamp <= now /\ now \in Nat
    BY <2>1, AskKnown, BoundsAssumption DEF IInv, Shape
  <2>3. IsFiniteSet(DOMAIN kept)
    <3>1. DOMAIN kept \in SUBSET Requests
      BY DEF Evict, IInv, Shape
    <3> QED
      BY <3>1, RequestsAssumption, FS_Subset
  <2>4. ASSUME NEW q \in DOMAIN kept
        PROVE  kept[q].tokens \in Nat /\ kept[q].created \in Nat /\ kept[q].created <= now
    <3>1. q \in DOMAIN db /\ kept[q] = db[q] /\ db[q] \in Row
      BY DEF Evict, IInv, Shape
    <3>2. q \in DOMAIN book /\ db[q].created = book[q].created
      BY <3>1 DEF IInv, TableIsBook
    <3>3. q \in Requests /\ phase[q] # "idle" /\ book[q].created = ask[q].stamp
      BY <3>2 DEF IInv, Entries, Standing
    <3>4. ask[q].stamp <= now
      BY <3>3, AskKnown DEF IInv
    <3> QED
      BY <3>1, <3>2, <3>3, <3>4 DEF Row
  <2> HIDE DEF kept
  <2>5. LET wait == RetryAfter(kept, a.tenant, a.stamp, a.estimate)
        IN  IF a.estimate > Limit THEN wait = Window
            ELSE /\ wait \in Nat
                 /\ Used(kept, a.tenant, a.stamp + wait) + a.estimate <= Limit
                 /\ \A d \in 0 .. wait - 1 :
                       ~(Used(kept, a.tenant, a.stamp + d) + a.estimate <= Limit)
    <3>1. Used(kept, a.tenant, a.stamp) + a.estimate > Limit
      BY <2>1 DEF kept
    <3> HIDE DEF a
    <3> QED
      BY <2>2, <2>3, <2>4, <3>1, RetryAfterIsLeast
  <2>6. /\ txn[w].owner = r /\ txn[w].rows = kept
        /\ txn[w].wait = RetryAfter(kept, a.tenant, a.stamp, a.estimate)
    BY <2>1 DEF kept
  <2> QED
    BY <2>5, <2>6
<1> QED
  BY <1>1, Invariant, PTL


-----------------------------------------------------------------------------
(* One worker.                                                             *)

OneWorker == \A v, w \in Workers : v = w

\* The checks that wait for the lock come in the order of their stamps: the
\* clock is read and the lock requested in one run of the event loop.
Ordered ==
    \A w \in Workers : \A i, j \in DOMAIN line[w] :
        /\ i < j
        /\ phase[line[w][i]] = "reserve" /\ phase[line[w][j]] = "reserve"
        => ask[line[w][i]].stamp <= ask[line[w][j]].stamp

\* Every check still to run is stamped so late that nothing evicted so far is
\* in its window.  With two workers a check may carry a stamp older than the
\* one another worker has evicted by, and this fails.
Fresh ==
    \A r \in DOMAIN book, q \in Requests :
        r \notin DOMAIN db /\ phase[q] = "reserve" => book[r].created <= ask[q].stamp - Window


\* Both hold of no call, which is where a worker starts.
LEMMA FreshInitially == Init => Ordered /\ Fresh
<1> SUFFICES ASSUME Init
             PROVE  Ordered /\ Fresh
  OBVIOUS
<1>1. \A q \in Requests : phase[q] = "idle"
  BY DEF Init
<1>2. \A w \in Workers : DOMAIN line[w] = {}
  BY DEF Init
<1>3. DOMAIN book = {}
  BY DEF Init
<1> QED
  BY <1>1, <1>2, <1>3 DEF Ordered, Fresh

\* The requests in a line are requests.
LEMMA InLineRange ==
  ASSUME Shape, NEW w \in Workers, NEW i \in DOMAIN line[w]
  PROVE  line[w][i] \in Requests /\ line[w][i] \in ToSet(line[w])
<1>1. line[w] \in Seq(Requests)
  BY DEF Shape
<1> QED
  BY <1>1, ElementOfSeq, LenProperties DEF ToSet

\* A check that joins the line is stamped no earlier than those before it.
LEMMA OrderedJoins ==
  ASSUME Shape, Queues, Ordered,
         NEW r \in Requests, NEW w \in Workers, ~InLine(r),
         Queue(w, r),
         NEW p \in {"reserve", "settle", "release"}, phase' = [phase EXCEPT ![r] = p],
         p = "reserve" => ask'[r].stamp = now,
         \A q \in Requests \ {r} : phase[q] # "idle" => ask'[q] = ask[q]
  PROVE  Ordered'
<1> DEFINE s == line[w]
           t == Append(s, r)
<1>1. s \in Seq(Requests) /\ IsInjective(s) /\ r \notin ToSet(s)
  BY DEF Shape, Queues
<1>2. \A i \in DOMAIN t, j \in DOMAIN t :
         i < j => /\ i \in DOMAIN s /\ t[i] = s[i]
                  /\ t[j] = r \/ (j \in DOMAIN s /\ t[j] = s[j])
  BY <1>1, JoinLine
<1>3. line \in [Workers -> Seq(Requests)] /\ line' = [line EXCEPT ![w] = t]
  BY DEF Shape, Queue
<1>4. /\ phase'[r] = p
      /\ \A q \in Requests \ {r} : phase'[q] = phase[q]
  BY DEF Shape
<1> HIDE DEF t
<1>5. \A v \in Workers : line'[v] = IF v = w THEN t ELSE line[v]
  BY <1>3
<1>6. \A q \in Requests : phase[q] = "reserve" => ask[q].stamp \in Nat /\ ask[q].stamp <= now
  BY AskKnown
<1>7. ASSUME NEW v \in Workers, NEW i \in DOMAIN line[v]
      PROVE  line[v][i] \in Requests \ {r}
  BY InLineRange DEF Queues
<1>8. ASSUME NEW v \in Workers, NEW i \in DOMAIN line'[v], NEW j \in DOMAIN line'[v], i < j,
             phase'[line'[v][i]] = "reserve", phase'[line'[v][j]] = "reserve"
      PROVE  ask'[line'[v][i]].stamp <= ask'[line'[v][j]].stamp
  <2>1. CASE v # w
    <3>1. line'[v] = line[v]
      BY <2>1, <1>5
    <3>2. line[v][i] \in Requests \ {r} /\ line[v][j] \in Requests \ {r}
      BY <3>1, <1>7, <1>8
    <3>3. /\ phase[line[v][i]] = "reserve" /\ phase[line[v][j]] = "reserve"
          /\ ask'[line[v][i]] = ask[line[v][i]] /\ ask'[line[v][j]] = ask[line[v][j]]
      BY <3>1, <3>2, <1>4, <1>8
    <3> QED
      BY <3>1, <3>3, <1>8 DEF Ordered
  <2>2. CASE v = w
    <3>1. line'[v] = t
      BY <2>2, <1>5
    <3>2. /\ i \in DOMAIN s /\ t[i] = s[i]
          /\ t[j] = r \/ (j \in DOMAIN s /\ t[j] = s[j])
      BY <3>1, <1>2, <1>8
    <3>3. s[i] \in Requests \ {r}
      BY <3>2, <1>7
    <3>4. phase[s[i]] = "reserve" /\ ask'[s[i]] = ask[s[i]]
      BY <3>1, <3>2, <3>3, <1>4, <1>8
    <3>5. CASE t[j] = r
      BY <3>1, <3>2, <3>3, <3>4, <3>5, <1>4, <1>6, <1>8
    <3>6. CASE j \in DOMAIN s /\ t[j] = s[j]
      <4>1. s[j] \in Requests \ {r}
        BY <3>6, <1>7
      <4>2. phase[s[j]] = "reserve" /\ ask'[s[j]] = ask[s[j]]
        BY <3>1, <3>6, <4>1, <1>4, <1>8
      <4> QED
        BY <3>1, <3>2, <3>4, <3>6, <4>2, <1>8 DEF Ordered
    <3> QED
      BY <3>2, <3>5, <3>6
  <2> QED
    BY <2>1, <2>2
<1> QED
  BY <1>8 DEF Ordered

\* The order of a line after somebody left, of LeaveLine.
LEMMA LeaveOrder ==
  ASSUME NEW S, NEW s \in Seq(S), IsInjective(s), NEW e
  PROVE  \A i \in DOMAIN RemoveFirst(s, e), j \in DOMAIN RemoveFirst(s, e) :
            i < j => \E k \in DOMAIN s, l \in DOMAIN s :
                        /\ k < l
                        /\ RemoveFirst(s, e)[i] = s[k] /\ RemoveFirst(s, e)[j] = s[l]
BY LeaveLine

\* Who leaves changes nobody's order.
LEMMA OrderedLeaves ==
  ASSUME Shape, Queues, Ordered,
         NEW r \in Requests, phase[r] # "idle",
         Leave(ask[r].worker, r), ask' = ask,
         NEW p, p # "reserve", phase' = [phase EXCEPT ![r] = p]
  PROVE  Ordered'
<1> DEFINE w == ask[r].worker
           s == line[w]
           t == RemoveFirst(s, r)
<1>1. w \in Workers
  BY DEF Shape
<1>2. s \in Seq(Requests) /\ IsInjective(s)
  BY <1>1 DEF Shape, Queues
<1>3. \A i \in DOMAIN t, j \in DOMAIN t :
         i < j => \E k \in DOMAIN s, l \in DOMAIN s : k < l /\ t[i] = s[k] /\ t[j] = s[l]
  <2> HIDE DEF s, t
  <2> QED
    BY <1>2, LeaveOrder DEF t
<1>4. line \in [Workers -> Seq(Requests)] /\ line' = [line EXCEPT ![w] = t]
  BY DEF Shape, Leave
<1> HIDE DEF t, w
<1>5. \A v \in Workers : line'[v] = IF v = w THEN t ELSE line[v]
  BY <1>4
<1>6. ASSUME NEW q \in Requests, phase'[q] = "reserve"
      PROVE  phase[q] = "reserve"
  BY <1>6 DEF Shape
<1>7. ASSUME NEW v \in Workers, NEW i \in DOMAIN line'[v], NEW j \in DOMAIN line'[v], i < j,
             phase'[line'[v][i]] = "reserve", phase'[line'[v][j]] = "reserve"
      PROVE  ask'[line'[v][i]].stamp <= ask'[line'[v][j]].stamp
  <2>1. PICK k \in DOMAIN line[v], l \in DOMAIN line[v] :
                k < l /\ line'[v][i] = line[v][k] /\ line'[v][j] = line[v][l]
    <3>1. CASE v # w
      BY <3>1, <1>5, <1>7
    <3>2. CASE v = w
      BY <3>2, <1>3, <1>5, <1>7
    <3> QED
      BY <3>1, <3>2
  <2>2. line[v][k] \in Requests /\ line[v][l] \in Requests
    BY InLineRange
  <2>3. phase[line[v][k]] = "reserve" /\ phase[line[v][l]] = "reserve"
    BY <2>1, <2>2, <1>6, <1>7
  <2> QED
    BY <2>1, <2>3 DEF Ordered
<1> QED
  BY <1>7 DEF Ordered


\* A step that moves no call between phases keeps the order.
LEMMA OrderedFrame ==
  ASSUME Ordered, line' = line, phase' = phase, ask' = ask
  PROVE  Ordered'
BY DEF Ordered

LEMMA OrderedStep == IInv /\ Ordered /\ [Next]_vars => Ordered'
<1> SUFFICES ASSUME IInv, Ordered, [Next]_vars
             PROVE  Ordered'
  OBVIOUS
<1> USE DEF IInv
<1>1. ASSUME NEW r \in Requests, NEW w \in Workers, NEW t \in Tenants, NEW n \in Estimates,
             Reserve(r, w, t, n)
      PROVE  Ordered'
  <2> DEFINE a == [worker |-> w, tenant |-> t, estimate |-> n, stamp |-> now, usage |-> 0]
  <2>1. /\ phase[r] = "idle" /\ Queue(w, r)
        /\ phase' = [phase EXCEPT ![r] = "reserve"]
        /\ ask' = Insert(ask, r, a)
    BY <1>1 DEF Reserve
  <2>2. /\ ask'[r].stamp = now
        /\ \A q \in Requests \ {r} : phase[q] # "idle" => ask'[q] = ask[q]
    BY <2>1 DEF Insert, Shape
  <2>3. ~InLine(r)
    BY <2>1 DEF InLine
  <2> HIDE DEF IInv
  <2> QED
    BY <2>1, <2>2, <2>3, OrderedJoins DEF IInv
<1>2. ASSUME NEW r \in Requests, NEW u \in Usages, Settle(r, u)
      PROVE  Ordered'
  <2>1. /\ phase[r] = "held" /\ Queue(ask[r].worker, r) /\ ask[r].worker \in Workers
        /\ phase' = [phase EXCEPT ![r] = "settle"]
        /\ ask' = [ask EXCEPT ![r].usage = u]
    BY <1>2 DEF Settle, Shape
  <2>2. \A q \in Requests \ {r} : phase[q] # "idle" => ask'[q] = ask[q]
    BY <2>1 DEF Shape
  <2>3. ~InLine(r)
    BY <2>1 DEF InLine
  <2> QED
    BY <2>1, <2>2, <2>3, OrderedJoins
<1>3. ASSUME NEW r \in Requests, Release(r)
      PROVE  Ordered'
  <2>1. /\ phase[r] \in {"held", "unsettled"} /\ Queue(ask[r].worker, r) /\ ask[r].worker \in Workers
        /\ phase' = [phase EXCEPT ![r] = "release"]
        /\ ask' = ask
    BY <1>3 DEF Release, Shape
  <2>2. ~InLine(r)
    BY <2>1 DEF InLine
  <2> QED
    BY <2>1, <2>2, OrderedJoins
<1>4. ASSUME NEW r \in Requests, Cancel(r)
      PROVE  Ordered'
  <2>1. /\ phase[r] = "settle" /\ Leave(ask[r].worker, r) /\ ask' = ask
        /\ \/ phase' = [phase EXCEPT ![r] = "unsettled"]
           \/ phase' = [phase EXCEPT ![r] = "orphan"]
    BY <1>4 DEF Cancel
  <2> QED
    BY <2>1, OrderedLeaves
<1>5. ASSUME NEW r \in Requests, HasThread(r), Raise(r)
      PROVE  Ordered'
  <2> DEFINE p == IF phase[r] = "reserve" THEN "error" ELSE "unsettled"
  <2>1. phase[r] # "idle"
    BY <1>5, ThreadPhase
  <2>2. phase' = [phase EXCEPT ![r] = p] /\ Leave(ask[r].worker, r) /\ ask' = ask
    BY <1>5 DEF Raise
  <2>3. p # "reserve"
    OBVIOUS
  <2> HIDE DEF p
  <2> QED
    BY <2>1, <2>2, <2>3, OrderedLeaves
<1>6. ASSUME NEW r \in Requests, Commit(r)
      PROVE  Ordered'
  <2>1. /\ phase[r] # "idle" /\ Leave(ask[r].worker, r) /\ ask' = ask
        /\ \E p \in {"refused", "held", "settled", "released"} : phase' = [phase EXCEPT ![r] = p]
    <3>1. /\ Leave(ask[r].worker, r) /\ ask' = ask
          /\ phase[r] \in {"reserve", "settle", "release", "orphan"}
          /\ \/ phase' = [phase EXCEPT ![r] = "refused"]
             \/ phase' = [phase EXCEPT ![r] = "held"]
             \/ phase' = [phase EXCEPT ![r] = "settled"]
             \/ phase' = [phase EXCEPT ![r] = "released"]
      BY <1>6, Committed
    <3> QED
      BY <3>1
  <2>2. PICK p \in {"refused", "held", "settled", "released"} : phase' = [phase EXCEPT ![r] = p]
    BY <2>1
  <2>3. p # "reserve"
    BY <2>2
  <2> QED
    BY <2>1, <2>2, <2>3, OrderedLeaves
<1>7. ASSUME NEW w \in Workers, Crash(w)
      PROVE  Ordered'
  <2>1. /\ line' = [line EXCEPT ![w] = <<>>] /\ ask' = ask
        /\ \A q \in Requests : phase'[q] \in {"lost", phase[q]}
    BY <1>7 DEF Crash
  <2>2. /\ line'[w] = <<>>
        /\ \A v \in Workers \ {w} : line'[v] = line[v]
    BY <2>1 DEF Shape
  <2>3. ASSUME NEW v \in Workers, NEW i \in DOMAIN line'[v], NEW j \in DOMAIN line'[v], i < j,
               phase'[line'[v][i]] = "reserve", phase'[line'[v][j]] = "reserve"
        PROVE  ask'[line'[v][i]].stamp <= ask'[line'[v][j]].stamp
    <3>1. v # w
      BY <2>2, <2>3
    <3>2. line'[v] = line[v]
      BY <2>2, <3>1
    <3>3. line[v][i] \in Requests /\ line[v][j] \in Requests
      BY <3>2, <2>3, InLineRange
    <3>4. phase[line[v][i]] = "reserve" /\ phase[line[v][j]] = "reserve"
      BY <2>1, <2>3, <3>2, <3>3
    <3> QED
      BY <2>1, <2>3, <3>2, <3>4 DEF Ordered
  <2> QED
    BY <2>3 DEF Ordered
<1>8. ASSUME NEW r \in Requests, Begin(r) \/ Body(r)
      PROVE  Ordered'
  BY <1>8, OrderedFrame DEF Begin, Body
<1>9. CASE Tick \/ UNCHANGED vars
  BY <1>9, OrderedFrame DEF Tick, vars
<1>10. ASSUME NEW r \in Requests, BeginFails(r) \/ Fault(r)
       PROVE  HasThread(r) /\ Raise(r)
  BY <1>10 DEF BeginFails, Fault
<1> HIDE DEF IInv
<1> QED
  BY <1>1, <1>2, <1>3, <1>4, <1>5, <1>6, <1>7, <1>8, <1>9, <1>10 DEF Next, Thread

\* With one worker, the check that commits is the oldest of those that wait.
LEMMA OldestCommits ==
  ASSUME OneWorker, IInv, Ordered,
         NEW r \in Requests, phase[r] = "reserve", HasThread(r),
         NEW q \in Requests, phase[q] = "reserve"
  PROVE  ask[r].stamp <= ask[q].stamp
<1>1. PICK w \in Workers : ask[r].worker = w
  BY AskKnown DEF IInv
<1>2. ask[q].worker = w
  BY <1>1, AskKnown DEF IInv, OneWorker
<1>3. Head(line[w]) = r /\ r \in ToSet(line[w]) /\ q \in ToSet(line[w])
  BY <1>1, <1>2 DEF HasThread, IInv, Queues, InLine
<1>4. line[w] \in Seq(Requests)
  BY DEF IInv, Shape
<1>5. PICK j \in DOMAIN line[w] : line[w][j] = q
  BY <1>3 DEF ToSet
<1>6. /\ j \in Nat /\ 1 <= j
      /\ 1 \in DOMAIN line[w] /\ line[w][1] = r
  BY <1>3, <1>4, <1>5, LenProperties
<1>7. ask[q].stamp \in Nat
  BY AskKnown DEF IInv
<1>8. CASE j = 1
  BY <1>5, <1>6, <1>7, <1>8
<1>9. CASE 1 < j
  BY <1>5, <1>6, <1>9 DEF Ordered
<1> QED
  BY <1>6, <1>8, <1>9


\* With one worker, what a check does not find in the table after its own
\* eviction is out of the window of every check that waits, its own included.
LEMMA EvictedIsOld ==
  ASSUME OneWorker, IInv, Ordered, Fresh,
         NEW r \in Requests, phase[r] = "reserve", HasThread(r),
         NEW q \in Requests, phase[q] = "reserve",
         NEW x \in DOMAIN book, x \notin DOMAIN Evict(db, ask[r].stamp)
  PROVE  book[x].created <= ask[q].stamp - Window
<1>1. CASE x \notin DOMAIN db
  BY <1>1 DEF Fresh
<1>2. CASE x \in DOMAIN db
  <2>1. ~(db[x].created > ask[r].stamp - Window) /\ db[x].created = book[x].created
    BY <1>2 DEF Evict, IInv, TableIsBook
  <2>2. book[x].created \in Nat
    BY DEF IInv, Entries
  <2>3. ask[r].stamp \in Nat /\ ask[q].stamp \in Nat /\ ask[r].stamp <= ask[q].stamp
    BY OldestCommits, AskKnown DEF IInv
  <2> QED
    BY <2>1, <2>2, <2>3, WindowAssumption
<1> QED
  BY <1>1, <1>2

LEMMA FreshStep == OneWorker /\ IInv /\ Ordered /\ Fresh /\ [Next]_vars => Fresh'
<1> SUFFICES ASSUME OneWorker, IInv, Ordered, Fresh, [Next]_vars
             PROVE  Fresh'
  OBVIOUS
<1>1. ASSUME NEW r \in Requests, NEW w \in Workers, NEW t \in Tenants, NEW n \in Estimates,
             Reserve(r, w, t, n)
      PROVE  Fresh'
  <2>1. /\ phase' = [phase EXCEPT ![r] = "reserve"]
        /\ ask' = Insert(ask, r, [worker |-> w, tenant |-> t, estimate |-> n,
                                  stamp |-> now, usage |-> 0])
        /\ UNCHANGED <<db, book>>
    BY <1>1 DEF Reserve
  <2>2. ask'[r].stamp = now
    BY <2>1 DEF Insert
  <2>3. \A q \in Requests \ {r} : phase'[q] = "reserve" => phase[q] = "reserve" /\ ask'[q] = ask[q]
    BY <2>1 DEF Insert, IInv, Shape
  <2>4. \A x \in DOMAIN book : x \notin DOMAIN db => book[x].created <= now - Window
    BY DEF IInv, TableIsBook, Expired
  <2>5. ASSUME NEW x \in DOMAIN book, NEW q \in Requests, x \notin DOMAIN db, phase'[q] = "reserve"
        PROVE  book[x].created <= ask'[q].stamp - Window
    <3>1. CASE q = r
      BY <3>1, <2>2, <2>4, <2>5
    <3>2. CASE q # r
      BY <3>2, <2>3, <2>5 DEF Fresh
    <3> QED
      BY <3>1, <3>2
  <2> QED
    BY <2>1, <2>5 DEF Fresh
<1>2. ASSUME NEW r \in Requests, Commit(r)
      PROVE  Fresh'
  <2> DEFINE a == ask[r]
             kept == Evict(db, a.stamp)
             fits == ~(Used(kept, a.tenant, a.stamp) + a.estimate > Limit)
             row == [tenant |-> a.tenant, tokens |-> a.estimate,
                     created |-> a.stamp, state |-> "reserved"]
             entry == [tenant |-> a.tenant, estimate |-> a.estimate,
                       tokens |-> a.estimate, created |-> a.stamp]
  <2>1. ask' = ask /\ HasThread(r)
    <3>1. Begun(r).step = "begun" /\ Owns(r)
      BY <1>2 DEF Begun, Commit
    <3> QED
      BY <3>1, <1>2, Committed, OwnedBy DEF IInv
  <2>2. \A q \in Requests : phase'[q] = "reserve" => phase[q] = "reserve"
    <3>1. \/ phase' = [phase EXCEPT ![r] = "refused"]
          \/ phase' = [phase EXCEPT ![r] = "held"]
          \/ phase' = [phase EXCEPT ![r] = "settled"]
          \/ phase' = [phase EXCEPT ![r] = "released"]
      BY <1>2, Committed
    <3> QED
      BY <3>1 DEF IInv, Shape
  <2>3. ASSUME NEW x \in DOMAIN book', NEW q \in Requests, x \notin DOMAIN db', phase'[q] = "reserve"
        PROVE  book'[x].created <= ask[q].stamp - Window
    <3>1. phase[q] = "reserve"
      BY <2>2, <2>3
    <3>2. CASE phase[r] = "reserve" /\ db' = kept /\ book' = book
      <4> HIDE DEF kept
      <4>1. x \in DOMAIN book /\ x \notin DOMAIN kept
        BY <2>3, <3>2
      <4> QED
        BY <4>1, <2>1, <3>1, <3>2, EvictedIsOld DEF kept
    <3>3. CASE phase[r] = "reserve" /\ db' = Insert(kept, r, row) /\ book' = Insert(book, r, entry)
      <4> HIDE DEF kept, row, entry
      <4>1. x \in DOMAIN book /\ x \notin DOMAIN kept /\ book'[x] = book[x]
        BY <2>3, <3>3 DEF Insert
      <4> QED
        BY <4>1, <2>1, <3>1, <3>3, EvictedIsOld DEF kept
    <3>4. CASE /\ phase[r] \in {"settle", "orphan"}
               /\ DOMAIN db' = DOMAIN db
               /\ book' = [book EXCEPT ![r].tokens = a.usage]
      <4>1. x \in DOMAIN book /\ x \notin DOMAIN db
        BY <2>3, <3>4
      <4>2. book[x] \in [tenant : Tenants, estimate : Nat, tokens : Nat, created : Nat]
        BY <4>1 DEF IInv, Entries
      <4>3. book'[x].created = book[x].created
        BY <4>1, <4>2, <3>4
      <4> QED
        BY <4>1, <4>3, <3>1 DEF Fresh
    <3>5. CASE db' = Delete(db, r) /\ book' = Delete(book, r)
      <4>1. x \in DOMAIN book /\ x \notin DOMAIN db /\ book'[x] = book[x]
        BY <2>3, <3>5 DEF Delete
      <4> QED
        BY <4>1, <3>1 DEF Fresh
    <3>6. \/ phase[r] = "reserve" /\ db' = kept /\ book' = book
          \/ phase[r] = "reserve" /\ db' = Insert(kept, r, row) /\ book' = Insert(book, r, entry)
          \/ /\ phase[r] \in {"settle", "orphan"}
             /\ DOMAIN db' = DOMAIN db
             /\ book' = [book EXCEPT ![r].tokens = a.usage]
          \/ db' = Delete(db, r) /\ book' = Delete(book, r)
      BY <1>2, Committed
    <3> QED
      BY <3>2, <3>3, <3>4, <3>5, <3>6
  <2> QED
    BY <2>1, <2>3 DEF Fresh
<1>3. ASSUME UNCHANGED <<db, book>>,
             \A q \in Requests : phase'[q] = "reserve" => phase[q] = "reserve" /\ ask'[q] = ask[q]
      PROVE  Fresh'
  BY <1>3 DEF Fresh
<1>4. ASSUME NEW r \in Requests, NEW u \in Usages, Settle(r, u)
      PROVE  Fresh'
  <2>1. /\ UNCHANGED <<db, book>>
        /\ phase[r] = "held"
        /\ phase' = [phase EXCEPT ![r] = "settle"] /\ ask' = [ask EXCEPT ![r].usage = u]
    BY <1>4 DEF Settle
  <2>2. \A q \in Requests : phase'[q] = "reserve" => phase[q] = "reserve" /\ ask'[q] = ask[q]
    BY <2>1 DEF IInv, Shape
  <2> QED
    BY <2>1, <2>2, <1>3
<1>5. CASE \/ \E w \in Workers : Crash(w)
           \/ \E r \in Requests : \/ Release(r) \/ Cancel(r) \/ Fault(r)
                                  \/ Begin(r) \/ BeginFails(r) \/ Body(r)
           \/ Tick \/ UNCHANGED vars
  <2>1. UNCHANGED <<db, book, ask>>
    BY <1>5 DEF Crash, Release, Cancel, Fault, Begin, BeginFails, Body, Raise, Tick, vars
  <2>2. \A q \in Requests : phase'[q] = "reserve" => phase[q] = "reserve"
    <3>1. CASE \E w \in Workers : Crash(w)
      BY <3>1 DEF Crash, IInv, Shape
    <3>2. CASE \E r \in Requests : Release(r) \/ Cancel(r)
      BY <3>2 DEF Release, Cancel, IInv, Shape
    <3>3. CASE \E r \in Requests : Raise(r)
      BY <3>3 DEF Raise, IInv, Shape
    <3>4. CASE \/ \E r \in Requests : Begin(r) \/ Body(r)
               \/ Tick \/ UNCHANGED vars
      BY <3>4 DEF Begin, Body, Tick, vars
    <3> QED
      BY <1>5, <3>1, <3>2, <3>3, <3>4 DEF Fault, BeginFails
  <2> QED
    BY <2>1, <2>2, <1>3
<1> QED
  BY <1>1, <1>2, <1>4, <1>5 DEF Next, Thread



-----------------------------------------------------------------------------
(* The ledger, which one worker implements.                                *)

\* The arithmetic of the ledger is that of the table.
LEMMA SameTotal == ASSUME NEW f PROVE Ledger!Total(f) = Total(f)
<1>1. ASSUME NEW S PROVE Ledger!Cardinality(S) = Cardinality(S)
  BY DEF Ledger!Cardinality, Cardinality
<1> QED
  BY <1>1 DEF Ledger!Total, Total, Ledger!Units, Units

LEMMA SameUsed == ASSUME NEW b, NEW t, NEW s PROVE Ledger!Used(b, t, s) = Used(b, t, s)
BY SameTotal DEF Ledger!Used, Used, Ledger!Tokens, Tokens, Ledger!Live, Live

\* The check of a lone worker counts what the ledger counts: all that the
\* history holds in the window of the check is in the table.
LEMMA CheckCountsBook ==
  ASSUME OneWorker, IInv, Ordered, Fresh,
         NEW r \in Requests, phase[r] = "reserve", HasThread(r), NEW t
  PROVE  Used(book, t, ask[r].stamp) = Used(Evict(db, ask[r].stamp), t, ask[r].stamp)
<1> DEFINE s == ask[r].stamp
           kept == Evict(db, s)
<1>1. /\ DOMAIN kept \subseteq DOMAIN db
      /\ \A q \in DOMAIN kept : kept[q] = db[q]
  BY DEF Evict
<1>2. \A q \in DOMAIN kept : /\ q \in DOMAIN book
                             /\ kept[q].tokens = book[q].tokens
                             /\ kept[q].created = book[q].created
                             /\ kept[q].tenant = book[q].tenant
  BY <1>1 DEF IInv, TableIsBook
<1>3. s \in Nat /\ Window \in Nat /\ \A q \in DOMAIN book : book[q].created \in Nat
  BY AskKnown, WindowAssumption DEF IInv, Entries
<1>4. \A q \in DOMAIN book : q \notin DOMAIN kept => book[q].created <= s - Window
  BY EvictedIsOld
<1> HIDE DEF kept, s
<1>5. Live(book, t, s) = Live(kept, t, s)
  BY <1>2, <1>3, <1>4 DEF Live
<1>6. \A q \in Live(kept, t, s) : kept[q].tokens = book[q].tokens
  BY <1>2 DEF Live
<1>7. Tokens(book, Live(book, t, s)) = Tokens(kept, Live(kept, t, s))
  BY <1>5, <1>6 DEF Tokens
<1> QED
  BY <1>7 DEF Used, kept, s

\* What each request has been told, now and after a step.
LEMMA VerdictIs ==
  ASSUME NEW r
  PROVE  /\ phase[r] \in {"idle", "reserve", "error"} => Verdict(r) = "pending"
         /\ phase[r] \in {"held", "settle", "orphan", "unsettled", "release"}
               => Verdict(r) = "admitted"
         /\ phase[r] = "settled" => Verdict(r) = "charged"
         /\ phase[r] = "released" => Verdict(r) = "returned"
         /\ phase[r] = "refused" => Verdict(r) = "refused"
         /\ phase[r] = "lost" =>
               Verdict(r) = IF r \in DOMAIN book THEN "admitted" ELSE "pending"
BY DEF Verdict

LEMMA VerdictNext ==
  ASSUME NEW r
  PROVE  /\ phase'[r] \in {"idle", "reserve", "error"} => Verdict(r)' = "pending"
         /\ phase'[r] \in {"held", "settle", "orphan", "unsettled", "release"}
               => Verdict(r)' = "admitted"
         /\ phase'[r] = "settled" => Verdict(r)' = "charged"
         /\ phase'[r] = "released" => Verdict(r)' = "returned"
         /\ phase'[r] = "refused" => Verdict(r)' = "refused"
         /\ phase'[r] = "lost" =>
               Verdict(r)' = IF r \in DOMAIN book' THEN "admitted" ELSE "pending"
BY DEF Verdict

\* A request whose phase stays, and whose entry stays if it has one, has been
\* told the same.
LEMMA VerdictFrame ==
  ASSUME NEW r, phase'[r] = phase[r], r \in DOMAIN book' <=> r \in DOMAIN book
  PROVE  Verdict(r)' = Verdict(r)
BY DEF Verdict

Told == [r \in Requests |-> Verdict(r)]

LEMMA ToldFrame ==
  ASSUME \A q \in Requests : Verdict(q)' = Verdict(q)
  PROVE  Told' = Told
BY DEF Told

LEMMA ToldChange ==
  ASSUME NEW r \in Requests, NEW v, Verdict(r)' = v,
         \A q \in Requests \ {r} : Verdict(q)' = Verdict(q)
  PROVE  Told' = [Told EXCEPT ![r] = v]
BY DEF Told


LEMMA LedgerInitially == Init => Ledger!Init
<1> SUFFICES ASSUME Init
             PROVE  Ledger!Init
  OBVIOUS
<1>1. \A r \in Requests : Verdict(r) = "pending"
  BY VerdictIs DEF Init
<1> QED
  BY <1>1 DEF Init, Ledger!Init

\* A commit is the call's step of the ledger.
LEMMA LedgerCommits ==
  ASSUME OneWorker, IInv, Ordered, Fresh, NEW r \in Requests, Commit(r)
  PROVE  Ledger!Next
<1> DEFINE a == ask[r]
           kept == Evict(db, a.stamp)
           fits == ~(Used(kept, a.tenant, a.stamp) + a.estimate > Limit)
           entry == [tenant |-> a.tenant, estimate |-> a.estimate,
                     tokens |-> a.estimate, created |-> a.stamp]
<1>1. HasThread(r)
  <2>1. Begun(r).step = "begun" /\ Owns(r)
    BY DEF Begun, Commit
  <2> QED
    BY <2>1, OwnedBy DEF IInv
<1>2. phase[r] \in {"reserve", "settle", "release", "orphan"}
  BY <1>1, ThreadPhase
<1>3. /\ a.tenant \in Tenants /\ a.estimate \in Estimates /\ a.stamp \in 0 .. now
      /\ a.stamp <= now /\ now' = now
      /\ phase[r] \in {"settle", "orphan"} => a.usage \in Usages
  <2>1. r \in DOMAIN ask
    BY <1>2, AskKnown DEF IInv
  <2>2. ask[r] \in [worker : Workers, tenant : Tenants, estimate : Estimates,
                    stamp : 0 .. now, usage : Usages \cup {0}]
    BY <2>1 DEF IInv, Shape
  <2>3. phase[r] \in {"settle", "orphan"} => a.usage \in Usages
    BY <2>1 DEF IInv, Shape
  <2> QED
    BY <1>2, <2>2, <2>3, AskKnown, Committed DEF IInv
<1>4. phase[r] = "reserve" => Ledger!Used(book, a.tenant, a.stamp) = Used(kept, a.tenant, a.stamp)
  BY <1>1, SameUsed, CheckCountsBook
<1>5. ASSUME NEW p, phase' = [phase EXCEPT ![r] = p],
             DOMAIN book' \ {r} = DOMAIN book \ {r}
      PROVE  /\ phase'[r] = p
             /\ \A q \in Requests \ {r} : Verdict(q)' = Verdict(q)
  BY <1>5, VerdictFrame DEF IInv, Shape
<1> HIDE DEF kept, a
<1>6. CASE phase[r] = "reserve" /\ ~fits /\ phase' = [phase EXCEPT ![r] = "refused"] /\ book' = book
  <2>1. Verdict(r) = "pending" /\ Told' = [Told EXCEPT ![r] = "refused"]
    BY <1>5, <1>6, VerdictIs, VerdictNext, ToldChange
  <2>2. Ledger!Used(book, a.tenant, a.stamp) + a.estimate > Limit
    BY <1>4, <1>6
  <2>3. Ledger!Refuse(r, a.tenant, a.estimate, a.stamp)
    BY <1>3, <1>6, <2>1, <2>2 DEF Ledger!Refuse, Told
  <2> QED
    BY <1>3, <2>3 DEF Ledger!Next
<1>7. CASE /\ phase[r] = "reserve" /\ fits
           /\ phase' = [phase EXCEPT ![r] = "held"]
           /\ book' = Insert(book, r, entry)
  <2>1. DOMAIN book' \ {r} = DOMAIN book \ {r}
    BY <1>7 DEF Insert
  <2>2. Verdict(r) = "pending" /\ Told' = [Told EXCEPT ![r] = "admitted"]
    BY <1>5, <1>7, <2>1, VerdictIs, VerdictNext, ToldChange
  <2>3. Ledger!Used(book, a.tenant, a.stamp) + a.estimate <= Limit
    <3>1. Ledger!Used(book, a.tenant, a.stamp) = Used(kept, a.tenant, a.stamp)
      BY <1>4, <1>7
    <3>2. a.stamp \in Nat /\ a.stamp <= now /\ a.estimate \in Nat
      BY <1>2, AskKnown DEF IInv, a
    <3>3. Used(kept, a.tenant, a.stamp) \in Nat
      BY <1>3, <3>2, CheckCountsAlive DEF kept
    <3> QED
      BY <1>7, <3>1, <3>2, <3>3, LimitAssumption
  <2>4. book' = Ledger!Insert(book, r, entry)
    BY <1>7 DEF Insert, Ledger!Insert
  <2>5. Ledger!Admit(r, a.tenant, a.estimate, a.stamp)
    BY <1>3, <2>2, <2>3, <2>4 DEF Ledger!Admit, Told
  <2> QED
    BY <1>3, <2>5 DEF Ledger!Next
<1>8. CASE /\ phase[r] \in {"settle", "orphan"}
           /\ phase' = [phase EXCEPT ![r] = "settled"]
           /\ book' = [book EXCEPT ![r].tokens = a.usage]
  <2>1. DOMAIN book' \ {r} = DOMAIN book \ {r}
    BY <1>8
  <2>2. Verdict(r) = "admitted" /\ Told' = [Told EXCEPT ![r] = "charged"]
    BY <1>5, <1>8, <2>1, VerdictIs, VerdictNext, ToldChange
  <2>3. Ledger!Settle(r, a.usage)
    BY <1>3, <1>8, <2>2 DEF Ledger!Settle, Told
  <2> QED
    BY <1>3, <1>8, <2>3 DEF Ledger!Next
<1>9. CASE /\ phase[r] = "release"
           /\ phase' = [phase EXCEPT ![r] = "released"]
           /\ book' = Delete(book, r)
  <2>1. DOMAIN book' \ {r} = DOMAIN book \ {r}
    BY <1>9 DEF Delete
  <2>2. Verdict(r) = "admitted" /\ Told' = [Told EXCEPT ![r] = "returned"]
    BY <1>5, <1>9, <2>1, VerdictIs, VerdictNext, ToldChange
  <2>3. Ledger!Release(r)
    BY <1>3, <1>9, <2>2 DEF Ledger!Release, Told, Delete, Ledger!Delete
  <2> QED
    BY <2>3 DEF Ledger!Next
<1> QED
  BY <1>6, <1>7, <1>8, <1>9, Committed DEF kept, a

\* Every other step changes nothing the ledger can see, but for the clock.
LEMMA LedgerStutters ==
  ASSUME IInv,
         book' = book, now' = now,
         \A q \in Requests :
            \/ phase'[q] = phase[q]
            \/ Verdict(q) = "pending" /\ phase'[q] \in {"reserve", "error"}
            \/ Verdict(q) = "admitted"
                 /\ phase'[q] \in {"settle", "orphan", "unsettled", "release"}
            \/ /\ phase[q] \in {"reserve", "held", "settle", "orphan", "unsettled", "release"}
               /\ phase'[q] = "lost"
  PROVE  UNCHANGED Ledger!vars
<1>1. ASSUME NEW q \in Requests
      PROVE  Verdict(q)' = Verdict(q)
  <2>1. CASE phase'[q] = phase[q]
    BY <2>1, VerdictFrame
  <2>2. CASE Verdict(q) = "pending" /\ phase'[q] \in {"reserve", "error"}
    BY <2>2, VerdictNext
  <2>3. CASE /\ Verdict(q) = "admitted"
             /\ phase'[q] \in {"settle", "orphan", "unsettled", "release"}
    BY <2>3, VerdictNext
  <2>4. CASE phase[q] = "reserve" /\ phase'[q] = "lost"
    <3>1. q \notin DOMAIN book
      BY <2>4 DEF IInv, Entries, Standing
    <3> QED
      BY <2>4, <3>1, VerdictIs, VerdictNext
  <2>5. CASE phase[q] \in Standing \ {"settled"} /\ phase'[q] = "lost"
    <3>1. q \in DOMAIN book
      BY <2>5 DEF IInv, Entries
    <3> QED
      BY <2>5, <3>1, VerdictIs, VerdictNext DEF Standing
  <2> QED
    BY <2>1, <2>2, <2>3, <2>4, <2>5 DEF Standing
<1>2. Told' = Told
  BY <1>1, ToldFrame
<1> QED
  BY <1>2 DEF Ledger!vars, Told


LEMMA LedgerStep ==
  OneWorker /\ IInv /\ Ordered /\ Fresh /\ [Next]_vars => [Ledger!Next]_Ledger!vars
<1> SUFFICES ASSUME OneWorker, IInv, Ordered, Fresh, [Next]_vars
             PROVE  [Ledger!Next]_Ledger!vars
  OBVIOUS
<1>1. ASSUME NEW r \in Requests, Commit(r)
      PROVE  Ledger!Next
  BY <1>1, LedgerCommits
<1>2. CASE Tick
  <2>1. phase' = phase /\ book' = book
    BY <1>2 DEF Tick
  <2>2. Told' = Told
    BY <2>1, VerdictFrame, ToldFrame
  <2> QED
    BY <1>2, <2>2 DEF Tick, Ledger!Tick, Ledger!Next, Told
<1>3. ASSUME NEW w \in Workers, Crash(w)
      PROVE  UNCHANGED Ledger!vars
  <2>1. /\ book' = book /\ now' = now
        /\ \A q \in Requests :
              \/ phase'[q] = phase[q]
              \/ /\ phase[q] \in {"reserve", "held", "settle", "orphan", "unsettled", "release"}
                 /\ phase'[q] = "lost"
    BY <1>3 DEF Crash
  <2> QED
    BY <2>1, LedgerStutters
<1>4. ASSUME NEW r \in Requests, NEW p, phase' = [phase EXCEPT ![r] = p],
             book' = book, now' = now,
             \/ phase[r] \in {"idle", "reserve", "error"} /\ p \in {"reserve", "error"}
             \/ /\ phase[r] \in {"held", "settle", "orphan", "unsettled", "release"}
                /\ p \in {"settle", "orphan", "unsettled", "release"}
      PROVE  UNCHANGED Ledger!vars
  <2>1. \/ Verdict(r) = "pending" /\ p \in {"reserve", "error"}
        \/ Verdict(r) = "admitted" /\ p \in {"settle", "orphan", "unsettled", "release"}
    BY <1>4, VerdictIs
  <2>2. phase'[r] = p /\ \A q \in Requests \ {r} : phase'[q] = phase[q]
    BY <1>4 DEF IInv, Shape
  <2> QED
    BY <1>4, <2>1, <2>2, LedgerStutters
<1>5. ASSUME NEW r \in Requests, HasThread(r), Raise(r)
      PROVE  UNCHANGED Ledger!vars
  <2> DEFINE p == IF phase[r] = "reserve" THEN "error" ELSE "unsettled"
  <2>1. phase' = [phase EXCEPT ![r] = p] /\ book' = book /\ now' = now
    BY <1>5 DEF Raise
  <2>2. \/ phase[r] = "reserve" /\ p = "error"
        \/ phase[r] \in {"settle", "release", "orphan"} /\ p = "unsettled"
    BY <1>5, ThreadPhase
  <2> HIDE DEF p
  <2> QED
    BY <2>1, <2>2, <1>4
<1>6. ASSUME NEW r \in Requests,
             \/ \E w \in Workers, t \in Tenants, n \in Estimates : Reserve(r, w, t, n)
             \/ \E u \in Usages : Settle(r, u)
             \/ Release(r) \/ Cancel(r)
      PROVE  UNCHANGED Ledger!vars
  <2>1. /\ book' = book /\ now' = now
        /\ \/ phase[r] = "idle" /\ phase' = [phase EXCEPT ![r] = "reserve"]
           \/ phase[r] = "held" /\ phase' = [phase EXCEPT ![r] = "settle"]
           \/ phase[r] \in {"held", "unsettled"} /\ phase' = [phase EXCEPT ![r] = "release"]
           \/ phase[r] = "settle" /\ phase' = [phase EXCEPT ![r] = "unsettled"]
           \/ phase[r] = "settle" /\ phase' = [phase EXCEPT ![r] = "orphan"]
    BY <1>6 DEF Reserve, Settle, Release, Cancel
  <2> QED
    BY <2>1, <1>4
<1>7. ASSUME NEW r \in Requests, Begin(r) \/ Body(r)
      PROVE  UNCHANGED Ledger!vars
  <2>1. phase' = phase /\ book' = book /\ now' = now
    BY <1>7 DEF Begin, Body
  <2> QED
    BY <2>1, LedgerStutters
<1>8. CASE UNCHANGED vars
  <2>1. phase' = phase /\ book' = book /\ now' = now
    BY <1>8 DEF vars
  <2> QED
    BY <2>1, LedgerStutters
<1>9. ASSUME NEW r \in Requests, BeginFails(r) \/ Fault(r)
      PROVE  HasThread(r) /\ Raise(r)
  BY <1>9 DEF BeginFails, Fault
<1> QED
  BY <1>1, <1>2, <1>3, <1>5, <1>6, <1>7, <1>8, <1>9 DEF Next, Thread

\* What one worker keeps besides.
LEMMA OneWorkerInvariant ==
  ASSUME OneWorker
  PROVE  Spec => [](Ordered /\ Fresh)
<1>1. IInv /\ Ordered /\ Fresh /\ [Next]_vars => (Ordered /\ Fresh)'
  BY OrderedStep, FreshStep
<1> QED
  BY <1>1, FreshInitially, Invariant, PTL DEF Spec

\* With one worker the code implements the ledger: its queue, transactions,
\* faults, cancellations and crashes come down to one atomic step a call, on a
\* book that never forgets (ratelimit.py:8-19).
THEOREM ImplementsLedger ==
  ASSUME OneWorker
  PROVE  Spec => LedgerSpec
<1>1. Init => Ledger!Init
  BY LedgerInitially
<1>2. IInv /\ Ordered /\ Fresh /\ [Next]_vars => [Ledger!Next]_Ledger!vars
  BY LedgerStep
<1> QED
  BY <1>1, <1>2, Invariant, OneWorkerInvariant, PTL DEF Spec, LedgerSpec, Ledger!Spec

\* Both instances compute the same usage.
LEMMA BookTotal == ASSUME NEW f PROVE Ledger!Total(f) = Book!Total(f)
<1>1. ASSUME NEW S PROVE Ledger!Cardinality(S) = Book!Cardinality(S)
  BY DEF Ledger!Cardinality, Book!Cardinality
<1> QED
  BY <1>1 DEF Ledger!Total, Book!Total, Ledger!Units, Book!Units

LEMMA BookUsed == ASSUME NEW t, NEW s PROVE Ledger!Used(book, t, s) = Book!Used(book, t, s)
BY BookTotal DEF Ledger!Used, Book!Used, Ledger!Tokens, Book!Tokens, Ledger!Live, Book!Live

LEMMA BookNext == [Ledger!Next]_Ledger!vars => [Book!Next]_Book!vars
<1>1. ASSUME NEW r \in Requests, NEW t \in Tenants, NEW n \in Estimates, NEW s \in 0 .. now,
             Ledger!Admit(r, t, n, s) \/ Ledger!Refuse(r, t, n, s)
      PROVE  Book!Admit(r, t, n, s) \/ Book!Refuse(r, t, n, s)
  BY <1>1, BookUsed DEF Ledger!Admit, Ledger!Refuse, Book!Admit, Book!Refuse,
     Ledger!Insert, Book!Insert
<1>2. ASSUME NEW r \in Requests, NEW u \in Usages, Ledger!Settle(r, u)
      PROVE  Book!Settle(r, u)
  BY <1>2 DEF Ledger!Settle, Book!Settle
<1>3. ASSUME NEW r \in Requests, Ledger!Release(r)
      PROVE  Book!Release(r)
  BY <1>3 DEF Ledger!Release, Book!Release, Ledger!Delete, Book!Delete
<1>4. Ledger!Tick => Book!Tick
  BY DEF Ledger!Tick, Book!Tick
<1>5. UNCHANGED Ledger!vars => UNCHANGED Book!vars
  BY DEF Ledger!vars, Book!vars
<1> QED
  BY <1>1, <1>2, <1>3, <1>4, <1>5 DEF Ledger!Next, Book!Next

\* So with one worker the constraint holds at every instant, past or present
\* (ratelimit.py:8-9).  With two it does not: see RateLimiterStaleStamp.cfg.
THEOREM EveryInstantHolds ==
  ASSUME OneWorker
  PROVE  Spec => []EveryInstant
<1>1. Ledger!Init => Book!Init
  BY DEF Ledger!Init, Book!Init
<1>2. Book!Spec => []Book!EveryInstant
  <2>1. Book!IsFiniteSet(Requests)
    BY RequestsAssumption DEF IsFiniteSet, Book!IsFiniteSet
  <2> QED
    BY <2>1, EstimatesAssumption, UsagesAssumption, BoundsAssumption, WindowAssumption,
       LimitAssumption, Book!LimitHolds
<1>3. Book!EveryInstant => EveryInstant
  BY BookTotal DEF EveryInstant, Book!EveryInstant, Ledger!EveryInstant, Book!Vouched,
     Ledger!Vouched, Book!Within, Ledger!Within, Book!Lesser, Ledger!Lesser
<1> QED
  BY <1>1, <1>2, <1>3, BookNext, ImplementsLedger, PTL
     DEF LedgerSpec, Ledger!Spec, Book!Spec
=============================================================================
