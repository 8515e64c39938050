------------------------ MODULE RedactedStreamProofs ------------------------
(***************************************************************************)
(* Proofs about RedactedStream, for every set of texts and every ceiling   *)
(* that is not below the longest bounded match.                            *)
(***************************************************************************)
EXTENDS RedactedStream, WellFoundedInduction, TLAPS

-----------------------------------------------------------------------------
(***************************************************************************)
(* Induction, in the form the provers can use: the statement is a set      *)
(***************************************************************************)
\* A set of natural numbers has a least element.
LEMMA LeastNat ==
  ASSUME NEW S, S \subseteq Nat, S # {}
  PROVE  \E m \in S : \A x \in S : m <= x
<1>1. PICK m \in S : \A x \in S : <<x, m>> \notin OpToRel(<, Nat)
  BY NatLessThanWellFounded, WFMin
<1>2. \A x \in S : x \in Nat /\ m \in Nat
  OBVIOUS
<1>3. \A x \in S : ~(x < m)
  BY <1>1, <1>2 DEF OpToRel
<1> QED
  BY <1>2, <1>3

\* A set with 0 that is closed under successors up to N holds all up to N.
LEMMA Upward ==
  ASSUME NEW N \in Nat, NEW S, 0 \in S,
         \A n \in 0 .. N - 1 : n \in S => n + 1 \in S
  PROVE  \A n \in 0 .. N : n \in S
<1> DEFINE Bad == {n \in 0 .. N : n \notin S}
<1> SUFFICES ASSUME Bad # {} PROVE FALSE
  OBVIOUS
<1>1. PICK n \in Bad : \A m \in Bad : n <= m
  <2>1. Bad \subseteq Nat
    OBVIOUS
  <2> QED
    BY <2>1, LeastNat
<1>2. n \in 1 .. N /\ n - 1 \in 0 .. N - 1 /\ n - 1 \notin Bad
  BY <1>1
<1> QED
  BY <1>1, <1>2

\* A set that holds n whenever it holds all from n + 1 to N holds all from 1 to N.
LEMMA Downward ==
  ASSUME NEW N \in Nat, NEW S,
         \A n \in 1 .. N : (\A m \in n + 1 .. N : m \in S) => n \in S
  PROVE  \A n \in 1 .. N : n \in S
<1> DEFINE Bad == {n \in 0 .. N : N - n \in 1 .. N /\ N - n \notin S}
<1> SUFFICES ASSUME NEW x \in 1 .. N, x \notin S PROVE FALSE
  OBVIOUS
<1>0. N - x \in Bad
  OBVIOUS
<1>1. PICK n \in Bad : \A m \in Bad : n <= m
  <2>1. Bad \subseteq Nat
    OBVIOUS
  <2> QED
    BY <1>0, <2>1, LeastNat
<1>2. \A m \in N - n + 1 .. N : m \in S
  <2> SUFFICES ASSUME NEW m \in N - n + 1 .. N, m \notin S PROVE FALSE
    OBVIOUS
  <2>1. N - m \in Bad /\ N - m < n
    BY <1>1
  <2> QED
    BY <1>1, <2>1
<1> QED
  BY <1>1, <1>2

\* A set of numbers that has a member and a bound has a greatest member.
LEMMA MaxIs ==
  ASSUME NEW N \in Nat, NEW S, S \subseteq 0 .. N, S # {}
  PROVE  Max(S) \in S /\ \A x \in S : x <= Max(S)
<1> DEFINE Below == {n \in 0 .. N : N - n \in S}
<1>1. Below \subseteq Nat /\ Below # {}
  <2>1. PICK x \in S : TRUE
    OBVIOUS
  <2>2. x \in 0 .. N /\ N - x \in 0 .. N /\ N - (N - x) = x
    BY <2>1
  <2>3. N - x \in Below
    BY <2>1, <2>2
  <2>4. \A y \in Below : y \in Nat
    OBVIOUS
  <2> HIDE DEF Below
  <2> QED
    BY <2>3, <2>4
<1>2. PICK n \in Below : \A m \in Below : n <= m
  BY <1>1, LeastNat
<1>3. N - n \in S /\ \A x \in S : N - n >= x
  <2> SUFFICES ASSUME NEW x \in S PROVE N - n >= x
    BY <1>2
  <2>1. x \in 0 .. N /\ N - x \in 0 .. N /\ N - (N - x) = x
    OBVIOUS
  <2>2. N - x \in Below
    BY <2>1
  <2>3. n <= N - x /\ n \in 0 .. N
    BY <1>2, <2>2
  <2> QED
    BY <2>1, <2>3
<1>4. \E m \in S : \A x \in S : m >= x
  BY <1>3
<1>5. Max(S) \in S /\ \A x \in S : Max(S) >= x
  BY <1>4 DEF Max
<1>6. \A x \in S : x \in Int
  OBVIOUS
<1> QED
  BY <1>5, <1>6

\* And a least one.
LEMMA MinIs ==
  ASSUME NEW S, S \subseteq Nat, S # {}
  PROVE  Min(S) \in S /\ \A x \in S : Min(S) <= x
<1>1. \E m \in S : \A x \in S : m =< x
  BY LeastNat
<1> QED
  BY <1>1 DEF Min
-----------------------------------------------------------------------------
(***************************************************************************)
(* What the recursive functions compute                                    *)
(***************************************************************************)
\* What k + 1 items reach is what the last of them adds to what k items reach.
Onwards(p, k, s, E) == UNION {{e + n : n \in Counts(p.items[k], s, e)} : e \in E}

LEMMA ReachIs ==
  ASSUME NEW p, Len(p.items) \in Nat, NEW s, NEW i, NEW k \in 0 .. Len(p.items)
  PROVE  Reach(p, k, s, i) = IF k = 0 THEN {i - 1}
                             ELSE Onwards(p, k, s, Reach(p, k - 1, s, i))
<1> DEFINE N == Len(p.items)
           Solves(f, m) == f = [x \in 0 .. m |-> IF x = 0 THEN {i - 1}
                                                 ELSE Onwards(p, x, s, f[x - 1])]
           S == {m \in Nat : \E f : Solves(f, m)}
<1>1. 0 \in S
  <2> DEFINE f == [x \in 0 .. 0 |-> {i - 1}]
  <2>1. Solves(f, 0)
    OBVIOUS
  <2> QED
    BY <2>1
<1>2. ASSUME NEW m \in 0 .. N - 1, m \in S
      PROVE  m + 1 \in S
  <2>1. PICK f : Solves(f, m)
    BY <1>2
  <2> DEFINE g == [x \in 0 .. m + 1 |-> IF x = m + 1 THEN Onwards(p, x, s, f[m]) ELSE f[x]]
  <2>2. \A x \in 0 .. m : g[x] = f[x]
    OBVIOUS
  <2>3. \A x \in 0 .. m : f[x] = IF x = 0 THEN {i - 1} ELSE Onwards(p, x, s, f[x - 1])
    BY <2>1
  <2>4. \A x \in 0 .. m + 1 : g[x] = IF x = 0 THEN {i - 1} ELSE Onwards(p, x, s, g[x - 1])
    <3> SUFFICES ASSUME NEW x \in 0 .. m + 1
                 PROVE  g[x] = IF x = 0 THEN {i - 1} ELSE Onwards(p, x, s, g[x - 1])
      OBVIOUS
    <3>1. CASE x = m + 1
      <4>1. x # 0 /\ x - 1 = m
        BY <3>1
      <4> QED
        BY <3>1, <4>1, <2>2
    <3>2. CASE x = 0
      BY <3>2, <2>2, <2>3
    <3>3. CASE x \in 1 .. m
      BY <3>3, <2>2, <2>3
    <3> QED
      BY <3>1, <3>2, <3>3
  <2>5. Solves(g, m + 1)
    BY <2>4
  <2>6. m + 1 \in Nat
    OBVIOUS
  <2> HIDE DEF g, Solves
  <2> QED
    BY <2>5, <2>6
<1>3. \E f : Solves(f, N)
  <2> HIDE DEF S
  <2>1. N \in S
    <3>1. N \in Nat /\ N \in 0 .. N
      OBVIOUS
    <3> HIDE DEF N
    <3> QED
      BY <3>1, <1>1, <1>2, Upward
  <2> QED
    BY <2>1 DEF S
<1> DEFINE h == CHOOSE f : Solves(f, N)
<1>4. Solves(h, N)
  BY <1>3
<1>5. \A n : Reach(p, n, s, i) = h[n]
  BY DEF Reach, Onwards
<1> HIDE DEF h
<1>6. \A x \in 0 .. N : h[x] = IF x = 0 THEN {i - 1} ELSE Onwards(p, x, s, h[x - 1])
  BY <1>4
<1> QED
  BY <1>5, <1>6

LEMMA ReachNext ==
  ASSUME NEW p, Len(p.items) \in Nat, NEW s, NEW i, NEW m \in 0 .. Len(p.items) - 1
  PROVE  Reach(p, m + 1, s, i) = Onwards(p, m + 1, s, Reach(p, m, s, i))
<1> DEFINE k == m + 1
<1>1. k \in 0 .. Len(p.items) /\ k # 0 /\ k - 1 = m
  OBVIOUS
<1> HIDE DEF k
<1>2. Reach(p, k, s, i) = Onwards(p, k, s, Reach(p, k - 1, s, i))
  BY <1>1, ReachIs
<1>3. Reach(p, k, s, i) = Onwards(p, k, s, Reach(p, m, s, i))
  BY <1>1, <1>2
<1> QED
  BY <1>3 DEF k

-----------------------------------------------------------------------------
(***************************************************************************)
(* What a detector reaches                                                 *)
(***************************************************************************)
Chars == (Alphabet \cup {"redacted"}) \X Nat

LEMMA PlaceholderIsChar ==
  /\ Placeholder \in Chars
  /\ Class(Placeholder) = "redacted"
  /\ \A char \in Chars : Class(char) # "redacted" => char # Placeholder
<1>1. Placeholder \in Chars
  BY DEF Placeholder, Chars
<1>2. Class(Placeholder) = "redacted"
  BY DEF Class, Placeholder
<1> QED
  BY <1>1, <1>2

\* What is used of a detector: items of classes, none of which holds the
\* placeholder, and the first takes a character.
Detector(p) ==
  /\ Len(p.items) \in 1 .. 5 /\ DOMAIN p.items = 1 .. Len(p.items)
  /\ \A k \in 1 .. Len(p.items) :
        "redacted" \notin p.items[k].of /\ p.items[k].least \in Nat /\ p.items[k].most \in Nat
  /\ p.items[1].least >= 1

\* The four detectors are such.
LEMMA DefaultDetectors ==
  /\ Len(DEFAULT_PATTERNS) = 4
  /\ \A n \in 1 .. 4 : Detector(DEFAULT_PATTERNS[n])
  /\ ToSet(DEFAULT_PATTERNS) = {EMAIL, SSN, CREDIT_CARD, API_KEY}
<1>1. \A of, least, most : /\ Item(of, least, most).of = of
                           /\ Item(of, least, most).least = least
                           /\ Item(of, least, most).most = most
  BY DEF Item
<1>2. \A of : /\ One(of).of = of /\ One(of).least = 1 /\ One(of).most = 1
              /\ Many(of).of = of /\ Many(of).least = 1 /\ Many(of).most = 99
  BY DEF Item, One, Many
<1>3. /\ "redacted" \notin Local /\ "redacted" \notin Digit /\ "redacted" \notin Letter /\ "redacted" \notin Alnum
      /\ "redacted" \notin {"@"} /\ "redacted" \notin {"."} /\ "redacted" \notin {"-"} /\ "redacted" \notin {"k"}
      /\ "redacted" \notin Separator
  BY DEF Separator, Local, Digit, Letter, Alnum
<1>4. Detector(EMAIL)
  <2>1. /\ Len(EMAIL.items) = 5 /\ DOMAIN EMAIL.items = 1 .. 5
        /\ EMAIL.items[1] = Many(Local) /\ EMAIL.items[2] = One({"@"})
        /\ EMAIL.items[3] = Many(Local) /\ EMAIL.items[4] = One({"."})
        /\ EMAIL.items[5] = Many(Letter)
    BY DEF EMAIL
  <2> QED
    BY <1>2, <1>3, <2>1 DEF Detector
<1>5. Detector(SSN)
  <2>1. /\ Len(SSN.items) = 3 /\ DOMAIN SSN.items = 1 .. 3
        /\ SSN.items[1] = One(Digit) /\ SSN.items[2] = One({"-"}) /\ SSN.items[3] = One(Digit)
    BY DEF SSN
  <2> QED
    BY <1>2, <1>3, <2>1 DEF Detector
<1>6. Detector(CREDIT_CARD)
  <2>1. /\ Len(CREDIT_CARD.items) = 5 /\ DOMAIN CREDIT_CARD.items = 1 .. 5
        /\ CREDIT_CARD.items[1] = One(Digit) /\ CREDIT_CARD.items[2] = Item(Separator, 0, 1)
        /\ CREDIT_CARD.items[3] = One(Digit) /\ CREDIT_CARD.items[4] = Item(Separator, 0, 1)
        /\ CREDIT_CARD.items[5] = Item(Digit, 1, 2)
    BY DEF CREDIT_CARD
  <2> QED
    BY <1>1, <1>2, <1>3, <2>1 DEF Detector
<1>7. Detector(API_KEY)
  <2>1. /\ Len(API_KEY.items) = 3 /\ DOMAIN API_KEY.items = 1 .. 3
        /\ API_KEY.items[1] = One({"k"}) /\ API_KEY.items[2] = One({"-"})
        /\ API_KEY.items[3] = Item(Alnum, 2, 99)
    BY DEF API_KEY
  <2> QED
    BY <1>1, <1>2, <1>3, <2>1 DEF Detector
<1>8. /\ DEFAULT_PATTERNS[1] = EMAIL /\ DEFAULT_PATTERNS[2] = SSN
      /\ DEFAULT_PATTERNS[3] = CREDIT_CARD /\ DEFAULT_PATTERNS[4] = API_KEY
      /\ DOMAIN DEFAULT_PATTERNS = 1 .. 4 /\ Len(DEFAULT_PATTERNS) = 4
  BY DEF DEFAULT_PATTERNS
<1>9. \A n \in 1 .. 4 : n = 1 \/ n = 2 \/ n = 3 \/ n = 4
  OBVIOUS
<1>10. ToSet(DEFAULT_PATTERNS) = {EMAIL, SSN, CREDIT_CARD, API_KEY}
  <2>1. ToSet(DEFAULT_PATTERNS) = {DEFAULT_PATTERNS[n] : n \in 1 .. 4}
    BY <1>8 DEF ToSet
  <2> QED
    BY <2>1, <1>8, <1>9
<1> QED
  BY <1>4, <1>5, <1>6, <1>7, <1>8, <1>9, <1>10

\* One more item takes characters of its class only, no more than it may, and
\* no less than it must.
LEMMA OnwardsIs ==
  ASSUME NEW p, NEW k, NEW s, NEW E, NEW x \in Onwards(p, k, s, E)
  PROVE  \E e \in E : \E n \in 0 .. Len(s) - e :
            /\ x = e + n
            /\ p.items[k].least <= n /\ n <= p.items[k].most
            /\ \A j \in e + 1 .. e + n : Class(s[j]) \in p.items[k].of
BY DEF Onwards, Counts

\* And every such end is one it reaches.
LEMMA OnwardsHas ==
  ASSUME NEW p, NEW k, NEW s, NEW E, NEW e \in E, NEW n \in 0 .. Len(s) - e,
         p.items[k].least <= n, n <= p.items[k].most,
         \A j \in e + 1 .. e + n : Class(s[j]) \in p.items[k].of
  PROVE  e + n \in Onwards(p, k, s, E)
BY DEF Onwards, Counts

\* What items of the classes W reach from i on is of these classes, and longer
\* than nothing after the first item.
LEMMA ReachWithin ==
  ASSUME NEW p, Detector(p), NEW s \in Seq(Chars), NEW i \in 1 .. Len(s) + 1,
         NEW W, \A m \in 1 .. Len(p.items) : p.items[m].of \subseteq W
  PROVE  \A k \in 0 .. Len(p.items) : \A e \in Reach(p, k, s, i) :
            /\ e \in i - 1 .. Len(s)
            /\ k >= 1 => e >= i
            /\ \A j \in i .. e : Class(s[j]) \in W
<1> DEFINE N == Len(p.items)
           Good(k, e) == /\ e \in i - 1 .. Len(s)
                         /\ k >= 1 => e >= i
                         /\ \A j \in i .. e : Class(s[j]) \in W
           S == {k \in 0 .. N : \A e \in Reach(p, k, s, i) : Good(k, e)}
<1>0. N \in 1 .. 5 /\ N \in Nat /\ Len(s) \in Nat /\ Len(p.items) \in Nat
  BY DEF Detector
<1>1. 0 \in S
  <2>1. Reach(p, 0, s, i) = {i - 1}
    BY <1>0, ReachIs
  <2> QED
    BY <1>0, <2>1
<1>2. ASSUME NEW m \in 0 .. N - 1, m \in S
      PROVE  m + 1 \in S
  <2>1. Reach(p, m + 1, s, i) = Onwards(p, m + 1, s, Reach(p, m, s, i))
    BY <1>0, ReachNext
  <2>2. ASSUME NEW x \in Reach(p, m + 1, s, i)
        PROVE  Good(m + 1, x)
    <3>1. PICK e \in Reach(p, m, s, i) : \E n \in 0 .. Len(s) - e :
            /\ x = e + n
            /\ p.items[m + 1].least <= n /\ n <= p.items[m + 1].most
            /\ \A j \in e + 1 .. e + n : Class(s[j]) \in p.items[m + 1].of
      BY <2>1, OnwardsIs
    <3>2. PICK n \in 0 .. Len(s) - e :
            /\ x = e + n
            /\ p.items[m + 1].least <= n /\ n <= p.items[m + 1].most
            /\ \A j \in e + 1 .. e + n : Class(s[j]) \in p.items[m + 1].of
      BY <3>1
    <3>3. Good(m, e)
      BY <1>2
    <3>4. m + 1 \in 1 .. N
      BY <1>0
    <3>5. \A j \in e + 1 .. e + n : Class(s[j]) \in W
      BY <3>2, <3>4
    <3>6. \A j \in i .. x : Class(s[j]) \in W
      BY <1>0, <3>2, <3>3, <3>5
    <3>7. x >= i
      <4>1. CASE m >= 1
        BY <1>0, <3>2, <3>3, <4>1
      <4>2. CASE m = 0
        <5>1. m + 1 = 1 /\ p.items[1].least \in Nat /\ p.items[1].least >= 1
          BY <1>0, <4>2 DEF Detector
        <5>2. p.items[1].least <= n
          BY <3>2, <5>1
        <5> QED
          BY <1>0, <3>2, <3>3, <5>1, <5>2
      <4> QED
        BY <1>0, <4>1, <4>2
    <3> QED
      BY <1>0, <3>2, <3>3, <3>6, <3>7
  <2> HIDE DEF Good
  <2> QED
    BY <1>0, <2>2
<1>3. \A k \in 0 .. N : k \in S
  <2> HIDE DEF S, N
  <2> QED
    BY <1>0, <1>1, <1>2, Upward
<1> QED
  BY <1>3

\* An end that k items reach is one that k - 1 items reach, and a run of the last.
LEMMA ReachPick ==
  ASSUME NEW p, Detector(p), NEW s, NEW i,
         NEW k \in 1 .. Len(p.items), NEW x \in Reach(p, k, s, i)
  PROVE  \E e \in Reach(p, k - 1, s, i) : \E n \in 0 .. Len(s) - e :
            /\ x = e + n
            /\ p.items[k].least <= n /\ n <= p.items[k].most
            /\ \A j \in e + 1 .. e + n : Class(s[j]) \in p.items[k].of
<1>1. Len(p.items) \in Nat /\ k \in 0 .. Len(p.items) /\ k # 0
  BY DEF Detector
<1>2. Reach(p, k, s, i) = Onwards(p, k, s, Reach(p, k - 1, s, i))
  BY <1>1, ReachIs
<1> QED
  BY <1>2, OnwardsIs

\* A reach is no longer than its items may be together.
LEMMA ReachSpan ==
  ASSUME NEW p, Detector(p), NEW s \in Seq(Chars), NEW i \in 1 .. Len(s) + 1,
         NEW w \in [0 .. Len(p.items) -> Nat], w[0] = 0,
         \A m \in 1 .. Len(p.items) : w[m] = w[m - 1] + p.items[m].most
  PROVE  \A k \in 0 .. Len(p.items) : \A e \in Reach(p, k, s, i) : e <= i - 1 + w[k]
<1> DEFINE N == Len(p.items)
           S == {k \in 0 .. N : \A e \in Reach(p, k, s, i) : e <= i - 1 + w[k]}
<1>0. N \in 1 .. 5 /\ N \in Nat /\ Len(s) \in Nat /\ Len(p.items) \in Nat
  BY DEF Detector
<1>1. 0 \in S
  <2>1. Reach(p, 0, s, i) = {i - 1}
    BY <1>0, ReachIs
  <2> QED
    BY <1>0, <2>1
<1>2. ASSUME NEW m \in 0 .. N - 1, m \in S
      PROVE  m + 1 \in S
  <2>1. m + 1 \in 1 .. Len(p.items) /\ (m + 1) - 1 = m
    BY <1>0
  <2>2. ASSUME NEW x \in Reach(p, m + 1, s, i)
        PROVE  x <= i - 1 + w[m + 1]
    <3>1. PICK e \in Reach(p, m, s, i) : \E n \in 0 .. Len(s) - e :
             x = e + n /\ n <= p.items[m + 1].most
      BY <2>1, ReachPick
    <3>2. PICK n \in 0 .. Len(s) - e : x = e + n /\ n <= p.items[m + 1].most
      BY <3>1
    <3>3. e \in i - 1 .. Len(s)
      <4> DEFINE W == UNION {p.items[q].of : q \in 1 .. Len(p.items)}
      <4>1. \A q \in 1 .. Len(p.items) : p.items[q].of \subseteq W
        OBVIOUS
      <4>2. m \in 0 .. Len(p.items)
        BY <2>1
      <4> HIDE DEF W
      <4> QED
        BY <4>1, <4>2, ReachWithin
    <3>4. e <= i - 1 + w[m]
      BY <1>2
    <3>5. w[m + 1] = w[m] + p.items[m + 1].most
      BY <2>1
    <3>6. p.items[m + 1].most \in Nat
      BY <2>1 DEF Detector
    <3>7. w[m] \in Nat /\ w[m + 1] \in Nat
      <4>1. m \in 0 .. Len(p.items) /\ m + 1 \in 0 .. Len(p.items)
        BY <2>1
      <4> QED
        BY <4>1
    <3>8. n \in Int /\ e \in Int /\ i \in Int
      BY <1>0, <3>2, <3>3
    <3> DEFINE most == p.items[m + 1].most
               wm   == w[m]
               wn   == w[m + 1]
    <3>9. /\ x = e + n /\ n <= most /\ e <= i - 1 + wm /\ wn = wm + most
          /\ most \in Nat /\ wm \in Nat /\ wn \in Nat
      BY <3>2, <3>4, <3>5, <3>6, <3>7
    <3> HIDE DEF most, wm, wn
    <3>10. x <= i - 1 + wn
      BY <3>8, <3>9, SMTT(20)
    <3> QED
      BY <3>10 DEF wn
  <2> QED
    BY <2>1, <2>2
<1>3. \A k \in 0 .. N : k \in S
  <2> HIDE DEF S, N
  <2> QED
    BY <1>0, <1>1, <1>2, Upward
<1> QED
  BY <1>3

\* Where two texts have the same L characters, from i on and from a on, the
\* ends within them correspond.
LEMMA ReachTranslates ==
  ASSUME NEW p, Detector(p), NEW s \in Seq(Chars), NEW t \in Seq(Chars),
         NEW i \in 1 .. Len(s) + 1, NEW a \in 1 .. Len(t) + 1, NEW L \in Nat,
         i - 1 + L <= Len(s), a - 1 + L <= Len(t),
         \A j \in 1 .. L : s[i - 1 + j] = t[a - 1 + j]
  PROVE  \A k \in 0 .. Len(p.items) : \A e \in Reach(p, k, s, i) :
            e <= i - 1 + L => (e - i) + a \in Reach(p, k, t, a)
<1> DEFINE N == Len(p.items)
           S == {k \in 0 .. N : \A e \in Reach(p, k, s, i) :
                    e <= i - 1 + L => (e - i) + a \in Reach(p, k, t, a)}
<1>0. /\ N \in 1 .. 5 /\ N \in Nat /\ Len(s) \in Nat /\ Len(t) \in Nat
      /\ Len(p.items) \in Nat
  BY DEF Detector
<1>1. 0 \in S
  <2>1. Reach(p, 0, s, i) = {i - 1} /\ Reach(p, 0, t, a) = {a - 1}
    BY <1>0, ReachIs
  <2> QED
    BY <1>0, <2>1
<1>2. ASSUME NEW m \in 0 .. N - 1, m \in S
      PROVE  m + 1 \in S
  <2>1. m + 1 \in 1 .. Len(p.items) /\ (m + 1) - 1 = m
    BY <1>0
  <2>2. ASSUME NEW x \in Reach(p, m + 1, s, i), x <= i - 1 + L
        PROVE  (x - i) + a \in Reach(p, m + 1, t, a)
    <3>1. PICK e \in Reach(p, m, s, i) : \E n \in 0 .. Len(s) - e :
             /\ x = e + n
             /\ p.items[m + 1].least <= n /\ n <= p.items[m + 1].most
             /\ \A j \in e + 1 .. e + n : Class(s[j]) \in p.items[m + 1].of
      BY <2>1, ReachPick
    <3>2. PICK n \in 0 .. Len(s) - e :
             /\ x = e + n
             /\ p.items[m + 1].least <= n /\ n <= p.items[m + 1].most
             /\ \A j \in e + 1 .. e + n : Class(s[j]) \in p.items[m + 1].of
      BY <3>1
    <3>3. e \in i - 1 .. Len(s)
      <4> DEFINE W == UNION {p.items[q].of : q \in 1 .. Len(p.items)}
      <4>1. \A q \in 1 .. Len(p.items) : p.items[q].of \subseteq W
        OBVIOUS
      <4>2. m \in 0 .. Len(p.items)
        BY <2>1
      <4> HIDE DEF W
      <4> QED
        BY <4>1, <4>2, ReachWithin
    <3>4. n \in Nat /\ n <= Len(s) - e
      BY <1>0, <3>2, <3>3
    <3> DEFINE f == (e - i) + a
    <3>5. f \in Reach(p, m, t, a)
      BY <1>0, <1>2, <2>2, <3>2, <3>3, <3>4
    <3>6. f \in Int /\ n \in 0 .. Len(t) - f
      <4>1. /\ f \in Int /\ n \in Nat /\ e \in Int /\ i \in Int /\ a \in Int
            /\ Len(t) \in Int /\ x = e + n /\ x <= i - 1 + L
        BY <1>0, <2>2, <3>2, <3>3, <3>4
      <4>2. f + n = (x - i) + a
        BY <4>1
      <4>3. f + n <= Len(t)
        BY <4>1, <4>2
      <4> HIDE DEF f
      <4> QED
        BY <4>1, <4>3, SMTT(20)
    <3>7. \A j \in f + 1 .. f + n : Class(t[j]) \in p.items[m + 1].of
      <4> SUFFICES ASSUME NEW j \in f + 1 .. f + n
                   PROVE  Class(t[j]) \in p.items[m + 1].of
        OBVIOUS
      <4> DEFINE q == j - (a - 1)
      <4>1. q \in 1 .. L /\ a - 1 + q = j /\ i - 1 + q \in e + 1 .. e + n
        BY <1>0, <2>2, <3>2, <3>3, <3>4
      <4>2. s[i - 1 + q] = t[j]
        BY <4>1
      <4> QED
        BY <3>2, <4>1, <4>2
    <3>8. f + n \in Onwards(p, m + 1, t, Reach(p, m, t, a))
      <4> HIDE DEF f
      <4> QED
        BY <3>2, <3>5, <3>6, <3>7, OnwardsHas
    <3>9. f + n = (x - i) + a
      BY <3>2, <3>3, <3>4
    <3>10. Reach(p, m + 1, t, a) = Onwards(p, m + 1, t, Reach(p, m, t, a))
      BY <1>0, ReachNext
    <3> QED
      BY <3>8, <3>9, <3>10
  <2> QED
    BY <2>1, <2>2
<1>3. \A k \in 0 .. N : k \in S
  <2> HIDE DEF S, N
  <2> QED
    BY <1>0, <1>1, <1>2, Upward
<1> QED
  BY <1>3

\* A whole match of a detector takes at least one character, and no placeholder.
LEMMA WholeReach ==
  ASSUME NEW p, Detector(p), NEW s \in Seq(Chars), NEW i \in 1 .. Len(s) + 1,
         NEW e \in Reach(p, Len(p.items), s, i)
  PROVE  e \in i .. Len(s) /\ \A j \in i .. e : Class(s[j]) # "redacted"
<1> DEFINE W == UNION {p.items[m].of : m \in 1 .. Len(p.items)}
<1>1. \A m \in 1 .. Len(p.items) : p.items[m].of \subseteq W
  OBVIOUS
<1>2. "redacted" \notin W
  BY DEF Detector
<1> HIDE DEF W
<1>3. Len(p.items) \in 0 .. Len(p.items) /\ Len(p.items) >= 1
  BY DEF Detector
<1>4. e \in i - 1 .. Len(s) /\ e >= i /\ \A j \in i .. e : Class(s[j]) \in W
  BY <1>1, <1>3, ReachWithin
<1> QED
  BY <1>2, <1>4

\* The greedy match is one of the matches.
LEMMA GreedyIs ==
  ASSUME NEW p, Detector(p), NEW s \in Seq(Chars), NEW i \in 1 .. Len(s) + 1,
         Ends(p, s, i) # {}
  PROVE  /\ Greedy(p, s, i) \in Reach(p, Len(p.items), s, i)
         /\ Greedy(p, s, i) \in i .. Len(s)
<1>1. Ends(p, s, i) \subseteq Reach(p, Len(p.items), s, i)
  BY DEF Ends
<1>2. \A e \in Ends(p, s, i) : e \in i .. Len(s)
  BY <1>1, WholeReach
<1>3. Len(s) \in Nat /\ Ends(p, s, i) \subseteq 0 .. Len(s)
  BY <1>2
<1>4. Greedy(p, s, i) \in Ends(p, s, i)
  BY <1>3, MaxIs DEF Greedy
<1> QED
  BY <1>1, <1>2, <1>4

\* What is replaced is what the detector's items reach.
LEMMA ValidatedEndIs ==
  ASSUME NEW p, Detector(p), NEW s \in Seq(Chars), NEW i \in 1 .. Len(s)
  PROVE  \/ ValidatedEnd(p, s, i) = 0
         \/ /\ ValidatedEnd(p, s, i) \in Reach(p, Len(p.items), s, i)
            /\ ValidatedEnd(p, s, i) \in i .. Len(s)
<1> SUFFICES ASSUME Ends(p, s, i) # {} PROVE  \/ ValidatedEnd(p, s, i) = 0
         \/ /\ ValidatedEnd(p, s, i) \in Reach(p, Len(p.items), s, i)
            /\ ValidatedEnd(p, s, i) \in i .. Len(s)
  BY DEF ValidatedEnd
<1> DEFINE greedy == Greedy(p, s, i)
           candidates == {e \in Reach(p, Len(p.items), s, i) : e < greedy} \cup {greedy}
           accepted == {e \in candidates : accepts(p, SubSeq(s, i, e))} \cup {0}
<1>0. i \in 1 .. Len(s) + 1 /\ Len(s) \in Nat
  OBVIOUS
<1>1. candidates \subseteq Reach(p, Len(p.items), s, i)
  BY <1>0, GreedyIs
<1> HIDE DEF candidates
<1>2. \A e \in candidates : e \in i .. Len(s)
  BY <1>0, <1>1, WholeReach
<1>3. accepted \subseteq 0 .. Len(s) /\ accepted # {}
  BY <1>0, <1>2
<1>4. ValidatedEnd(p, s, i) = Max(accepted)
  BY DEF ValidatedEnd, candidates
<1>5. Max(accepted) \in accepted
  <2> HIDE DEF accepted
  <2> QED
    BY <1>0, <1>3, MaxIs
<1> QED
  BY <1>1, <1>2, <1>4, <1>5

\* The scan of a text: what it makes of the rest, position by position.
LEMMA RedactFromIs ==
  ASSUME NEW p, Detector(p), NEW s \in Seq(Chars), NEW protect_tail,
         NEW i \in 1 .. Len(s) + 1
  PROVE  RedactFrom(p, s, protect_tail, i) =
            IF i > Len(s) THEN <<>>
            ELSE IF Stays(p, s, protect_tail, i)
              THEN <<s[i]>> \o RedactFrom(p, s, protect_tail, i + 1)
              ELSE <<Placeholder>> \o
                   RedactFrom(p, s, protect_tail, ValidatedEnd(p, s, i) + 1)
<1> DEFINE N == Len(s)
           Body(f, j) == IF j > Len(s) THEN <<>>
                         ELSE IF Stays(p, s, protect_tail, j)
                           THEN <<s[j]>> \o f[j + 1]
                           ELSE <<Placeholder>> \o f[ValidatedEnd(p, s, j) + 1]
           Solves(f, m) == f = [j \in m .. N + 1 |-> Body(f, j)]
           S == {n \in 0 .. N : \E f : Solves(f, N + 1 - n)}
<1>0. N \in Nat
  OBVIOUS
<1>1. \A j \in 1 .. N : ~Stays(p, s, protect_tail, j) => ValidatedEnd(p, s, j) \in j .. N
  BY ValidatedEndIs DEF Stays
<1>2. 0 \in S
  <2> DEFINE f == [j \in N + 1 .. N + 1 |-> <<>>]
  <2>1. \A j \in N + 1 .. N + 1 : j > Len(s)
    BY <1>0
  <2>2. Solves(f, N + 1)
    BY <2>1
  <2>3. N + 1 - 0 = N + 1 /\ 0 \in 0 .. N
    BY <1>0
  <2> HIDE DEF Solves, f
  <2> QED
    BY <2>2, <2>3
<1>3. ASSUME NEW n \in 0 .. N - 1, n \in S
      PROVE  n + 1 \in S
  <2> DEFINE m == N + 1 - n
  <2>0. m \in 2 .. N + 1 /\ m - 1 \in 1 .. N /\ N + 1 - (n + 1) = m - 1 /\ n + 1 \in 0 .. N
    BY <1>0
  <2>1. PICK f : Solves(f, m)
    BY <1>3
  <2> HIDE DEF m
  <2> DEFINE g == [j \in m - 1 .. N + 1 |-> IF j = m - 1 THEN Body(f, j) ELSE f[j]]
  <2>2. \A j \in m .. N + 1 : g[j] = f[j]
    BY <1>0, <2>0
  <2>3. \A j \in m .. N + 1 : f[j] = Body(f, j)
    <3> HIDE DEF Body
    <3> QED
      BY <2>1
  <2>4. ASSUME NEW j \in m - 1 .. N + 1
        PROVE  Body(g, j) = Body(f, j)
    <3>1. CASE j > Len(s)
      BY <3>1
    <3>2. CASE j \in 1 .. N
      <4>1. j + 1 \in m .. N + 1
        BY <1>0, <2>0, <3>2
      <4>2. ~Stays(p, s, protect_tail, j) => ValidatedEnd(p, s, j) + 1 \in m .. N + 1
        BY <1>0, <1>1, <2>0, <3>2
      <4>3. g[j + 1] = f[j + 1]
        BY <2>2, <4>1
      <4>4. ~Stays(p, s, protect_tail, j) =>
               g[ValidatedEnd(p, s, j) + 1] = f[ValidatedEnd(p, s, j) + 1]
        BY <2>2, <4>2
      <4> HIDE DEF g
      <4> QED
        BY <4>3, <4>4
    <3> QED
      BY <1>0, <2>0, <3>1, <3>2
  <2>5. \A j \in m - 1 .. N + 1 : g[j] = Body(g, j)
    <3> SUFFICES ASSUME NEW j \in m - 1 .. N + 1 PROVE g[j] = Body(g, j)
      OBVIOUS
    <3>1. g[j] = Body(f, j)
      <4> HIDE DEF Body
      <4>1. CASE j = m - 1
        BY <4>1
      <4>2. CASE j \in m .. N + 1
        BY <2>0, <2>2, <2>3, <4>2
      <4> QED
        BY <1>0, <2>0, <4>1, <4>2
    <3> HIDE DEF Body, g
    <3> QED
      BY <2>4, <3>1
  <2>6. Solves(g, m - 1)
    <3>1. g = [j \in m - 1 .. N + 1 |-> g[j]]
      OBVIOUS
    <3> HIDE DEF Body, g
    <3> QED
      BY <2>5, <3>1
  <2> HIDE DEF Solves, g
  <2> QED
    BY <2>0, <2>6
<1>4. \E f : Solves(f, 1)
  <2>1. \A n \in 0 .. N : n \in S
    <3> HIDE DEF S, N
    <3> QED
      BY <1>0, <1>2, <1>3, Upward
  <2>2. N \in 0 .. N /\ N + 1 - N = 1
    BY <1>0
  <2> HIDE DEF Solves
  <2> QED
    BY <2>1, <2>2
<1> DEFINE h == CHOOSE f : Solves(f, 1)
<1>5. Solves(h, 1)
  <2> HIDE DEF Solves
  <2> QED
    BY <1>4
<1>6. \A j : RedactFrom(p, s, protect_tail, j) = h[j]
  BY DEF RedactFrom
<1> HIDE DEF h
<1>7. \A j \in 1 .. N + 1 : h[j] = Body(h, j)
  <2> HIDE DEF Body
  <2> QED
    BY <1>5
<1> QED
  BY <1>6, <1>7

-----------------------------------------------------------------------------
(***************************************************************************)
(* What redaction makes of a text                                          *)
(***************************************************************************)
\* r is what a detector makes of s from i on: each of its characters is one of
\* s, or a placeholder for what the detector reaches; c says up to where.
Parts(p, s, i, r, c) ==
  /\ c \in [0 .. Len(r) -> i - 1 .. Len(s)]
  /\ c[0] = i - 1 /\ c[Len(r)] = Len(s)
  /\ \A j, k \in 0 .. Len(r) : j <= k => c[j] <= c[k]
  /\ \A j \in 1 .. Len(r) :
        \/ r[j] = s[c[j]] /\ c[j] = c[j - 1] + 1
        \/ /\ r[j] = Placeholder
           /\ c[j - 1] < c[j]
           /\ c[j] \in Reach(p, Len(p.items), s, c[j - 1] + 1)

\* A part more in front.
LEMMA PartsBefore ==
  ASSUME NEW p, NEW s \in Seq(Chars), NEW i \in 1 .. Len(s), NEW m \in i + 1 .. Len(s) + 1,
         NEW r \in Seq(Chars), NEW c, Parts(p, s, m, r, c), NEW x \in Chars,
         \/ x = s[i] /\ m = i + 1
         \/ x = Placeholder /\ m - 1 \in Reach(p, Len(p.items), s, i)
  PROVE  /\ <<x>> \o r \in Seq(Chars)
         /\ \E d : Parts(p, s, i, <<x>> \o r, d)
<1> DEFINE z == <<x>> \o r
           d == [j \in 0 .. Len(z) |-> IF j = 0 THEN i - 1 ELSE c[j - 1]]
<1>1. /\ z \in Seq(Chars) /\ Len(z) = Len(r) + 1 /\ Len(r) \in Nat /\ Len(s) \in Nat
      /\ z[1] = x /\ \A j \in 2 .. Len(z) : z[j] = r[j - 1]
  OBVIOUS
<1> HIDE DEF z
<1>2. /\ c \in [0 .. Len(r) -> m - 1 .. Len(s)] /\ c[0] = m - 1 /\ c[Len(r)] = Len(s)
  BY DEF Parts
<1>3. d[0] = i - 1 /\ \A j \in 1 .. Len(z) : d[j] = c[j - 1]
  BY <1>1
<1>4. d \in [0 .. Len(z) -> i - 1 .. Len(s)]
  <2>0. \A y \in m - 1 .. Len(s) : y \in i - 1 .. Len(s)
    BY <1>1
  <2>1. \A j \in 0 .. Len(r) : c[j] \in i - 1 .. Len(s)
    <3>1. \A j \in 0 .. Len(r) : c[j] \in m - 1 .. Len(s)
      BY <1>2
    <3> QED
      BY <2>0, <3>1
  <2>2. \A j \in 1 .. Len(z) : j - 1 \in 0 .. Len(r)
    BY <1>1
  <2>3. i - 1 \in i - 1 .. Len(s)
    BY <1>1
  <2>4. \A j \in 0 .. Len(z) : j = 0 \/ j \in 1 .. Len(z)
    BY <1>1
  <2> QED
    BY <2>1, <2>2, <2>3, <2>4
<1> HIDE DEF d
<1>5. d[Len(z)] = Len(s)
  BY <1>1, <1>2, <1>3
<1>6. ASSUME NEW j \in 1 .. Len(z)
      PROVE  \/ z[j] = s[d[j]] /\ d[j] = d[j - 1] + 1
             \/ /\ z[j] = Placeholder
                /\ d[j - 1] < d[j]
                /\ d[j] \in Reach(p, Len(p.items), s, d[j - 1] + 1)
  <2>1. CASE j = 1
    <3>1. d[j] = m - 1 /\ d[j - 1] = i - 1 /\ z[j] = x
      BY <1>1, <1>2, <1>3, <2>1
    <3>2. CASE x = s[i] /\ m = i + 1
      BY <3>1, <3>2
    <3>3. CASE x = Placeholder /\ m - 1 \in Reach(p, Len(p.items), s, i)
      <4>1. d[j - 1] + 1 = i /\ d[j - 1] < d[j]
        BY <3>1
      <4> QED
        BY <3>1, <3>3, <4>1
    <3> QED
      BY <3>2, <3>3
  <2>2. CASE j \in 2 .. Len(z)
    <3> DEFINE q == j - 1
    <3>1. q \in 1 .. Len(r) /\ z[j] = r[q] /\ d[j] = c[q] /\ d[j - 1] = c[q - 1]
      <4>1. q \in 1 .. Len(r) /\ q \in 1 .. Len(z) /\ j \in 1 .. Len(z)
        BY <1>1, <2>2
      <4>2. z[j] = r[q]
        BY <1>1, <2>2
      <4>3. d[j] = c[q]
        BY <1>3, <4>1
      <4>4. d[q] = c[q - 1]
        BY <1>3, <4>1
      <4> QED
        BY <4>1, <4>2, <4>3, <4>4
    <3> HIDE DEF q
    <3>2. \/ r[q] = s[c[q]] /\ c[q] = c[q - 1] + 1
          \/ /\ r[q] = Placeholder
             /\ c[q - 1] < c[q]
             /\ c[q] \in Reach(p, Len(p.items), s, c[q - 1] + 1)
      BY <3>1 DEF Parts
    <3> QED
      BY <3>1, <3>2
  <2> QED
    BY <1>1, <2>1, <2>2
<1>9. \A j, k \in 0 .. Len(z) : j <= k => d[j] <= d[k]
  <2> SUFFICES ASSUME NEW j \in 0 .. Len(z), NEW k \in 0 .. Len(z), j <= k
               PROVE  d[j] <= d[k]
    OBVIOUS
  <2>1. CASE j = 0
    BY <1>3, <1>4, <2>1, SMTT(20)
  <2>2. CASE j \in 1 .. Len(z)
    <3>1. k \in 1 .. Len(z) /\ j - 1 \in 0 .. Len(r) /\ k - 1 \in 0 .. Len(r) /\ j - 1 <= k - 1
      BY <1>1, <2>2
    <3>2. c[j - 1] <= c[k - 1]
      BY <3>1 DEF Parts
    <3> QED
      BY <1>3, <2>2, <3>1, <3>2
  <2> QED
    BY <1>1, <2>1, <2>2
<1>7. Parts(p, s, i, z, d)
  BY <1>3, <1>4, <1>5, <1>6, <1>9 DEF Parts
<1>8. \E dd : Parts(p, s, i, z, dd)
  BY <1>7
<1> QED
  BY <1>1, <1>8 DEF z

\* A scan makes parts of the rest of the text.
LEMMA RedactFromParts ==
  ASSUME NEW p, Detector(p), NEW s \in Seq(Chars), NEW protect_tail
  PROVE  \A i \in 1 .. Len(s) + 1 :
            /\ RedactFrom(p, s, protect_tail, i) \in Seq(Chars)
            /\ \E c : Parts(p, s, i, RedactFrom(p, s, protect_tail, i), c)
<1> DEFINE R(i) == RedactFrom(p, s, protect_tail, i)
           N == Len(s) + 1
           S == {i \in 1 .. N : R(i) \in Seq(Chars) /\ \E c : Parts(p, s, i, R(i), c)}
<1>0. Len(s) \in Nat /\ N \in Nat
  OBVIOUS
<1>1. ASSUME NEW i \in 1 .. N, \A m \in i + 1 .. N : m \in S
      PROVE  i \in S
  <2>1. CASE i = N
    <3>1. R(i) = <<>> /\ i > Len(s) /\ i - 1 = Len(s)
      <4>1. i \in 1 .. Len(s) + 1 /\ i > Len(s) /\ i - 1 = Len(s)
        BY <1>0, <2>1
      <4>2. R(i) = IF i > Len(s) THEN <<>>
                   ELSE IF Stays(p, s, protect_tail, i) THEN <<s[i]>> \o R(i + 1)
                   ELSE <<Placeholder>> \o R(ValidatedEnd(p, s, i) + 1)
        BY <4>1, RedactFromIs
      <4> HIDE DEF R
      <4> QED
        BY <4>1, <4>2
    <3> DEFINE c == [j \in 0 .. 0 |-> i - 1]
    <3>2. <<>> \in Seq(Chars) /\ Len(<<>>) = 0
      OBVIOUS
    <3>3. c \in [0 .. 0 -> i - 1 .. Len(s)] /\ c[0] = i - 1
      BY <1>0, <3>1
    <3>5. \A j, k \in 0 .. 0 : c[j] <= c[k]
      BY <1>0
    <3>4. Parts(p, s, i, <<>>, c)
      BY <3>1, <3>2, <3>3, <3>5 DEF Parts
    <3> HIDE DEF c, R
    <3> QED
      BY <3>1, <3>2, <3>4
  <2>2. CASE i \in 1 .. Len(s)
    <3> DEFINE m == IF Stays(p, s, protect_tail, i) THEN i + 1
                    ELSE ValidatedEnd(p, s, i) + 1
               x == IF Stays(p, s, protect_tail, i) THEN s[i] ELSE Placeholder
    <3>1. R(i) = <<x>> \o R(m)
      <4>1. i \in 1 .. Len(s) + 1 /\ ~(i > Len(s))
        BY <1>0, <2>2
      <4>2. R(i) = IF Stays(p, s, protect_tail, i) THEN <<s[i]>> \o R(i + 1)
                   ELSE <<Placeholder>> \o R(ValidatedEnd(p, s, i) + 1)
        BY <4>1, RedactFromIs
      <4> HIDE DEF R
      <4> QED
        BY <4>2
    <3>2. x \in Chars
      <4>1. s[i] \in Chars
        BY <2>2
      <4>2. Placeholder \in Chars
        BY PlaceholderIsChar
      <4> QED
        BY <4>1, <4>2
    <3>3. /\ m \in i + 1 .. N
          /\ \/ x = s[i] /\ m = i + 1
             \/ x = Placeholder /\ m - 1 \in Reach(p, Len(p.items), s, i)
      <4>1. CASE Stays(p, s, protect_tail, i)
        BY <1>0, <2>2, <4>1
      <4>2. CASE ~Stays(p, s, protect_tail, i)
        <5>1. /\ ValidatedEnd(p, s, i) \in Reach(p, Len(p.items), s, i)
              /\ ValidatedEnd(p, s, i) \in i .. Len(s)
          BY <2>2, <4>2, ValidatedEndIs DEF Stays
        <5>2. m = ValidatedEnd(p, s, i) + 1 /\ m - 1 = ValidatedEnd(p, s, i)
          BY <4>2, <5>1
        <5> QED
          BY <1>0, <4>2, <5>1, <5>2
      <4> QED
        BY <4>1, <4>2
    <3> HIDE DEF m, x
    <3>4. R(m) \in Seq(Chars) /\ \E c : Parts(p, s, m, R(m), c)
      BY <1>1, <3>3
    <3>5. PICK c : Parts(p, s, m, R(m), c)
      BY <3>4
    <3> HIDE DEF R
    <3>6. <<x>> \o R(m) \in Seq(Chars) /\ \E d : Parts(p, s, i, <<x>> \o R(m), d)
      BY <2>2, <3>2, <3>3, <3>4, <3>5, PartsBefore
    <3> QED
      BY <3>1, <3>6
  <2> QED
    BY <1>0, <2>1, <2>2
<1>2. \A i \in 1 .. N : i \in S
  <2> HIDE DEF S, N
  <2> QED
    BY <1>0, <1>1, Downward
<1> QED
  BY <1>2

-----------------------------------------------------------------------------
(***************************************************************************)
(* The account of an output: what each of its characters stands for        *)
(***************************************************************************)
\* What may never come out.
Lost(t, x) == InCandidate(t, x) \/ InLongRun(t, x)

TaggedText(t) == t \in Seq(Chars) /\ \A i \in 1 .. Len(t) : t[i][2] = i

\* No character of the text is taken for a placeholder.
LEMMA TextIsNoPlaceholder ==
  ASSUME NEW t, TaggedText(t), NEW i \in 1 .. Len(t)
  PROVE  t[i] # Placeholder
<1>1. t[i][2] = i /\ i # 0
  BY DEF TaggedText
<1>2. Placeholder[2] = 0
  BY DEF Placeholder
<1> QED
  BY <1>1, <1>2

\* A character stands for one character of the text, or is a placeholder for some
\* that may be lost.
Shows(t, char, from, to) ==
  \/ char = t[to] /\ to = from + 1
  \/ char = Placeholder /\ \A x \in from + 1 .. to : Lost(t, x)

\* z is what the text became from lo + 1 to hi; b says which character of the text
\* each of its characters goes up to.
Renders(t, lo, hi, z, b) ==
  /\ b \in [0 .. Len(z) -> lo .. hi]
  /\ b[0] = lo /\ b[Len(z)] = hi
  /\ \A j, k \in 0 .. Len(z) : j <= k => b[j] <= b[k]
  /\ \A j \in 1 .. Len(z) : Shows(t, z[j], b[j - 1], b[j])

\* No placeholder from a to e; and there the text goes on without a gap.
Plain(z, a, e) == \A j \in a .. e : z[j] # Placeholder
GoesOn(t, z, b, a, e) ==
  /\ \A n \in 0 .. e - a + 1 : b[a - 1 + n] = b[a - 1] + n
  /\ \A n \in 1 .. e - a + 1 : z[a - 1 + n] = t[b[a - 1] + n]

\* Where there is no placeholder, the text goes on without a gap.
LEMMA NoGap ==
  ASSUME NEW t, NEW lo \in Nat, NEW hi \in Nat, NEW z \in Seq(Chars), NEW b,
         Renders(t, lo, hi, z, b),
         NEW a \in 1 .. Len(z) + 1, NEW e \in a - 1 .. Len(z),
         Plain(z, a, e)
  PROVE  GoesOn(t, z, b, a, e)
<1> DEFINE N == e - a + 1
           S == {n \in 0 .. N : b[a - 1 + n] = b[a - 1] + n}
<1>0. /\ Len(z) \in Nat /\ N \in Nat /\ a \in Int /\ e \in Int
      /\ b \in [0 .. Len(z) -> lo .. hi]
  BY DEF Renders
<1>1. 0 \in S
  <2>1. a - 1 \in 0 .. Len(z) /\ a - 1 + 0 = a - 1 /\ 0 \in 0 .. N
    BY <1>0
  <2>2. b[a - 1] \in lo .. hi
    BY <1>0, <2>1
  <2> QED
    BY <2>1, <2>2
<1>2. ASSUME NEW n \in 0 .. N - 1
      PROVE  /\ b[a - 1 + (n + 1)] = b[a - 1 + n] + 1
             /\ z[a - 1 + (n + 1)] = t[b[a - 1 + (n + 1)]]
  <2> DEFINE j == a - 1 + (n + 1)
  <2>1. j \in 1 .. Len(z) /\ j \in a .. e /\ j - 1 = a - 1 + n
    BY <1>0
  <2> HIDE DEF j
  <2>2. Shows(t, z[j], b[j - 1], b[j]) /\ z[j] # Placeholder
    BY <2>1 DEF Renders, Plain
  <2>3. z[j] = t[b[j]] /\ b[j] = b[j - 1] + 1
    BY <2>2 DEF Shows
  <2>4. b[j - 1] = b[a - 1 + n]
    BY <2>1
  <2> QED
    BY <2>3, <2>4 DEF j
<1>3. ASSUME NEW n \in 0 .. N - 1, n \in S
      PROVE  n + 1 \in S
  <2>1. b[a - 1 + n] = b[a - 1] + n /\ n + 1 \in 0 .. N
    BY <1>0, <1>3
  <2>2. a - 1 \in 0 .. Len(z) /\ b[a - 1] \in Int
    BY <1>0
  <2>3. b[a - 1 + (n + 1)] = b[a - 1] + (n + 1)
    <3>1. b[a - 1 + (n + 1)] = b[a - 1 + n] + 1
      BY <1>2
    <3>2. (b[a - 1] + n) + 1 = b[a - 1] + (n + 1)
      BY <1>0, <2>2
    <3> QED
      BY <2>1, <3>1, <3>2
  <2> QED
    BY <2>1, <2>3
<1>4. \A n \in 0 .. N : n \in S
  <2> HIDE DEF S, N
  <2> QED
    BY <1>0, <1>1, <1>3, Upward
<1>5. \A n \in 0 .. N : b[a - 1 + n] = b[a - 1] + n
  BY <1>4
<1>6. ASSUME NEW n \in 1 .. N
      PROVE  z[a - 1 + n] = t[b[a - 1] + n]
  <2>1. n - 1 \in 0 .. N - 1 /\ (n - 1) + 1 = n /\ n \in 0 .. N
    BY <1>0
  <2>2. z[a - 1 + n] = t[b[a - 1 + n]]
    BY <1>2, <2>1
  <2> QED
    BY <1>5, <2>1, <2>2
<1> QED
  BY <1>5, <1>6 DEF GoesOn

\* What a detector takes out of a rendering may be lost.
LEMMA ReachIsLost ==
  ASSUME NEW t, TaggedText(t), NEW lo \in Nat, NEW hi \in Nat, hi <= Len(t),
         NEW z \in Seq(Chars), NEW b, Renders(t, lo, hi, z, b),
         NEW p \in ToSet(DEFAULT_PATTERNS), Detector(p),
         NEW a \in 1 .. Len(z), NEW e \in Reach(p, Len(p.items), z, a)
  PROVE  \A x \in b[a - 1] + 1 .. b[e] : Lost(t, x)
<1>0. /\ Len(z) \in Nat /\ Len(t) \in Nat /\ a \in Int /\ e \in a .. Len(z)
      /\ a \in 1 .. Len(z) + 1
      /\ b \in [0 .. Len(z) -> lo .. hi] /\ t \in Seq(Chars)
      /\ Len(p.items) \in 0 .. Len(p.items)
  <2>1. a \in 1 .. Len(z) + 1 /\ Len(z) \in Nat /\ Len(t) \in Nat /\ a \in Int
    BY DEF TaggedText
  <2>2. e \in a .. Len(z)
    BY <2>1, WholeReach
  <2>3. Len(p.items) \in 0 .. Len(p.items)
    BY DEF Detector
  <2> QED
    BY <2>1, <2>2, <2>3 DEF Renders, TaggedText
<1>1. \A j \in a .. e : z[j] # Placeholder
  <2> SUFFICES ASSUME NEW j \in a .. e PROVE Class(z[j]) # "redacted"
    BY PlaceholderIsChar
  <2> QED
    BY <1>0, WholeReach
<1> DEFINE L == e - a + 1
           from == b[a - 1] + 1
<1>2. /\ \A n \in 0 .. L : b[a - 1 + n] = b[a - 1] + n
      /\ \A n \in 1 .. L : z[a - 1 + n] = t[b[a - 1] + n]
  <2>1. e \in a - 1 .. Len(z)
    BY <1>0
  <2>2. Plain(z, a, e)
    BY <1>1 DEF Plain
  <2>3. GoesOn(t, z, b, a, e)
    BY <1>0, <2>1, <2>2, NoGap
  <2> QED
    BY <2>3 DEF GoesOn
<1>3. /\ L \in Nat /\ a - 1 \in 0 .. Len(z) /\ a - 1 + L = e /\ L \in 0 .. L
      /\ b[a - 1] \in lo .. hi /\ b[e] \in lo .. hi
  BY <1>0, SMTT(20)
<1>4. b[e] = b[a - 1] + L
  BY <1>2, <1>3
<1>5. from \in 1 .. Len(t) + 1 /\ from - 1 + L <= Len(t) /\ from - 1 = b[a - 1]
  BY <1>0, <1>3, <1>4
<1>6. (e - a) + from = b[e] /\ e <= a - 1 + L
  BY <1>0, <1>3, <1>4
<1>7. \A j \in 1 .. L : z[a - 1 + j] = t[from - 1 + j]
  BY <1>2, <1>5
<1>8. b[e] \in Reach(p, Len(p.items), t, from)
  <2>1. a - 1 + L <= Len(z)
    BY <1>0
  <2> HIDE DEF L, from
  <2>2. \A k \in 0 .. Len(p.items) : \A f \in Reach(p, k, z, a) :
           f <= a - 1 + L => (f - a) + from \in Reach(p, k, t, from)
    BY <1>0, <1>3, <1>5, <1>7, <2>1, ReachTranslates
  <2>3. (e - a) + from \in Reach(p, Len(p.items), t, from)
    BY <1>0, <1>6, <2>2
  <2> QED
    BY <1>6, <2>3
<1>9. \A x \in from .. b[e] : InCandidate(t, x)
  <2> SUFFICES ASSUME NEW x \in from .. b[e] PROVE InCandidate(t, x)
    OBVIOUS
  <2>1. from \in 1 .. x /\ x <= b[e]
    BY <1>3, <1>5
  <2> HIDE DEF from
  <2> QED
    BY <1>8, <2>1 DEF InCandidate
<1> QED
  BY <1>9 DEF Lost

\* Redaction by a detector keeps the account.
LEMMA RendersRedactOne ==
  ASSUME NEW t, TaggedText(t), NEW lo \in Nat, NEW hi \in Nat, hi <= Len(t),
         NEW z \in Seq(Chars), NEW b, Renders(t, lo, hi, z, b),
         NEW p \in ToSet(DEFAULT_PATTERNS), Detector(p), NEW protect_tail
  PROVE  /\ RedactOne(p, z, protect_tail) \in Seq(Chars)
         /\ \E d : Renders(t, lo, hi, RedactOne(p, z, protect_tail), d)
<1> DEFINE r == RedactOne(p, z, protect_tail)
<1>0. 1 \in 1 .. Len(z) + 1 /\ Len(z) \in Nat /\ r = RedactFrom(p, z, protect_tail, 1)
  BY DEF RedactOne
<1> HIDE DEF r
<1>1. r \in Seq(Chars) /\ \E c : Parts(p, z, 1, r, c)
  BY <1>0, RedactFromParts
<1>2. PICK c : Parts(p, z, 1, r, c)
  BY <1>1
<1>3. /\ c \in [0 .. Len(r) -> 0 .. Len(z)] /\ Len(r) \in Nat
      /\ c[0] = 0 /\ c[Len(r)] = Len(z)
      /\ \A j, k \in 0 .. Len(r) : j <= k => c[j] <= c[k]
  BY <1>0, <1>1, <1>2 DEF Parts
<1>4. /\ b \in [0 .. Len(z) -> lo .. hi] /\ b[0] = lo /\ b[Len(z)] = hi
      /\ \A j, k \in 0 .. Len(z) : j <= k => b[j] <= b[k]
  BY DEF Renders
<1> DEFINE d == [j \in 0 .. Len(r) |-> b[c[j]]]
<1>5. d \in [0 .. Len(r) -> lo .. hi] /\ d[0] = lo /\ d[Len(r)] = hi
  BY <1>3, <1>4
<1>6. \A j, k \in 0 .. Len(r) : j <= k => d[j] <= d[k]
  BY <1>3, <1>4
<1>7. ASSUME NEW j \in 1 .. Len(r)
      PROVE  Shows(t, r[j], d[j - 1], d[j])
  <2>1. /\ j \in 0 .. Len(r) /\ j - 1 \in 0 .. Len(r)
        /\ c[j] \in 0 .. Len(z) /\ c[j - 1] \in 0 .. Len(z)
        /\ d[j] = b[c[j]] /\ d[j - 1] = b[c[j - 1]]
    BY <1>3, SMTT(20)
  <2>2. \/ r[j] = z[c[j]] /\ c[j] = c[j - 1] + 1
        \/ /\ r[j] = Placeholder
           /\ c[j - 1] < c[j]
           /\ c[j] \in Reach(p, Len(p.items), z, c[j - 1] + 1)
    BY <1>2 DEF Parts
  <2> HIDE DEF d
  <2>3. CASE r[j] = z[c[j]] /\ c[j] = c[j - 1] + 1
    <3>1. c[j] \in 1 .. Len(z) /\ c[j - 1] = c[j] - 1
      BY <2>1, <2>3
    <3>2. Shows(t, z[c[j]], b[c[j] - 1], b[c[j]])
      BY <3>1 DEF Renders
    <3> QED
      BY <2>1, <2>3, <3>1, <3>2
  <2>4. CASE /\ r[j] = Placeholder
             /\ c[j - 1] < c[j]
             /\ c[j] \in Reach(p, Len(p.items), z, c[j - 1] + 1)
    <3> DEFINE a == c[j - 1] + 1
               e == c[j]
    <3>1. a \in 1 .. Len(z) /\ a - 1 = c[j - 1] /\ e \in Reach(p, Len(p.items), z, a)
      BY <1>0, <2>1, <2>4, SMTT(20)
    <3> HIDE DEF a, e
    <3>2. \A x \in b[a - 1] + 1 .. b[e] : Lost(t, x)
      BY <3>1, ReachIsLost
    <3>3. \A x \in d[j - 1] + 1 .. d[j] : Lost(t, x)
      BY <2>1, <3>1, <3>2 DEF e
    <3> QED
      BY <2>4, <3>3 DEF Shows
  <2> QED
    BY <2>2, <2>3, <2>4
<1>8. Renders(t, lo, hi, r, d)
  <2> HIDE DEF d
  <2> QED
    BY <1>5, <1>6, <1>7 DEF Renders
<1> HIDE DEF d
<1>9. r \in Seq(Chars) /\ \E dd : Renders(t, lo, hi, r, dd)
  BY <1>1, <1>8
<1> QED
  BY <1>9 DEF r

\* The detectors run one after the other.
LEMMA RedactIs ==
  ASSUME NEW s, NEW protect_tail
  PROVE  Redact(s, protect_tail) =
            RedactOne(DEFAULT_PATTERNS[4],
              RedactOne(DEFAULT_PATTERNS[3],
                RedactOne(DEFAULT_PATTERNS[2],
                  RedactOne(DEFAULT_PATTERNS[1], s, protect_tail),
                  protect_tail), protect_tail), protect_tail)
<1> DEFINE One_(n, x) == RedactOne(DEFAULT_PATTERNS[n], x, protect_tail)
           Solves(f) == f = [n \in 0 .. 4 |-> IF n = 0 THEN s ELSE One_(n, f[n - 1])]
           a1 == One_(1, s)
           a2 == One_(2, a1)
           a3 == One_(3, a2)
           a4 == One_(4, a3)
           g  == [n \in 0 .. 4 |-> IF n = 0 THEN s ELSE IF n = 1 THEN a1
                                   ELSE IF n = 2 THEN a2 ELSE IF n = 3 THEN a3 ELSE a4]
<1>1. \A n \in 0 .. 4 : n = 0 \/ n = 1 \/ n = 2 \/ n = 3 \/ n = 4
  OBVIOUS
<1>2. g[0] = s /\ g[1] = a1 /\ g[2] = a2 /\ g[3] = a3 /\ g[4] = a4
  OBVIOUS
<1>3. \A n \in 0 .. 4 : g[n] = IF n = 0 THEN s ELSE One_(n, g[n - 1])
  <2> HIDE DEF g
  <2>1. g[0] = s
    BY <1>2
  <2>2. g[1] = One_(1, g[1 - 1]) /\ g[2] = One_(2, g[2 - 1])
    BY <1>2
  <2>3. g[3] = One_(3, g[3 - 1]) /\ g[4] = One_(4, g[4 - 1])
    BY <1>2
  <2> HIDE DEF One_
  <2> QED
    BY <1>1, <2>1, <2>2, <2>3
<1>4. Solves(g)
  <2>1. g = [n \in 0 .. 4 |-> g[n]]
    OBVIOUS
  <2> HIDE DEF g, One_
  <2> QED
    BY <1>3, <2>1
<1> DEFINE h == CHOOSE f : Solves(f)
<1>5. Solves(h)
  <2> HIDE DEF Solves, g
  <2> QED
    BY <1>4
<1>6. Redact(s, protect_tail) = h[4]
  BY DefaultDetectors DEF Redact
<1> HIDE DEF h
<1>7. \A n \in 0 .. 4 : h[n] = IF n = 0 THEN s ELSE One_(n, h[n - 1])
  <2> HIDE DEF One_
  <2> QED
    BY <1>5
<1>8. h[0] = s /\ h[1] = One_(1, h[1 - 1]) /\ h[2] = One_(2, h[2 - 1])
      /\ h[3] = One_(3, h[3 - 1]) /\ h[4] = One_(4, h[4 - 1])
  <2> HIDE DEF One_
  <2> QED
    BY <1>7
<1>9. h[1] = a1 /\ h[2] = a2 /\ h[3] = a3 /\ h[4] = a4
  <2>1. h[1] = One_(1, h[0]) /\ h[2] = One_(2, h[1]) /\ h[3] = One_(3, h[2])
        /\ h[4] = One_(4, h[3]) /\ h[0] = s
    BY <1>8
  <2> HIDE DEF One_
  <2> QED
    BY <2>1
<1> QED
  BY <1>6, <1>9

\* There is an account of a sequence as a rendering.
Rendering(t, lo, hi, z) == z \in Seq(Chars) /\ \E b : Renders(t, lo, hi, z, b)

\* Redaction keeps the account.
LEMMA RendersRedact ==
  ASSUME NEW t, TaggedText(t), NEW lo \in Nat, NEW hi \in Nat, hi <= Len(t),
         NEW z, Rendering(t, lo, hi, z), NEW protect_tail
  PROVE  Rendering(t, lo, hi, Redact(z, protect_tail))
<1>1. ASSUME NEW n \in 1 .. 4, NEW x, Rendering(t, lo, hi, x)
      PROVE  Rendering(t, lo, hi, RedactOne(DEFAULT_PATTERNS[n], x, protect_tail))
  <2> DEFINE p == DEFAULT_PATTERNS[n]
  <2>1. Detector(p)
    BY DefaultDetectors
  <2>2. p \in ToSet(DEFAULT_PATTERNS)
    <3>1. n \in DOMAIN DEFAULT_PATTERNS
      BY DEF DEFAULT_PATTERNS
    <3> QED
      BY <3>1 DEF ToSet
  <2>3. PICK b : Renders(t, lo, hi, x, b)
    BY <1>1 DEF Rendering
  <2>4. x \in Seq(Chars)
    BY <1>1 DEF Rendering
  <2> HIDE DEF p
  <2>5. /\ RedactOne(p, x, protect_tail) \in Seq(Chars)
        /\ \E d : Renders(t, lo, hi, RedactOne(p, x, protect_tail), d)
    BY <2>1, <2>2, <2>3, <2>4, RendersRedactOne
  <2> QED
    BY <2>5 DEF Rendering, p
<1> DEFINE a1 == RedactOne(DEFAULT_PATTERNS[1], z, protect_tail)
           a2 == RedactOne(DEFAULT_PATTERNS[2], a1, protect_tail)
           a3 == RedactOne(DEFAULT_PATTERNS[3], a2, protect_tail)
           a4 == RedactOne(DEFAULT_PATTERNS[4], a3, protect_tail)
<1>2. Rendering(t, lo, hi, a1)
  BY <1>1
<1>3. Rendering(t, lo, hi, a2)
  <2> HIDE DEF a1
  <2> QED
    BY <1>1, <1>2
<1>4. Rendering(t, lo, hi, a3)
  <2> HIDE DEF a2
  <2> QED
    BY <1>1, <1>3
<1>5. Rendering(t, lo, hi, a4)
  <2> HIDE DEF a3
  <2> QED
    BY <1>1, <1>4
<1>6. Redact(z, protect_tail) = a4
  BY RedactIs
<1> HIDE DEF a4
<1> QED
  BY <1>5, <1>6

\* Two renderings of adjoining stretches make one.
LEMMA RendersJoin ==
  ASSUME NEW t, NEW lo \in Nat, NEW mid \in Nat, NEW hi \in Nat,
         NEW x, Rendering(t, lo, mid, x), NEW y, Rendering(t, mid, hi, y)
  PROVE  Rendering(t, lo, hi, x \o y)
<1>1. PICK b : Renders(t, lo, mid, x, b)
  BY DEF Rendering
<1>2. PICK d : Renders(t, mid, hi, y, d)
  BY DEF Rendering
<1> DEFINE z == x \o y
           m == Len(x)
           n == Len(y)
           g == [j \in 0 .. Len(z) |-> IF j <= m THEN b[j] ELSE d[j - m]]
<1>3. /\ x \in Seq(Chars) /\ y \in Seq(Chars) /\ z \in Seq(Chars)
      /\ m \in Nat /\ n \in Nat /\ Len(z) = m + n
      /\ \A j \in 1 .. m : z[j] = x[j]
      /\ \A j \in m + 1 .. m + n : z[j] = y[j - m]
  BY DEF Rendering
<1>4. /\ b \in [0 .. m -> lo .. mid] /\ b[0] = lo /\ b[m] = mid
      /\ \A j, k \in 0 .. m : j <= k => b[j] <= b[k]
  BY <1>1 DEF Renders
<1>5. /\ d \in [0 .. n -> mid .. hi] /\ d[0] = mid /\ d[n] = hi
      /\ \A j, k \in 0 .. n : j <= k => d[j] <= d[k]
  BY <1>2 DEF Renders
<1>6. lo <= mid /\ mid <= hi
  BY <1>3, <1>4, <1>5, SMTT(20)
<1> HIDE DEF z, m, n
<1>7. \A j \in 0 .. m : g[j] = b[j] /\ g[j] \in lo .. mid
  BY <1>3, <1>4
<1>8. \A j \in m .. m + n : g[j] = d[j - m] /\ g[j] \in mid .. hi
  <2> SUFFICES ASSUME NEW j \in m .. m + n
               PROVE  g[j] = d[j - m] /\ g[j] \in mid .. hi
    OBVIOUS
  <2>1. j - m \in 0 .. n /\ j \in 0 .. Len(z)
    BY <1>3
  <2>2. d[j - m] \in mid .. hi
    BY <1>5, <2>1
  <2>3. CASE j = m
    BY <1>3, <1>4, <1>5, <1>7, <2>2, <2>3
  <2>4. CASE j > m
    BY <1>3, <2>1, <2>2, <2>4
  <2> QED
    BY <1>3, <2>3, <2>4
<1> HIDE DEF g
<1>9. \A j \in 0 .. Len(z) : j \in 0 .. m \/ j \in m .. m + n
  BY <1>3
<1>10. g \in [0 .. Len(z) -> lo .. hi]
  <2>1. \A j \in 0 .. Len(z) : g[j] \in lo .. hi
    BY <1>6, <1>7, <1>8, <1>9
  <2> QED
    BY <2>1 DEF g
<1>11. g[0] = lo /\ g[Len(z)] = hi
  <2>1. 0 \in 0 .. m /\ Len(z) \in m .. m + n /\ Len(z) - m = n
    BY <1>3
  <2> QED
    BY <1>4, <1>5, <1>7, <1>8, <2>1
<1>12. ASSUME NEW j \in 0 .. Len(z), NEW k \in 0 .. Len(z), j <= k
       PROVE  g[j] <= g[k]
  <2>1. CASE k <= m
    <3>1. j \in 0 .. m /\ k \in 0 .. m
      BY <1>3, <1>12, <2>1
    <3> QED
      BY <1>4, <1>7, <1>12, <3>1
  <2>2. CASE j >= m
    <3>1. /\ j \in m .. m + n /\ k \in m .. m + n
          /\ j - m \in 0 .. n /\ k - m \in 0 .. n /\ j - m <= k - m
      BY <1>3, <1>12, <2>2
    <3>2. d[j - m] <= d[k - m]
      BY <1>5, <3>1
    <3> QED
      BY <1>8, <3>1, <3>2
  <2>3. CASE j < m /\ k > m
    <3>1. j \in 0 .. m /\ k \in m .. m + n
      BY <1>3, <2>3
    <3>2. g[j] \in lo .. mid /\ g[k] \in mid .. hi
      BY <1>7, <1>8, <3>1
    <3> QED
      BY <3>2
  <2> QED
    BY <1>3, <2>1, <2>2, <2>3
<1>13. ASSUME NEW j \in 1 .. Len(z)
       PROVE  Shows(t, z[j], g[j - 1], g[j])
  <2>1. CASE j \in 1 .. m
    <3>1. j \in 0 .. m /\ j - 1 \in 0 .. m /\ z[j] = x[j]
      BY <1>3, <2>1
    <3>2. Shows(t, x[j], b[j - 1], b[j])
      BY <1>1, <2>1 DEF Renders, m
    <3> QED
      BY <1>7, <3>1, <3>2
  <2>2. CASE j \in m + 1 .. m + n
    <3> DEFINE q == j - m
    <3>1. /\ q \in 1 .. n /\ z[j] = y[q] /\ (j - 1) - m = q - 1
          /\ j \in m .. m + n /\ j - 1 \in m .. m + n
      BY <1>3, <2>2
    <3>2. g[j] = d[q] /\ g[j - 1] = d[q - 1]
      BY <1>8, <3>1
    <3> HIDE DEF q
    <3>3. Shows(t, y[q], d[q - 1], d[q])
      BY <1>2, <3>1 DEF Renders, n
    <3> QED
      BY <3>1, <3>2, <3>3
  <2> QED
    BY <1>3, <2>1, <2>2
<1>14. Renders(t, lo, hi, z, g)
  BY <1>10, <1>11, <1>12, <1>13 DEF Renders
<1>15. Rendering(t, lo, hi, z)
  BY <1>3, <1>14 DEF Rendering
<1> QED
  BY <1>15 DEF z

\* A rendering cut in two is a rendering of two adjoining stretches.
LEMMA RendersCut ==
  ASSUME NEW t, NEW lo \in Nat, NEW hi \in Nat, NEW z \in Seq(Chars), NEW b,
         Renders(t, lo, hi, z, b), NEW c \in 1 .. Len(z) + 1
  PROVE  /\ b[c - 1] \in lo .. hi
         /\ Rendering(t, lo, b[c - 1], SubSeq(z, 1, c - 1))
         /\ Rendering(t, b[c - 1], hi, SubSeq(z, c, Len(z)))
<1> DEFINE m == c - 1
           n == Len(z) - m
           mid == b[m]
           x == SubSeq(z, 1, c - 1)
           y == SubSeq(z, c, Len(z))
           bx == [j \in 0 .. Len(x) |-> b[j]]
           by == [j \in 0 .. Len(y) |-> b[m + j]]
<1>0. /\ Len(z) \in Nat /\ m \in 0 .. Len(z) /\ m \in Nat /\ n \in Nat
      /\ x \in Seq(Chars) /\ Len(x) = m /\ \A j \in 1 .. m : x[j] = z[j]
      /\ y \in Seq(Chars) /\ Len(y) = n /\ \A j \in 1 .. n : y[j] = z[m + j]
  OBVIOUS
<1>1. /\ b \in [0 .. Len(z) -> lo .. hi] /\ b[0] = lo /\ b[Len(z)] = hi
      /\ \A j, k \in 0 .. Len(z) : j <= k => b[j] <= b[k]
      /\ \A j \in 1 .. Len(z) : Shows(t, z[j], b[j - 1], b[j])
  BY DEF Renders
<1> HIDE DEF x, y, m, n
<1>2. mid \in lo .. hi
  BY <1>0, <1>1
<1>3. \A j \in 0 .. m : j \in 0 .. Len(z) /\ b[j] \in lo .. mid
  <2> SUFFICES ASSUME NEW j \in 0 .. m
               PROVE  j \in 0 .. Len(z) /\ b[j] \in lo .. mid
    OBVIOUS
  <2>1. j \in 0 .. Len(z) /\ j <= m
    BY <1>0
  <2>2. b[j] <= b[m] /\ b[j] \in lo .. hi
    BY <1>0, <1>1, <2>1
  <2> QED
    BY <1>2, <2>1, <2>2
<1>4. \A j \in 0 .. n : m + j \in 0 .. Len(z) /\ b[m + j] \in mid .. hi
  <2> SUFFICES ASSUME NEW j \in 0 .. n
               PROVE  m + j \in 0 .. Len(z) /\ b[m + j] \in mid .. hi
    OBVIOUS
  <2>1. m + j \in 0 .. Len(z) /\ m <= m + j
    BY <1>0 DEF n
  <2>2. b[m] <= b[m + j] /\ b[m + j] \in lo .. hi
    BY <1>0, <1>1, <2>1
  <2> QED
    BY <1>2, <2>1, <2>2
<1> HIDE DEF mid
<1>5. Renders(t, lo, mid, x, bx)
  <2>1. bx \in [0 .. Len(x) -> lo .. mid]
    BY <1>0, <1>3
  <2>2. bx[0] = lo /\ bx[Len(x)] = mid
    BY <1>0, <1>1 DEF mid
  <2>3. \A j, k \in 0 .. Len(x) : j <= k => bx[j] <= bx[k]
    BY <1>0, <1>1, <1>3
  <2>4. ASSUME NEW j \in 1 .. Len(x)
        PROVE  Shows(t, x[j], bx[j - 1], bx[j])
    <3>1. /\ j \in 1 .. Len(z) /\ x[j] = z[j]
          /\ j \in 0 .. Len(x) /\ j - 1 \in 0 .. Len(x)
      BY <1>0
    <3>2. bx[j] = b[j] /\ bx[j - 1] = b[j - 1]
      BY <3>1
    <3> HIDE DEF bx
    <3> QED
      BY <1>1, <3>1, <3>2
  <2> HIDE DEF bx
  <2> QED
    BY <2>1, <2>2, <2>3, <2>4 DEF Renders
<1>6. Renders(t, mid, hi, y, by)
  <2>1. by \in [0 .. Len(y) -> mid .. hi]
    BY <1>0, <1>4
  <2>2. by[0] = mid /\ by[Len(y)] = hi
    <3>1. m + 0 = m /\ m + n = Len(z) /\ 0 \in 0 .. Len(y) /\ n \in 0 .. Len(y)
      BY <1>0 DEF n
    <3> QED
      BY <1>0, <1>1, <3>1 DEF mid
  <2>3. ASSUME NEW j \in 0 .. Len(y), NEW k \in 0 .. Len(y), j <= k
        PROVE  by[j] <= by[k]
    <3>1. j \in 0 .. n /\ k \in 0 .. n
      BY <1>0
    <3>2. m + j \in 0 .. Len(z) /\ m + k \in 0 .. Len(z)
      BY <1>4, <3>1
    <3>3. m + j <= m + k
      BY <1>0, <2>3, <3>1
    <3>4. by[j] = b[m + j] /\ by[k] = b[m + k]
      OBVIOUS
    <3> HIDE DEF by
    <3> QED
      BY <1>1, <3>2, <3>3, <3>4
  <2>4. ASSUME NEW j \in 1 .. Len(y)
        PROVE  Shows(t, y[j], by[j - 1], by[j])
    <3> DEFINE q == m + j
    <3>1. /\ q \in 1 .. Len(z) /\ y[j] = z[q] /\ m + (j - 1) = q - 1
          /\ j \in 0 .. Len(y) /\ j - 1 \in 0 .. Len(y)
      BY <1>0 DEF n
    <3>2. by[j] = b[q] /\ by[j - 1] = b[q - 1]
      BY <3>1
    <3> HIDE DEF by, q
    <3> QED
      BY <1>1, <3>1, <3>2
  <2> HIDE DEF by
  <2> QED
    BY <2>1, <2>2, <2>3, <2>4 DEF Renders
<1> HIDE DEF bx, by
<1>7. mid \in lo .. hi /\ Rendering(t, lo, mid, x) /\ Rendering(t, mid, hi, y)
  BY <1>0, <1>2, <1>5, <1>6 DEF Rendering, mid
<1> QED
  BY <1>7 DEF mid, x, y, m

\* Nothing renders an empty stretch, and no other.
LEMMA RendersNothing ==
  ASSUME NEW t, NEW lo \in Nat
  PROVE  /\ Rendering(t, lo, lo, <<>>)
         /\ \A hi \in Nat : Rendering(t, lo, hi, <<>>) => hi = lo
<1>1. <<>> \in Seq(Chars) /\ Len(<<>>) = 0
  OBVIOUS
<1> DEFINE b == [j \in 0 .. 0 |-> lo]
<1>2. b \in [0 .. 0 -> lo .. lo] /\ b[0] = lo
  OBVIOUS
<1>3. \A j, k \in 0 .. 0 : b[j] <= b[k]
  OBVIOUS
<1> HIDE DEF b
<1>4. Renders(t, lo, lo, <<>>, b)
  BY <1>1, <1>2, <1>3 DEF Renders
<1>5. ASSUME NEW hi \in Nat, Rendering(t, lo, hi, <<>>)
      PROVE  hi = lo
  BY <1>1, <1>5 DEF Rendering, Renders
<1> QED
  BY <1>1, <1>4, <1>5 DEF Rendering

\* A stretch of the text renders itself.
LEMMA RendersText ==
  ASSUME NEW t, TaggedText(t), NEW lo \in Nat, NEW hi \in Nat, lo <= hi, hi <= Len(t)
  PROVE  Rendering(t, lo, hi, SubSeq(t, lo + 1, hi))
<1> DEFINE z == SubSeq(t, lo + 1, hi)
           b == [j \in 0 .. Len(z) |-> lo + j]
<1>1. /\ z \in Seq(Chars) /\ Len(z) = hi - lo /\ Len(z) \in Nat
      /\ \A j \in 1 .. Len(z) : z[j] = t[lo + j]
  <2>1. t \in Seq(Chars) /\ Len(t) \in Nat
    BY DEF TaggedText
  <2>2. z \in Seq(Chars) /\ Len(z) = hi - lo /\ \A j \in 1 .. hi - lo : z[j] = t[lo + j]
    BY <2>1
  <2> QED
    BY <2>2
<1> HIDE DEF z
<1>2. \A j \in 0 .. Len(z) : b[j] = lo + j
  OBVIOUS
<1>3. b \in [0 .. Len(z) -> lo .. hi] /\ b[0] = lo /\ b[Len(z)] = hi
  BY <1>1
<1>4. \A j, k \in 0 .. Len(z) : j <= k => b[j] <= b[k]
  BY <1>1
<1>5. ASSUME NEW j \in 1 .. Len(z)
      PROVE  Shows(t, z[j], b[j - 1], b[j])
  <2>1. j \in 0 .. Len(z) /\ j - 1 \in 0 .. Len(z)
    BY <1>1
  <2>2. b[j] = lo + j /\ b[j - 1] = lo + (j - 1)
    BY <1>2, <2>1
  <2>3. z[j] = t[b[j]] /\ b[j] = b[j - 1] + 1
    BY <1>1, <2>1, <2>2
  <2> HIDE DEF b
  <2> QED
    BY <2>3 DEF Shows
<1>6. Renders(t, lo, hi, z, b)
  <2> HIDE DEF b
  <2> QED
    BY <1>3, <1>4, <1>5 DEF Renders
<1>7. Rendering(t, lo, hi, z)
  <2> HIDE DEF b
  <2> QED
    BY <1>1, <1>6 DEF Rendering
<1> QED
  BY <1>7 DEF z

\* A placeholder renders what may be lost.
LEMMA RendersLost ==
  ASSUME NEW t, NEW lo \in Nat, NEW hi \in Nat, lo <= hi,
         \A x \in lo + 1 .. hi : Lost(t, x)
  PROVE  Rendering(t, lo, hi, <<Placeholder>>)
<1> DEFINE z == <<Placeholder>>
           b == [j \in 0 .. 1 |-> IF j = 0 THEN lo ELSE hi]
<1>1. z \in Seq(Chars) /\ Len(z) = 1 /\ z[1] = Placeholder
  BY PlaceholderIsChar
<1> HIDE DEF z
<1>2. b \in [0 .. 1 -> lo .. hi] /\ b[0] = lo /\ b[1] = hi
  OBVIOUS
<1> HIDE DEF b
<1>3. \A j, k \in 0 .. 1 : j <= k => b[j] <= b[k]
  <2>1. \A j \in 0 .. 1 : j = 0 \/ j = 1
    OBVIOUS
  <2> QED
    BY <1>2, <2>1
<1>4. Shows(t, z[1], b[1 - 1], b[1])
  BY <1>1, <1>2 DEF Shows
<1>5. \A j \in 1 .. 1 : j = 1
  OBVIOUS
<1>6. Renders(t, lo, hi, z, b)
  BY <1>1, <1>2, <1>3, <1>4, <1>5 DEF Renders
<1> QED
  BY <1>1, <1>6 DEF Rendering, z

\* And so does one that already stands at the end.
LEMMA RendersMore ==
  ASSUME NEW t, NEW lo \in Nat, NEW mid \in Nat, NEW hi \in Nat, mid <= hi,
         TaggedText(t), hi <= Len(t),
         NEW z, Rendering(t, lo, mid, z), z # <<>>, z[Len(z)] = Placeholder,
         \A x \in mid + 1 .. hi : Lost(t, x)
  PROVE  Rendering(t, lo, hi, z)
<1>1. PICK b : Renders(t, lo, mid, z, b)
  BY DEF Rendering
<1> DEFINE n == Len(z)
           d == [j \in 0 .. n |-> IF j = n THEN hi ELSE b[j]]
<1>2. z \in Seq(Chars) /\ n \in Nat /\ n >= 1
  BY DEF Rendering
<1>3. /\ b \in [0 .. n -> lo .. mid] /\ b[0] = lo /\ b[n] = mid
      /\ \A j, k \in 0 .. n : j <= k => b[j] <= b[k]
      /\ \A j \in 1 .. n : Shows(t, z[j], b[j - 1], b[j])
  BY <1>1 DEF Renders
<1> HIDE DEF n
<1>4. d[n] = hi /\ \A j \in 0 .. n - 1 : d[j] = b[j]
  BY <1>2
<1>5. d \in [0 .. n -> lo .. hi] /\ d[0] = lo
  <2>1. \A j \in 0 .. n : d[j] \in lo .. hi
    <3> SUFFICES ASSUME NEW j \in 0 .. n PROVE d[j] \in lo .. hi
      OBVIOUS
    <3>1. b[j] \in lo .. mid
      BY <1>3
    <3> QED
      BY <3>1
  <2> QED
    BY <1>2, <1>3, <2>1
<1> HIDE DEF d
<1>6. ASSUME NEW j \in 0 .. n, NEW k \in 0 .. n, j <= k
      PROVE  d[j] <= d[k]
  <2>1. CASE k = n
    BY <1>4, <1>5, <2>1
  <2>2. CASE k < n
    <3>1. j \in 0 .. n - 1 /\ k \in 0 .. n - 1
      BY <1>2, <1>6, <2>2
    <3> QED
      BY <1>3, <1>4, <1>6, <3>1
  <2> QED
    BY <1>2, <2>1, <2>2
<1>7. ASSUME NEW j \in 1 .. n
      PROVE  Shows(t, z[j], d[j - 1], d[j])
  <2>1. j - 1 \in 0 .. n - 1 /\ d[j - 1] = b[j - 1]
    BY <1>2, <1>4
  <2>2. CASE j < n
    <3>1. d[j] = b[j]
      BY <1>2, <1>4, <2>2
    <3> QED
      BY <1>3, <2>1, <3>1
  <2>3. CASE j = n
    <3>1. Shows(t, Placeholder, b[j - 1], mid) /\ b[j - 1] \in lo .. mid
      <4>1. j \in 1 .. n /\ j - 1 \in 0 .. n
        BY <1>2
      <4> QED
        BY <1>3, <2>3, <4>1 DEF n
    <3>2. CASE \A x \in b[j - 1] + 1 .. mid : Lost(t, x)
      <4>1. \A x \in b[j - 1] + 1 .. hi : x \in b[j - 1] + 1 .. mid \/ x \in mid + 1 .. hi
        BY <3>1
      <4>2. \A x \in b[j - 1] + 1 .. hi : Lost(t, x)
        BY <3>2, <4>1
      <4> QED
        BY <1>4, <2>1, <2>3, <4>2 DEF Shows, n
    <3>3. CASE Placeholder = t[mid] /\ mid = b[j - 1] + 1
      <4>1. mid \in 1 .. Len(t)
        BY <3>1, <3>3 DEF TaggedText
      <4> QED
        BY <3>3, <4>1, TextIsNoPlaceholder
    <3> QED
      BY <3>1, <3>2, <3>3 DEF Shows
  <2> QED
    BY <1>2, <2>2, <2>3
<1>8. Renders(t, lo, hi, z, d)
  BY <1>4, <1>5, <1>6, <1>7 DEF Renders, n
<1> QED
  BY <1>2, <1>8 DEF Rendering

-----------------------------------------------------------------------------
(***************************************************************************)
(* What is held back                                                       *)
(***************************************************************************)
\* Input to come could change the match at u: it reaches the end of the text, or
\* the text ran out in it.
Open(p, s, u) ==
  \/ Ends(p, s, u) # {} /\ Greedy(p, s, u) = Len(s)
  \/ IsPartial(p, s, u)

\* The scan for the first open match.
LEMMA UnsafeFromIs ==
  ASSUME NEW p, Detector(p), NEW s \in Seq(Chars), NEW i \in 1 .. Len(s) + 1
  PROVE  UnsafeFrom(p, s, i) =
            IF i > Len(s) THEN i
            ELSE IF Ends(p, s, i) # {}
              THEN IF Greedy(p, s, i) = Len(s) THEN i ELSE UnsafeFrom(p, s, Greedy(p, s, i) + 1)
            ELSE IF IsPartial(p, s, i) THEN i ELSE UnsafeFrom(p, s, i + 1)
<1> DEFINE N == Len(s)
           Body(f, j) == IF j > Len(s) THEN j
                         ELSE IF Ends(p, s, j) # {}
                           THEN IF Greedy(p, s, j) = Len(s) THEN j
                                ELSE f[Greedy(p, s, j) + 1]
                         ELSE IF IsPartial(p, s, j) THEN j ELSE f[j + 1]
           Solves(f, m) == f = [j \in m .. N + 1 |-> Body(f, j)]
           S == {n \in 0 .. N : \E f : Solves(f, N + 1 - n)}
<1>0. N \in Nat
  OBVIOUS
<1>1. \A j \in 1 .. N : Ends(p, s, j) # {} => Greedy(p, s, j) \in j .. N
  BY GreedyIs
<1>2. 0 \in S
  <2> DEFINE f == [j \in N + 1 .. N + 1 |-> j]
  <2>1. \A j \in N + 1 .. N + 1 : j > Len(s)
    BY <1>0
  <2>2. Solves(f, N + 1)
    BY <2>1
  <2>3. N + 1 - 0 = N + 1 /\ 0 \in 0 .. N
    BY <1>0
  <2> HIDE DEF Solves, f
  <2> QED
    BY <2>2, <2>3
<1>3. ASSUME NEW n \in 0 .. N - 1, n \in S
      PROVE  n + 1 \in S
  <2> DEFINE m == N + 1 - n
  <2>0. m \in 2 .. N + 1 /\ m - 1 \in 1 .. N /\ N + 1 - (n + 1) = m - 1 /\ n + 1 \in 0 .. N
    BY <1>0
  <2>1. PICK f : Solves(f, m)
    BY <1>3
  <2> HIDE DEF m
  <2> DEFINE g == [j \in m - 1 .. N + 1 |-> IF j = m - 1 THEN Body(f, j) ELSE f[j]]
  <2>2. \A j \in m .. N + 1 : g[j] = f[j]
    BY <1>0, <2>0
  <2>3. \A j \in m .. N + 1 : f[j] = Body(f, j)
    <3> HIDE DEF Body
    <3> QED
      BY <2>1
  <2>4. ASSUME NEW j \in m - 1 .. N + 1
        PROVE  Body(g, j) = Body(f, j)
    <3>1. CASE j > Len(s)
      BY <3>1
    <3>2. CASE j \in 1 .. N
      <4>1. j + 1 \in m .. N + 1
        BY <1>0, <2>0, <3>2
      <4>2. Ends(p, s, j) # {} => Greedy(p, s, j) + 1 \in m .. N + 1
        BY <1>0, <1>1, <2>0, <3>2
      <4>3. g[j + 1] = f[j + 1]
        BY <2>2, <4>1
      <4>4. Ends(p, s, j) # {} => g[Greedy(p, s, j) + 1] = f[Greedy(p, s, j) + 1]
        BY <2>2, <4>2
      <4> HIDE DEF g
      <4> QED
        BY <4>3, <4>4
    <3> QED
      BY <1>0, <2>0, <3>1, <3>2
  <2>5. \A j \in m - 1 .. N + 1 : g[j] = Body(g, j)
    <3> SUFFICES ASSUME NEW j \in m - 1 .. N + 1 PROVE g[j] = Body(g, j)
      OBVIOUS
    <3>1. g[j] = Body(f, j)
      <4> HIDE DEF Body
      <4>1. CASE j = m - 1
        BY <4>1
      <4>2. CASE j \in m .. N + 1
        BY <2>0, <2>2, <2>3, <4>2
      <4> QED
        BY <1>0, <2>0, <4>1, <4>2
    <3> HIDE DEF Body, g
    <3> QED
      BY <2>4, <3>1
  <2>6. Solves(g, m - 1)
    <3>1. g = [j \in m - 1 .. N + 1 |-> g[j]]
      OBVIOUS
    <3> HIDE DEF Body, g
    <3> QED
      BY <2>5, <3>1
  <2> HIDE DEF Solves, g
  <2> QED
    BY <2>0, <2>6
<1>4. \E f : Solves(f, 1)
  <2>1. \A n \in 0 .. N : n \in S
    <3> HIDE DEF S, N
    <3> QED
      BY <1>0, <1>2, <1>3, Upward
  <2>2. N \in 0 .. N /\ N + 1 - N = 1
    BY <1>0
  <2> HIDE DEF Solves
  <2> QED
    BY <2>1, <2>2
<1> DEFINE h == CHOOSE f : Solves(f, 1)
<1>5. Solves(h, 1)
  <2> HIDE DEF Solves
  <2> QED
    BY <1>4
<1>6. \A j : UnsafeFrom(p, s, j) = h[j]
  BY DEF UnsafeFrom
<1> HIDE DEF h
<1>7. \A j \in 1 .. N + 1 : h[j] = Body(h, j)
  <2> HIDE DEF Body
  <2> QED
    BY <1>5
<1> QED
  BY <1>6, <1>7

\* It finds an open match, or none.
LEMMA UnsafeIsOpen ==
  ASSUME NEW p, Detector(p), NEW s \in Seq(Chars)
  PROVE  \A i \in 1 .. Len(s) + 1 :
            \/ UnsafeFrom(p, s, i) = Len(s) + 1
            \/ UnsafeFrom(p, s, i) \in 1 .. Len(s) /\ Open(p, s, UnsafeFrom(p, s, i))
<1> DEFINE U(i) == UnsafeFrom(p, s, i)
           N == Len(s) + 1
           Good(u) == u = Len(s) + 1 \/ (u \in 1 .. Len(s) /\ Open(p, s, u))
           S == {i \in 1 .. N : Good(U(i))}
<1>0. Len(s) \in Nat /\ N \in Nat
  OBVIOUS
<1>1. ASSUME NEW i \in 1 .. N, \A m \in i + 1 .. N : m \in S
      PROVE  i \in S
  <2>0. i \in 1 .. Len(s) + 1
    OBVIOUS
  <2>1. U(i) = IF i > Len(s) THEN i
               ELSE IF Ends(p, s, i) # {}
                 THEN IF Greedy(p, s, i) = Len(s) THEN i ELSE U(Greedy(p, s, i) + 1)
               ELSE IF IsPartial(p, s, i) THEN i ELSE U(i + 1)
    BY <2>0, UnsafeFromIs
  <2> HIDE DEF U
  <2>2. \A m \in i + 1 .. N : Good(U(m))
    BY <1>1
  <2>3. CASE i > Len(s)
    BY <1>0, <2>1, <2>3
  <2>4. CASE i <= Len(s) /\ Ends(p, s, i) # {}
    <3>1. Greedy(p, s, i) \in i .. Len(s)
      BY <2>0, <2>4, GreedyIs
    <3>2. CASE Greedy(p, s, i) = Len(s)
      BY <1>0, <2>1, <2>4, <3>2 DEF Open
    <3>3. CASE Greedy(p, s, i) # Len(s)
      <4>1. Greedy(p, s, i) + 1 \in i + 1 .. N
        BY <1>0, <3>1
      <4>2. U(i) = U(Greedy(p, s, i) + 1)
        BY <1>0, <2>1, <2>4, <3>3
      <4> HIDE DEF Good
      <4> QED
        BY <2>2, <4>1, <4>2
    <3> QED
      BY <3>2, <3>3
  <2>5. CASE i <= Len(s) /\ Ends(p, s, i) = {}
    <3>1. CASE IsPartial(p, s, i)
      BY <1>0, <2>1, <2>5, <3>1 DEF Open
    <3>2. CASE ~IsPartial(p, s, i)
      <4>1. i + 1 \in i + 1 .. N
        BY <1>0, <2>5
      <4>2. U(i) = U(i + 1)
        BY <1>0, <2>1, <2>5, <3>2
      <4> HIDE DEF Good
      <4> QED
        BY <2>2, <4>1, <4>2
    <3> QED
      BY <3>1, <3>2
  <2> QED
    BY <1>0, <2>3, <2>4, <2>5
<1>2. \A i \in 1 .. N : i \in S
  <2> HIDE DEF S, N
  <2> QED
    BY <1>0, <1>1, Downward
<1> QED
  BY <1>2

\* An open match is of the classes of its detector to the end of the text.
LEMMA OpenWithin ==
  ASSUME NEW p, Detector(p), NEW s \in Seq(Chars), NEW u \in 1 .. Len(s), Open(p, s, u),
         NEW W, \A m \in 1 .. Len(p.items) : p.items[m].of \subseteq W
  PROVE  \A j \in u .. Len(s) : Class(s[j]) \in W
<1>0. u \in 1 .. Len(s) + 1 /\ Len(s) \in Nat /\ Len(p.items) \in Nat
  BY DEF Detector
<1>1. ASSUME NEW k \in 0 .. Len(p.items), NEW e \in Reach(p, k, s, u)
      PROVE  e \in u - 1 .. Len(s) /\ \A j \in u .. e : Class(s[j]) \in W
  BY <1>0, ReachWithin
<1>2. CASE Ends(p, s, u) # {} /\ Greedy(p, s, u) = Len(s)
  <2>1. Len(s) \in Reach(p, Len(p.items), s, u)
    BY <1>0, <1>2, GreedyIs
  <2>2. Len(p.items) \in 0 .. Len(p.items)
    BY <1>0
  <2> QED
    BY <1>1, <2>1, <2>2
<1>3. CASE IsPartial(p, s, u)
  <2>0. DOMAIN p.items = 1 .. Len(p.items)
    BY DEF Detector
  <2>1. PICK k \in 1 .. Len(p.items) : \E e \in Reach(p, k - 1, s, u) :
           /\ Len(s) - e <= p.items[k].most
           /\ \A j \in e + 1 .. Len(s) : Class(s[j]) \in p.items[k].of
    BY <1>3, <2>0 DEF IsPartial
  <2>2. PICK e \in Reach(p, k - 1, s, u) :
           \A j \in e + 1 .. Len(s) : Class(s[j]) \in p.items[k].of
    BY <2>1
  <2>3. k - 1 \in 0 .. Len(p.items)
    BY <1>0
  <2>4. e \in u - 1 .. Len(s) /\ \A j \in u .. e : Class(s[j]) \in W
    BY <1>1, <2>3
  <2>5. \A j \in e + 1 .. Len(s) : Class(s[j]) \in W
    BY <2>2
  <2> QED
    BY <1>0, <2>4, <2>5
<1> QED
  BY <1>2, <1>3 DEF Open

\* And no longer than its items may be together.
LEMMA OpenSpan ==
  ASSUME NEW p, Detector(p), NEW s \in Seq(Chars), NEW u \in 1 .. Len(s), Open(p, s, u),
         NEW w \in [0 .. Len(p.items) -> Nat], w[0] = 0,
         \A m \in 1 .. Len(p.items) : w[m] = w[m - 1] + p.items[m].most,
         NEW most \in Nat, \A m \in 0 .. Len(p.items) : w[m] <= most
  PROVE  Len(s) <= u - 1 + most
<1>0. /\ u \in 1 .. Len(s) + 1 /\ Len(s) \in Nat /\ Len(p.items) \in Nat
      /\ DOMAIN p.items = 1 .. Len(p.items)
  BY DEF Detector
<1>1. ASSUME NEW k \in 0 .. Len(p.items), NEW e \in Reach(p, k, s, u)
      PROVE  e <= u - 1 + w[k]
  BY <1>0, ReachSpan
<1>2. CASE Ends(p, s, u) # {} /\ Greedy(p, s, u) = Len(s)
  <2>1. Len(s) \in Reach(p, Len(p.items), s, u)
    BY <1>0, <1>2, GreedyIs
  <2>2. Len(p.items) \in 0 .. Len(p.items)
    BY <1>0
  <2>3. w[Len(p.items)] \in Nat /\ w[Len(p.items)] <= most
    BY <2>2
  <2>4. Len(s) <= u - 1 + w[Len(p.items)]
    BY <1>1, <2>1, <2>2
  <2> QED
    BY <1>0, <2>3, <2>4
<1>3. CASE IsPartial(p, s, u)
  <2>1. PICK k \in 1 .. Len(p.items) : \E e \in Reach(p, k - 1, s, u) :
           Len(s) - e <= p.items[k].most
    BY <1>0, <1>3 DEF IsPartial
  <2>2. PICK e \in Reach(p, k - 1, s, u) : Len(s) - e <= p.items[k].most
    BY <2>1
  <2>3. k - 1 \in 0 .. Len(p.items) /\ k \in 0 .. Len(p.items)
    BY <1>0
  <2>4. e <= u - 1 + w[k - 1]
    BY <1>1, <2>3
  <2>5. e \in u - 1 .. Len(s)
    <3> DEFINE W == UNION {p.items[q].of : q \in 1 .. Len(p.items)}
    <3>1. \A q \in 1 .. Len(p.items) : p.items[q].of \subseteq W
      OBVIOUS
    <3> HIDE DEF W
    <3> QED
      BY <1>0, <2>3, <3>1, ReachWithin
  <2> DEFINE a == w[k - 1]
             b == w[k]
             c == p.items[k].most
  <2>6. /\ a \in Nat /\ b \in Nat /\ c \in Nat /\ b = a + c /\ b <= most
        /\ e <= u - 1 + a /\ Len(s) - e <= c
    <3>1. c \in Nat
      BY DEF Detector
    <3> QED
      BY <2>2, <2>3, <2>4, <3>1
  <2> HIDE DEF a, b, c
  <2> QED
    BY <1>0, <2>5, <2>6
<1> QED
  BY <1>2, <1>3 DEF Open

\* The bounded detectors: a number and a card hold back no more than the least ceiling.
LEMMA BoundedHold ==
  ASSUME NEW p \in {SSN, CREDIT_CARD}, NEW s \in Seq(Chars), NEW u \in 1 .. Len(s),
         Open(p, s, u)
  PROVE  Len(s) <= u - 1 + 6
<1>0. Detector(SSN) /\ Detector(CREDIT_CARD)
  <2>1. DEFAULT_PATTERNS[2] = SSN /\ DEFAULT_PATTERNS[3] = CREDIT_CARD
    BY DEF DEFAULT_PATTERNS
  <2> QED
    BY <2>1, DefaultDetectors
<1>1. \A of, least, most : Item(of, least, most).most = most
  BY DEF Item
<1>2. \A of : One(of).most = 1
  BY DEF Item, One
<1>3. CASE p = SSN
  <2>1. /\ Len(SSN.items) = 3
        /\ SSN.items[1].most = 1 /\ SSN.items[2].most = 1 /\ SSN.items[3].most = 1
    BY <1>2 DEF SSN
  <2> DEFINE w == [m \in 0 .. 3 |-> m]
  <2>2. w \in [0 .. Len(p.items) -> Nat] /\ w[0] = 0
    BY <1>3, <2>1
  <2>3. w[1] = w[0] + 1 /\ w[2] = w[1] + 1 /\ w[3] = w[2] + 1
    OBVIOUS
  <2>4. \A m \in 0 .. Len(p.items) : w[m] <= 6
    BY <1>3, <2>1
  <2> HIDE DEF w
  <2>5. \A m \in 1 .. Len(p.items) : w[m] = w[m - 1] + p.items[m].most
    <3>1. \A m \in 1 .. 3 : m = 1 \/ m = 2 \/ m = 3
      OBVIOUS
    <3> QED
      BY <1>3, <2>1, <2>3, <3>1
  <2>6. Detector(p) /\ 6 \in Nat
    BY <1>0, <1>3
  <2> QED
    BY <2>2, <2>4, <2>5, <2>6, OpenSpan
<1>4. CASE p = CREDIT_CARD
  <2>1. /\ Len(CREDIT_CARD.items) = 5
        /\ CREDIT_CARD.items[1].most = 1 /\ CREDIT_CARD.items[2].most = 1
        /\ CREDIT_CARD.items[3].most = 1 /\ CREDIT_CARD.items[4].most = 1
        /\ CREDIT_CARD.items[5].most = 2
    BY <1>1, <1>2 DEF CREDIT_CARD
  <2> DEFINE w == [m \in 0 .. 5 |-> IF m = 5 THEN 6 ELSE m]
  <2>2. w \in [0 .. Len(p.items) -> Nat] /\ w[0] = 0
    BY <1>4, <2>1
  <2>3. /\ w[1] = w[0] + 1 /\ w[2] = w[1] + 1 /\ w[3] = w[2] + 1 /\ w[4] = w[3] + 1
        /\ w[5] = w[4] + 2
    OBVIOUS
  <2>4. \A m \in 0 .. Len(p.items) : w[m] <= 6
    BY <1>4, <2>1
  <2> HIDE DEF w
  <2>5. \A m \in 1 .. Len(p.items) : w[m] = w[m - 1] + p.items[m].most
    <3>1. \A m \in 1 .. 5 : m = 1 \/ m = 2 \/ m = 3 \/ m = 4 \/ m = 5
      OBVIOUS
    <3> QED
      BY <1>4, <2>1, <2>3, <3>1
  <2>6. Detector(p) /\ 6 \in Nat
    BY <1>0, <1>4
  <2> QED
    BY <2>2, <2>4, <2>5, <2>6, OpenSpan
<1> QED
  BY <1>3, <1>4

\* The others are made of the characters of an over-long run.
LEMMA UnboundedHold ==
  ASSUME NEW p \in {EMAIL, API_KEY}, NEW s \in Seq(Chars), NEW u \in 1 .. Len(s),
         Open(p, s, u)
  PROVE  \A j \in u .. Len(s) : Class(s[j]) \in OVERLONG_RUN
<1>0. Detector(EMAIL) /\ Detector(API_KEY)
  <2>1. DEFAULT_PATTERNS[1] = EMAIL /\ DEFAULT_PATTERNS[4] = API_KEY
    BY DEF DEFAULT_PATTERNS
  <2> QED
    BY <2>1, DefaultDetectors
<1>1. \A of, least, most : Item(of, least, most).of = of
  BY DEF Item
<1>2. \A of : One(of).of = of /\ Many(of).of = of
  BY DEF Item, One, Many
<1>3. /\ Local \subseteq OVERLONG_RUN /\ Letter \subseteq OVERLONG_RUN
      /\ Alnum \subseteq OVERLONG_RUN /\ {"@"} \subseteq OVERLONG_RUN
      /\ {"."} \subseteq OVERLONG_RUN /\ {"-"} \subseteq OVERLONG_RUN
      /\ {"k"} \subseteq OVERLONG_RUN
  BY DEF OVERLONG_RUN, Local, Alnum, Letter, Digit
<1>4. CASE p = EMAIL
  <2>1. /\ Len(EMAIL.items) = 5
        /\ EMAIL.items[1].of = Local /\ EMAIL.items[2].of = {"@"}
        /\ EMAIL.items[3].of = Local /\ EMAIL.items[4].of = {"."}
        /\ EMAIL.items[5].of = Letter
    BY <1>2 DEF EMAIL
  <2>2. \A m \in 1 .. Len(p.items) : p.items[m].of \subseteq OVERLONG_RUN
    <3>1. \A m \in 1 .. 5 : m = 1 \/ m = 2 \/ m = 3 \/ m = 4 \/ m = 5
      OBVIOUS
    <3> QED
      BY <1>3, <1>4, <2>1, <3>1
  <2> QED
    BY <1>0, <1>4, <2>2, OpenWithin
<1>5. CASE p = API_KEY
  <2>1. /\ Len(API_KEY.items) = 3
        /\ API_KEY.items[1].of = {"k"} /\ API_KEY.items[2].of = {"-"}
        /\ API_KEY.items[3].of = Alnum
    BY <1>1, <1>2 DEF API_KEY
  <2>2. \A m \in 1 .. Len(p.items) : p.items[m].of \subseteq OVERLONG_RUN
    <3>1. \A m \in 1 .. 3 : m = 1 \/ m = 2 \/ m = 3
      OBVIOUS
    <3> QED
      BY <1>3, <1>5, <2>1, <3>1
  <2> QED
    BY <1>0, <1>5, <2>2, OpenWithin
<1> QED
  BY <1>4, <1>5

\* Where the cut is made; and what is held beyond the ceiling is one run.
LEMMA HoldbackIs ==
  ASSUME NEW s \in Seq(Chars)
  PROVE  /\ HoldbackIndex(s) \in 1 .. Len(s) + 1
         /\ Len(s) - HoldbackIndex(s) + 1 > MaxHoldback =>
              \A j \in HoldbackIndex(s) .. Len(s) : Class(s[j]) \in OVERLONG_RUN
<1> DEFINE cuts == {UnsafeFrom(DEFAULT_PATTERNS[n], s, 1) : n \in 1 .. 4}
           cut  == HoldbackIndex(s)
<1>0. Len(s) \in Nat /\ 1 \in 1 .. Len(s) + 1
  OBVIOUS
<1>1. ASSUME NEW n \in 1 .. 4
      PROVE  LET u == UnsafeFrom(DEFAULT_PATTERNS[n], s, 1)
             IN  u = Len(s) + 1 \/ (u \in 1 .. Len(s) /\ Open(DEFAULT_PATTERNS[n], s, u))
  <2>1. Detector(DEFAULT_PATTERNS[n])
    BY DefaultDetectors
  <2> QED
    BY <1>0, <2>1, UnsafeIsOpen
<1>2. cut = Min(cuts)
  <2>1. DOMAIN DEFAULT_PATTERNS = 1 .. 4
    BY DEF DEFAULT_PATTERNS
  <2> QED
    BY <2>1 DEF HoldbackIndex
<1>3. cuts \subseteq 1 .. Len(s) + 1 /\ cuts # {}
  BY <1>0, <1>1
<1>4. cut \in cuts
  <2>0. 1 .. Len(s) + 1 \subseteq Nat
    BY <1>0
  <2> HIDE DEF cuts, cut
  <2>1. cuts \subseteq Nat
    BY <1>3, <2>0
  <2> QED
    BY <1>2, <1>3, <2>1, MinIs
<1>5. PICK n \in 1 .. 4 : cut = UnsafeFrom(DEFAULT_PATTERNS[n], s, 1)
  BY <1>4
<1>6. cut = Len(s) + 1 \/ (cut \in 1 .. Len(s) /\ Open(DEFAULT_PATTERNS[n], s, cut))
  BY <1>1, <1>5
<1> HIDE DEF cut
<1>7. ASSUME Len(s) - cut + 1 > MaxHoldback
      PROVE  \A j \in cut .. Len(s) : Class(s[j]) \in OVERLONG_RUN
  <2>1. cut \in 1 .. Len(s) /\ Open(DEFAULT_PATTERNS[n], s, cut)
    BY <1>0, <1>6, <1>7, CeilingAboveBounded
  <2>2. ~(Len(s) <= cut - 1 + 6)
    BY <1>0, <1>7, <2>1, CeilingAboveBounded
  <2>3. n = 1 \/ n = 2 \/ n = 3 \/ n = 4
    OBVIOUS
  <2>4. /\ DEFAULT_PATTERNS[1] = EMAIL /\ DEFAULT_PATTERNS[2] = SSN
        /\ DEFAULT_PATTERNS[3] = CREDIT_CARD /\ DEFAULT_PATTERNS[4] = API_KEY
    BY DEF DEFAULT_PATTERNS
  <2>5. CASE n = 1 \/ n = 4
    BY <2>1, <2>4, <2>5, UnboundedHold
  <2>6. CASE n = 2 \/ n = 3
    BY <2>1, <2>2, <2>4, <2>6, BoundedHold
  <2> QED
    BY <2>3, <2>5, <2>6
<1>8. cut \in 1 .. Len(s) + 1
  BY <1>0, <1>6
<1> QED
  BY <1>7, <1>8 DEF cut

-----------------------------------------------------------------------------
(***************************************************************************)
(* What a call to the redactor keeps                                       *)
(***************************************************************************)
\* A run longer than the ceiling goes on up to hi.
LongRunTo(t, hi) == \E from \in 1 .. hi : from + MaxHoldback <= hi /\ IsRunOf(t, from, hi)

\* The state of a redactor after the text from lo + 1 to hi, with what it let out:
\* both render the text, and what is suppressed is an over-long run that a
\* placeholder stands for.
Held(t, lo, hi, o, r) ==
  /\ r \in [buffer : Seq(Chars), suppressing : BOOLEAN]
  /\ Len(r.buffer) <= IF r.suppressing THEN 0 ELSE MaxHoldback
  /\ \E mid \in lo .. hi : Rendering(t, lo, mid, o) /\ Rendering(t, mid, hi, r.buffer)
  /\ r.suppressing => o # <<>> /\ o[Len(o)] = Placeholder /\ LongRunTo(t, hi)

\* All of a run that is longer than the ceiling may be lost.
LEMMA RunIsLost ==
  ASSUME NEW t, TaggedText(t), NEW hi \in Nat, hi <= Len(t),
         NEW from \in 1 .. hi, from + MaxHoldback <= hi, IsRunOf(t, from, hi)
  PROVE  \A x \in from .. hi : Lost(t, x)
<1> SUFFICES ASSUME NEW x \in from .. hi PROVE InLongRun(t, x)
  BY DEF Lost
<1>1. from \in 1 .. x /\ from + MaxHoldback <= Len(t)
  BY CeilingAboveBounded DEF TaggedText
<1>2. IsRunOf(t, from, from + MaxHoldback) /\ IsRunOf(t, from, x)
  BY CeilingAboveBounded DEF IsRunOf
<1> QED
  BY <1>1, <1>2 DEF InLongRun

\* The cut that feed makes, and what it does beyond the ceiling.
LEMMA SplitKeeps ==
  ASSUME NEW t, TaggedText(t), NEW lo \in Nat, NEW hi \in Nat, lo <= hi, hi <= Len(t),
         NEW seen, Rendering(t, lo, hi, seen)
  PROVE  Held(t, lo, hi, SplitAndHold(seen).out, SplitAndHold(seen).next)
<1> DEFINE cut  == HoldbackIndex(seen)
           safe == SubSeq(seen, 1, cut - 1)
           held == SubSeq(seen, cut, Len(seen))
<1>0. seen \in Seq(Chars) /\ Len(seen) \in Nat
  BY DEF Rendering
<1>1. PICK b : Renders(t, lo, hi, seen, b)
  BY DEF Rendering
<1>2. cut \in 1 .. Len(seen) + 1
  BY <1>0, HoldbackIs
<1> DEFINE mid == b[cut - 1]
<1>3. /\ mid \in lo .. hi
      /\ Rendering(t, lo, mid, safe) /\ Rendering(t, mid, hi, held)
  BY <1>0, <1>1, <1>2, RendersCut
<1>4. safe \in Seq(Chars) /\ held \in Seq(Chars) /\ Len(held) = Len(seen) - cut + 1
  BY <1>0, <1>2
<1>5. CASE Len(seen) - cut + 1 > MaxHoldback
  <2>1. /\ SplitAndHold(seen).out = Append(safe, Placeholder)
        /\ SplitAndHold(seen).next = [buffer |-> <<>>, suppressing |-> TRUE]
    BY <1>5 DEF SplitAndHold, HoldFrom, FailClosed, Says
  <2>2. \A j \in cut .. Len(seen) : Class(seen[j]) \in OVERLONG_RUN
    BY <1>0, <1>5, HoldbackIs
  <2> HIDE DEF cut, safe, held
  <2> DEFINE L == Len(seen) - cut + 1
             from == mid + 1
  <2>3. Plain(seen, cut, Len(seen))
    <3>1. "redacted" \notin OVERLONG_RUN
      BY DEF OVERLONG_RUN, Local, Alnum, Letter, Digit
    <3>2. \A j \in cut .. Len(seen) : Class(seen[j]) # "redacted"
      BY <2>2, <3>1
    <3> QED
      BY <3>2, PlaceholderIsChar DEF Plain
  <2>4. GoesOn(t, seen, b, cut, Len(seen))
    <3>1. Len(seen) \in cut - 1 .. Len(seen)
      BY <1>0, <1>2
    <3> QED
      BY <1>0, <1>1, <1>2, <2>3, <3>1, NoGap
  <2>5. /\ L \in Nat /\ L > MaxHoldback /\ cut - 1 + L = Len(seen)
        /\ b[Len(seen)] = hi /\ mid \in Nat /\ mid <= hi
    BY <1>0, <1>1, <1>2, <1>3, <1>5, CeilingAboveBounded DEF Renders
  <2>6. hi = mid + L
    <3>1. \A n \in 0 .. L : b[cut - 1 + n] = mid + n
      BY <2>4 DEF GoesOn
    <3>2. L \in 0 .. L
      BY <2>5
    <3>3. b[cut - 1 + L] = mid + L
      BY <3>1, <3>2
    <3> QED
      BY <2>5, <3>3
  <2>7. IsRunOf(t, from, hi)
    <3> SUFFICES ASSUME NEW x \in from .. hi PROVE Class(t[x]) \in OVERLONG_RUN
      BY DEF IsRunOf
    <3> DEFINE n == x - mid
    <3>0. cut \in Nat /\ Len(seen) \in Nat
      BY <1>0, <1>2
    <3>1. n \in 1 .. L /\ mid + n = x /\ cut - 1 + n \in cut .. Len(seen)
      <4> HIDE DEF mid, L
      <4>1. x \in mid + 1 .. mid + L
        BY <2>5, <2>6
      <4> QED
        BY <2>5, <3>0, <4>1
    <3> HIDE DEF n
    <3>2. \A q \in 1 .. L : seen[cut - 1 + q] = t[mid + q]
      BY <2>4 DEF GoesOn
    <3>3. seen[cut - 1 + n] = t[x]
      BY <3>1, <3>2
    <3> QED
      BY <2>2, <3>1, <3>3
  <2>8. from \in 1 .. hi /\ from + MaxHoldback <= hi
    BY <2>5, <2>6, CeilingAboveBounded
  <2>9. \A x \in mid + 1 .. hi : Lost(t, x)
    <3> HIDE DEF mid
    <3> QED
      BY <2>7, <2>8, RunIsLost
  <2>10. LongRunTo(t, hi)
    <3> HIDE DEF from
    <3> QED
      BY <2>7, <2>8 DEF LongRunTo
  <2> HIDE DEF mid, L, from
  <2>11. Rendering(t, mid, hi, <<Placeholder>>)
    BY <2>5, <2>9, RendersLost
  <2>12. Rendering(t, lo, hi, safe \o <<Placeholder>>)
    BY <1>3, <2>5, <2>11, RendersJoin
  <2> DEFINE o == Append(safe, Placeholder)
  <2>13. o = safe \o <<Placeholder>> /\ o # <<>> /\ o[Len(o)] = Placeholder
    BY <1>4
  <2>14. Rendering(t, lo, hi, o)
    BY <2>12, <2>13
  <2> HIDE DEF o
  <2>15. Rendering(t, hi, hi, <<>>)
    BY RendersNothing
  <2>16. hi \in lo .. hi
    OBVIOUS
  <2> DEFINE r == [buffer |-> <<>>, suppressing |-> TRUE]
  <2>17. r \in [buffer : Seq(Chars), suppressing : BOOLEAN] /\ r.buffer = <<>> /\ r.suppressing
    <3>1. <<>> \in Seq(Chars)
      OBVIOUS
    <3> QED
      BY <3>1
  <2> HIDE DEF r
  <2>18. Held(t, lo, hi, o, r)
    BY <2>10, <2>13, <2>14, <2>15, <2>16, <2>17 DEF Held
  <2> QED
    BY <2>1, <2>18 DEF o, r
<1>6. CASE ~(Len(seen) - cut + 1 > MaxHoldback)
  <2>1. /\ SplitAndHold(seen).out = safe
        /\ SplitAndHold(seen).next = [buffer |-> held, suppressing |-> FALSE]
    BY <1>6 DEF SplitAndHold, HoldFrom, Says
  <2> HIDE DEF cut, safe, held
  <2>2. Len(held) <= MaxHoldback
    BY <1>0, <1>2, <1>4, <1>6, CeilingAboveBounded
  <2> DEFINE r == [buffer |-> held, suppressing |-> FALSE]
  <2>3. r \in [buffer : Seq(Chars), suppressing : BOOLEAN] /\ r.buffer = held /\ ~r.suppressing
    BY <1>4
  <2> HIDE DEF r, mid
  <2>4. Held(t, lo, hi, safe, r)
    BY <1>3, <2>2, <2>3 DEF Held
  <2> QED
    BY <2>1, <2>4 DEF r
<1> QED
  BY <1>5, <1>6


\* What a call lets out comes after what was let out before.
LEMMA HeldAfter ==
  ASSUME NEW t, NEW lo \in Nat, NEW mid \in Nat, NEW hi \in Nat, lo <= mid,
         NEW o, Rendering(t, lo, mid, o), NEW new, NEW r, Held(t, mid, hi, new, r)
  PROVE  Held(t, lo, hi, o \o new, r)
<1>1. PICK cut \in mid .. hi : Rendering(t, mid, cut, new) /\ Rendering(t, cut, hi, r.buffer)
  BY DEF Held
<1>2. cut \in Nat /\ cut \in lo .. hi
  OBVIOUS
<1>3. Rendering(t, lo, cut, o \o new)
  BY <1>1, <1>2, RendersJoin
<1>4. ASSUME new # <<>>, new[Len(new)] = Placeholder
      PROVE  o \o new # <<>> /\ (o \o new)[Len(o \o new)] = Placeholder
  <2>1. o \in Seq(Chars) /\ new \in Seq(Chars)
    BY <1>1 DEF Rendering
  <2>2. Len(new) \in Nat /\ Len(new) # 0 /\ Len(o) \in Nat
    BY <1>4, <2>1
  <2> DEFINE m == Len(o)
             n == Len(new)
  <2>3. /\ Len(o \o new) = m + n /\ m + n \in m + 1 .. m + n
        /\ \A j \in m + 1 .. m + n : (o \o new)[j] = new[j - m]
    BY <2>1, <2>2
  <2> DEFINE k == m + n
  <2>4. k - m = n
    BY <2>2
  <2> HIDE DEF m, n
  <2>5. (o \o new)[k] = new[k - m]
    <3> HIDE DEF k
    <3>1. k \in m + 1 .. m + n
      BY <2>3 DEF k
    <3> QED
      BY <2>3, <3>1
  <2> QED
    BY <1>4, <2>1, <2>2, <2>3, <2>4, <2>5 DEF k, n
<1> QED
  BY <1>1, <1>2, <1>3, <1>4 DEF Held

\* What is dropped from the head of a piece consists of what a run consists of.
LEMMA DropIs ==
  ASSUME NEW s \in Seq(Chars)
  PROVE  \E c \in 1 .. Len(s) + 1 :
            /\ DropSuppressedPrefix(s) = SubSeq(s, c, Len(s))
            /\ \A j \in 1 .. c - 1 : Class(s[j]) \in OVERLONG_RUN
<1> DEFINE ends == {i \in DOMAIN s : Class(s[i]) \notin OVERLONG_RUN} \cup {Len(s) + 1}
           c    == Min(ends)
<1>1. DOMAIN s = 1 .. Len(s) /\ Len(s) \in Nat
  OBVIOUS
<1>2. ends \subseteq 1 .. Len(s) + 1 /\ ends # {} /\ ends \subseteq Nat
  BY <1>1
<1>3. c \in ends /\ \A i \in ends : c <= i
  <2> HIDE DEF ends
  <2> QED
    BY <1>2, MinIs
<1>4. DropSuppressedPrefix(s) = SubSeq(s, c, Len(s))
  BY DEF DropSuppressedPrefix
<1> HIDE DEF c
<1>5. ASSUME NEW j \in 1 .. c - 1
      PROVE  Class(s[j]) \in OVERLONG_RUN
  <2>1. c \in 1 .. Len(s) + 1
    BY <1>2, <1>3
  <2>2. j \in 1 .. Len(s) /\ ~(c <= j)
    BY <1>1, <2>1
  <2>3. j \notin ends
    BY <1>3, <2>2
  <2> QED
    BY <1>1, <2>2, <2>3
<1> QED
  BY <1>2, <1>3, <1>4, <1>5


\* The end of a stretch of the text is a stretch of the text.
LEMMA RestOfStretch ==
  ASSUME NEW t \in Seq(Chars), NEW lo \in Nat, NEW hi \in Nat, lo <= hi, hi <= Len(t),
         NEW c \in 1 .. hi - lo + 1
  PROVE  LET piece == SubSeq(t, lo + 1, hi)
         IN  /\ piece \in Seq(Chars) /\ Len(piece) = hi - lo
             /\ \A j \in 1 .. hi - lo : piece[j] = t[lo + j]
             /\ SubSeq(piece, c, Len(piece)) = SubSeq(t, lo + (c - 1) + 1, hi)
<1> DEFINE piece == SubSeq(t, lo + 1, hi)
           rest  == SubSeq(piece, c, hi - lo)
           other == SubSeq(t, lo + (c - 1) + 1, hi)
           N     == hi - lo - (c - 1)
<1>1. piece \in Seq(Chars) /\ Len(piece) = hi - lo /\ \A j \in 1 .. hi - lo : piece[j] = t[lo + j]
  OBVIOUS
<1>2. N \in Nat
  OBVIOUS
<1> HIDE DEF piece
<1>3. rest \in Seq(Chars) /\ Len(rest) = N /\ \A j \in 1 .. N : rest[j] = piece[(c - 1) + j]
  BY <1>1
<1>4. other \in Seq(Chars) /\ Len(other) = N /\ \A j \in 1 .. N : other[j] = t[lo + (c - 1) + j]
  BY SMTT(20)
<1> HIDE DEF rest, other
<1>5. ASSUME NEW j \in 1 .. N
      PROVE  rest[j] = other[j]
  <2> DEFINE k == (c - 1) + j
  <2>1. k \in 1 .. hi - lo /\ lo + k = lo + (c - 1) + j
    BY <1>2
  <2> HIDE DEF k
  <2>2. piece[k] = t[lo + k]
    BY <1>1, <2>1
  <2>3. rest[j] = piece[k]
    BY <1>3 DEF k
  <2> QED
    BY <1>4, <2>1, <2>2, <2>3
<1> HIDE DEF N
<1>6. rest = other
  BY <1>2, <1>3, <1>4, <1>5
<1> QED
  BY <1>1, <1>6 DEF piece, rest, other

\* A call that keeps something of its piece.
LEMMA KeepKeeps ==
  ASSUME NEW t, TaggedText(t), NEW mid \in Nat, NEW lo \in Nat, NEW hi \in Nat,
         mid <= lo, lo <= hi, hi <= Len(t),
         NEW o, Rendering(t, 0, mid, o), NEW r, Rendering(t, mid, lo, r.buffer),
         NEW kept, kept = SubSeq(t, lo + 1, hi), kept # <<>>
  PROVE  Held(t, 0, hi, o \o Keep(r, kept).out, Keep(r, kept).next)
<1> DEFINE seen == Redact(r.buffer \o kept, TRUE)
<1>1. Rendering(t, lo, hi, kept)
  BY RendersText
<1>2. Rendering(t, mid, hi, r.buffer \o kept)
  BY <1>1, RendersJoin
<1>3. Rendering(t, mid, hi, seen)
  BY <1>2, RendersRedact
<1>4. Keep(r, kept) = SplitAndHold(seen)
  BY DEF Keep
<1> HIDE DEF seen
<1>5. mid <= hi
  OBVIOUS
<1>6. Held(t, mid, hi, SplitAndHold(seen).out, SplitAndHold(seen).next)
  BY <1>3, <1>5, SplitKeeps
<1>7. 0 \in Nat /\ 0 <= mid
  OBVIOUS
<1> QED
  BY <1>4, <1>6, <1>7, HeldAfter

\* A call that keeps nothing.
LEMMA KeepNothing ==
  ASSUME NEW o \in Seq(Chars), NEW r \in [buffer : Seq(Chars), suppressing : BOOLEAN]
  PROVE  o \o Keep(r, <<>>).out = o /\ Keep(r, <<>>).next = r
<1>1. Keep(r, <<>>).out = <<>>
  BY DEF Keep, Says
<1>2. Keep(r, <<>>).next = [buffer |-> r.buffer, suppressing |-> r.suppressing]
  BY DEF Keep, Says
<1>3. r = [buffer |-> r.buffer, suppressing |-> r.suppressing]
  OBVIOUS
<1>4. o \o <<>> = o
  OBVIOUS
<1> QED
  BY <1>1, <1>2, <1>3, <1>4


\* feed keeps what a call to the redactor keeps.
LEMMA FeedKeeps ==
  ASSUME NEW t, TaggedText(t), NEW lo \in Nat, NEW hi \in Nat, lo <= hi, hi <= Len(t),
         NEW o, NEW r, Held(t, 0, lo, o, r)
  PROVE  Held(t, 0, hi, o \o Feed(r, SubSeq(t, lo + 1, hi)).out,
              Feed(r, SubSeq(t, lo + 1, hi)).next)
<1> DEFINE piece == SubSeq(t, lo + 1, hi)
<1>1. PICK mid \in 0 .. lo : Rendering(t, 0, mid, o) /\ Rendering(t, mid, lo, r.buffer)
  BY DEF Held
<1>2. /\ mid \in Nat /\ mid <= lo /\ t \in Seq(Chars) /\ o \in Seq(Chars)
      /\ r \in [buffer : Seq(Chars), suppressing : BOOLEAN] /\ r.buffer \in Seq(Chars)
  BY <1>1 DEF Held, Rendering, TaggedText
<1>3. 1 \in 1 .. hi - lo + 1
  OBVIOUS
<1>4. piece \in Seq(Chars) /\ Len(piece) = hi - lo /\ \A j \in 1 .. hi - lo : piece[j] = t[lo + j]
  BY <1>2, <1>3, RestOfStretch
<1>5. ASSUME NEW c \in 1 .. hi - lo + 1
      PROVE  SubSeq(piece, c, Len(piece)) = SubSeq(t, lo + (c - 1) + 1, hi)
  BY <1>2, RestOfStretch
<1> HIDE DEF piece
<1>6. CASE ~r.suppressing
  <2>1. Feed(r, piece) = Keep(r, piece)
    BY <1>6 DEF Feed
  <2>2. CASE piece = <<>>
    <3>1. hi = lo
      BY <1>4, <2>2
    <3>2. o \o Keep(r, piece).out = o /\ Keep(r, piece).next = r
      BY <1>2, <2>2, KeepNothing
    <3> QED
      BY <2>1, <3>1, <3>2 DEF piece
  <2>3. CASE piece # <<>>
    <3>1. Held(t, 0, hi, o \o Keep(r, piece).out, Keep(r, piece).next)
      BY <1>1, <1>2, <2>3, KeepKeeps DEF piece
    <3> QED
      BY <2>1, <3>1 DEF piece
  <2> QED
    BY <2>2, <2>3
<1>7. CASE r.suppressing
  <2>1. r.buffer = <<>>
    <3>1. Len(r.buffer) <= 0 /\ Len(r.buffer) \in Nat
      BY <1>2, <1>7 DEF Held
    <3> QED
      BY <1>2, <3>1
  <2>2. mid = lo
    <3>1. Rendering(t, mid, lo, <<>>)
      BY <1>1, <2>1
    <3> QED
      BY <1>2, <3>1, RendersNothing
  <2>3. PICK c \in 1 .. hi - lo + 1 :
           /\ DropSuppressedPrefix(piece) = SubSeq(piece, c, Len(piece))
           /\ \A j \in 1 .. c - 1 : Class(piece[j]) \in OVERLONG_RUN
    BY <1>4, DropIs
  <2> DEFINE start == lo + (c - 1)
             kept  == DropSuppressedPrefix(piece)
  <2>4. start \in Nat /\ lo <= start /\ start <= hi
    OBVIOUS
  <2>5. kept = SubSeq(t, start + 1, hi) /\ Feed(r, piece) = Keep(r, kept)
    BY <1>5, <1>7, <2>3 DEF Feed
  <2>6. /\ o # <<>> /\ o[Len(o)] = Placeholder
        /\ \E from \in 1 .. lo : from + MaxHoldback <= lo /\ IsRunOf(t, from, lo)
    BY <1>7 DEF Held, LongRunTo
  <2>7. PICK from \in 1 .. lo : from + MaxHoldback <= lo /\ IsRunOf(t, from, lo)
    BY <2>6
  <2>8. IsRunOf(t, from, start)
    <3> SUFFICES ASSUME NEW x \in from .. start PROVE Class(t[x]) \in OVERLONG_RUN
      BY DEF IsRunOf
    <3>1. CASE x <= lo
      <4>1. x \in from .. lo
        BY <3>1
      <4> QED
        BY <2>7, <4>1 DEF IsRunOf
    <3>2. CASE x > lo
      <4> DEFINE j == x - lo
      <4>1. j \in 1 .. c - 1 /\ j \in 1 .. hi - lo /\ lo + j = x
        BY <3>2
      <4> HIDE DEF j
      <4>2. piece[j] = t[x]
        BY <1>4, <4>1
      <4> QED
        BY <2>3, <4>1, <4>2
    <3> QED
      BY <3>1, <3>2
  <2> HIDE DEF start, kept
  <2>9. from \in 1 .. start /\ from + MaxHoldback <= start /\ start <= Len(t)
    BY <2>4, <2>7, CeilingAboveBounded DEF TaggedText
  <2>10. \A x \in from .. start : Lost(t, x)
    BY <2>4, <2>8, <2>9, RunIsLost
  <2>11. \A x \in lo + 1 .. start : Lost(t, x)
    BY <2>10
  <2>12. Rendering(t, 0, start, o)
    BY <1>1, <2>2, <2>4, <2>6, <2>9, <2>11, RendersMore
  <2>13. Rendering(t, start, start, r.buffer)
    BY <2>1, <2>4, RendersNothing
  <2>14. LongRunTo(t, start)
    BY <2>8, <2>9 DEF LongRunTo
  <2>15. CASE kept = <<>>
    <3>1. hi = start
      <4>1. Len(SubSeq(t, start + 1, hi)) = hi - start
        BY <1>2, <2>4
      <4> QED
        BY <2>4, <2>5, <2>15, <4>1
    <3>2. o \o Keep(r, kept).out = o /\ Keep(r, kept).next = r
      BY <1>2, <2>15, KeepNothing
    <3>3. start \in 0 .. hi
      BY <2>4
    <3>4. Held(t, 0, hi, o, r)
      BY <2>6, <2>12, <2>13, <2>14, <3>1, <3>3 DEF Held
    <3> QED
      BY <2>5, <3>2, <3>4 DEF piece
  <2>16. CASE kept # <<>>
    <3>1. Held(t, 0, hi, o \o Keep(r, kept).out, Keep(r, kept).next)
      <4>1. start <= start
        BY <2>4
      <4>2. kept = SubSeq(t, start + 1, hi)
        BY <2>5
      <4> QED
        BY <2>4, <2>12, <2>13, <2>16, <4>1, <4>2, KeepKeeps
    <3> QED
      BY <2>5, <3>1 DEF piece
  <2> QED
    BY <2>15, <2>16
<1> QED
  BY <1>2, <1>6, <1>7

\* And so does flush, which leaves nothing held.
LEMMA FlushKeeps ==
  ASSUME NEW t, TaggedText(t), NEW hi \in Nat, hi <= Len(t),
         NEW o, NEW r, Held(t, 0, hi, o, r)
  PROVE  Held(t, 0, hi, o \o Flush(r).out, Flush(r).next) /\ Flush(r).next = Fresh
<1>1. PICK mid \in 0 .. hi : Rendering(t, 0, mid, o) /\ Rendering(t, mid, hi, r.buffer)
  BY DEF Held
<1> DEFINE rest == Redact(r.buffer, FALSE)
<1>2. Flush(r).out = rest /\ Flush(r).next = [buffer |-> <<>>, suppressing |-> FALSE]
  BY DEF Flush, Says
<1>3. mid \in Nat /\ 0 \in Nat /\ hi \in 0 .. hi
  OBVIOUS
<1>4. Rendering(t, mid, hi, rest)
  BY <1>1, <1>3, RendersRedact
<1> HIDE DEF rest
<1>5. Rendering(t, 0, hi, o \o rest)
  BY <1>1, <1>3, <1>4, RendersJoin
<1>6. Rendering(t, hi, hi, <<>>)
  BY RendersNothing
<1> DEFINE q == [buffer |-> <<>>, suppressing |-> FALSE]
<1>7. /\ q \in [buffer : Seq(Chars), suppressing : BOOLEAN] /\ q.buffer = <<>> /\ ~q.suppressing
      /\ Len(q.buffer) = 0
  <2>1. <<>> \in Seq(Chars) /\ Len(<<>>) = 0
    OBVIOUS
  <2> QED
    BY <2>1
<1>8. Fresh = q
  BY DEF Fresh
<1> HIDE DEF q
<1>9. Held(t, 0, hi, o \o rest, q)
  BY <1>3, <1>5, <1>6, <1>7, CeilingAboveBounded DEF Held
<1> QED
  BY <1>2, <1>8, <1>9 DEF q


-----------------------------------------------------------------------------
(***************************************************************************)
(* What an account says of the characters that came out                    *)
(***************************************************************************)
\* A character of the text stands for itself: it comes next.
LEMMA TextStands ==
  ASSUME NEW t, TaggedText(t), NEW hi \in Nat, hi <= Len(t),
         NEW z \in Seq(Chars), NEW b, Renders(t, 0, hi, z, b),
         NEW i \in 1 .. Len(z), IsText(z[i])
  PROVE  /\ b[i] \in 1 .. hi /\ b[i - 1] \in 0 .. hi
         /\ b[i] = b[i - 1] + 1
         /\ z[i] = t[b[i]] /\ z[i][2] = b[i]
<1>1. i \in 0 .. Len(z) /\ i - 1 \in 0 .. Len(z)
  OBVIOUS
<1>2. b[i] \in 0 .. hi /\ b[i - 1] \in 0 .. hi /\ Shows(t, z[i], b[i - 1], b[i])
  BY <1>1 DEF Renders
<1>3. z[i] = t[b[i]] /\ b[i] = b[i - 1] + 1
  BY <1>2 DEF Shows, IsText
<1>4. b[i] \in 1 .. Len(t)
  BY <1>2, <1>3 DEF TaggedText
<1> QED
  BY <1>2, <1>3, <1>4 DEF TaggedText

\* Every character of the text has one that stands for it.
LEMMA SomeStandsFor ==
  ASSUME NEW t, NEW lo \in Nat, NEW hi \in Nat, NEW z \in Seq(Chars), NEW b,
         Renders(t, lo, hi, z, b), NEW x \in lo + 1 .. hi
  PROVE  \E j \in 1 .. Len(z) : b[j - 1] \in lo .. hi /\ b[j] \in lo .. hi /\ b[j - 1] < x /\ x <= b[j]
<1> DEFINE S == {j \in 0 .. Len(z) : x <= b[j]}
<1>1. /\ Len(z) \in Nat /\ b \in [0 .. Len(z) -> lo .. hi]
      /\ b[0] = lo /\ b[Len(z)] = hi
  BY DEF Renders
<1>2. Len(z) \in S
  BY <1>1
<1>3. S \subseteq Nat /\ S # {}
  BY <1>2
<1>4. PICK j \in S : \A k \in S : j <= k
  <2> HIDE DEF S
  <2> QED
    BY <1>3, LeastNat
<1>5. j \in 0 .. Len(z) /\ x <= b[j]
  OBVIOUS
<1>6. j # 0
  BY <1>1, <1>5
<1> DEFINE k == j - 1
<1>7. k \in 0 .. Len(z) /\ ~(j <= k) /\ j \in 1 .. Len(z)
  BY <1>1, <1>5, <1>6
<1>8. k \notin S
  <2> HIDE DEF S, k
  <2> QED
    BY <1>4, <1>7
<1>9. b[k] \in lo .. hi /\ b[j] \in lo .. hi
  BY <1>1, <1>7
<1> HIDE DEF k
<1>10. b[k] < x
  BY <1>7, <1>8, <1>9
<1> QED
  BY <1>5, <1>7, <1>9, <1>10 DEF k

-----------------------------------------------------------------------------
(***************************************************************************)
(* The invariant                                                           *)
(***************************************************************************)
\* INDUCTIVE INVARIANT: there is an account of what came out and of what is held;
\* and a redactor that suppresses is inside a run that outgrew the ceiling.
IInv ==
  /\ TaggedText(text)
  /\ fed \in 0 .. Len(text)
  /\ done => fed = Len(text) /\ redactor = Fresh
  /\ Held(text, 0, fed, out, redactor)

\* Tagging a text of the alphabet makes a tagged text.
LEMMA TaggedIs ==
  ASSUME NEW s \in Seq(Alphabet)
  PROVE  TaggedText(Tagged(s))
<1> DEFINE t == Tagged(s)
<1>1. DOMAIN s = 1 .. Len(s) /\ Len(s) \in Nat /\ \A i \in 1 .. Len(s) : s[i] \in Alphabet
  OBVIOUS
<1>2. t = [i \in 1 .. Len(s) |-> <<s[i], i>>]
  BY <1>1 DEF Tagged
<1>3. \A i \in 1 .. Len(s) : t[i] = <<s[i], i>>
  BY <1>2
<1>4. \A i \in 1 .. Len(s) : t[i] \in Chars
  <2> SUFFICES ASSUME NEW i \in 1 .. Len(s) PROVE t[i] \in Chars
    OBVIOUS
  <2>1. s[i] \in Alphabet /\ i \in Nat /\ t[i] = <<s[i], i>>
    BY <1>1, <1>3
  <2> HIDE DEF t
  <2> QED
    BY <2>1 DEF Chars
<1>5. t \in [1 .. Len(s) -> Chars]
  BY <1>2, <1>4
<1> HIDE DEF t
<1>6. t \in Seq(Chars) /\ Len(t) = Len(s)
  BY <1>1, <1>5
<1>7. \A i \in 1 .. Len(t) : t[i][2] = i
  BY <1>3, <1>6
<1> QED
  BY <1>6, <1>7 DEF TaggedText, t

\* Before anything is fed nothing is out or held.
LEMMA HeldAtFirst ==
  ASSUME NEW t
  PROVE  Held(t, 0, 0, <<>>, Fresh)
<1>1. <<>> \in Seq(Chars) /\ Len(<<>>) = 0
  OBVIOUS
<1>2. Fresh.buffer = <<>> /\ ~Fresh.suppressing /\ Fresh \in [buffer : Seq(Chars), suppressing : BOOLEAN]
  BY <1>1 DEF Fresh
<1>3. Rendering(t, 0, 0, <<>>) /\ 0 \in 0 .. 0
  BY RendersNothing
<1> QED
  BY <1>1, <1>2, <1>3, CeilingAboveBounded DEF Held

LEMMA IInvInit == Init => IInv
<1> SUFFICES ASSUME Init PROVE IInv
  OBVIOUS
<1>1. PICK s \in Texts : text = Tagged(s)
  BY DEF Init
<1>2. TaggedText(text)
  BY <1>1, TextsAssumption, TaggedIs
<1>3. Len(text) \in Nat
  BY <1>2 DEF TaggedText
<1>4. Held(text, 0, fed, out, redactor)
  BY HeldAtFirst DEF Init
<1> QED
  BY <1>2, <1>3, <1>4 DEF Init, IInv

LEMMA IInvNext == IInv /\ [Next]_vars => IInv'
<1> SUFFICES ASSUME IInv, [Next]_vars PROVE IInv'
  OBVIOUS
<1>1. /\ TaggedText(text) /\ Len(text) \in Nat /\ fed \in Nat /\ fed <= Len(text)
      /\ Held(text, 0, fed, out, redactor)
  BY DEF IInv, TaggedText
<1>2. CASE FeedPiece
  <2>1. PICK n \in fed .. Len(text) :
           /\ redactor' = Feed(redactor, SubSeq(text, fed + 1, n)).next
           /\ out' = out \o Feed(redactor, SubSeq(text, fed + 1, n)).out
           /\ fed' = n
    BY <1>2 DEF FeedPiece
  <2>2. n \in Nat /\ fed <= n /\ n <= Len(text) /\ n \in 0 .. Len(text)
    BY <1>1
  <2>3. Held(text, 0, n, out', redactor')
    BY <1>1, <2>1, <2>2, FeedKeeps
  <2>4. text' = text /\ done' = done /\ ~done
    BY <1>2 DEF FeedPiece
  <2> QED
    BY <1>1, <2>1, <2>2, <2>3, <2>4 DEF IInv
<1>3. CASE FlushEnd
  <2>1. /\ redactor' = Flush(redactor).next /\ out' = out \o Flush(redactor).out
        /\ fed = Len(text) /\ text' = text /\ fed' = fed
    BY <1>3 DEF FlushEnd
  <2>2. Held(text, 0, fed, out', redactor') /\ redactor' = Fresh
    BY <1>1, <2>1, FlushKeeps
  <2> QED
    BY <1>1, <2>1, <2>2 DEF IInv
<1>4. CASE UNCHANGED vars
  BY <1>4 DEF IInv, vars
<1> QED
  BY <1>2, <1>3, <1>4 DEF Next

LEMMA AlwaysIInv == Spec => []IInv
  BY IInvInit, IInvNext, PTL DEF Spec

\* What came out and what is held make one rendering of what was fed.
LEMMA SeenIs ==
  ASSUME IInv
  PROVE  /\ TaggedText(text) /\ fed \in Nat /\ fed <= Len(text)
         /\ Seen \in Seq(Chars)
         /\ \E b : Renders(text, 0, fed, Seen, b)
<1>1. PICK mid \in 0 .. fed : Rendering(text, 0, mid, out) /\ Rendering(text, mid, fed, redactor.buffer)
  BY DEF IInv, Held
<1>2. TaggedText(text) /\ fed \in Nat /\ fed <= Len(text)
  BY DEF IInv, TaggedText
<1>3. Rendering(text, 0, fed, Seen)
  <2>1. 0 \in Nat /\ mid \in Nat
    BY <1>2
  <2> QED
    BY <1>1, <1>2, <2>1, RendersJoin DEF Seen
<1> QED
  BY <1>2, <1>3 DEF Rendering


-----------------------------------------------------------------------------
(***************************************************************************)
(* What follows from it                                                    *)
(***************************************************************************)
LEMMA IInvTypeOK == IInv => TypeOK
<1> SUFFICES ASSUME IInv PROVE TypeOK
  OBVIOUS
<1>1. PICK b : Renders(text, 0, fed, Seen, b)
  BY SeenIs
<1>2. /\ TaggedText(text) /\ fed \in Nat /\ fed <= Len(text) /\ Seen \in Seq(Chars)
      /\ DOMAIN Seen = 1 .. Len(Seen) /\ Len(Seen) \in Nat
  BY SeenIs
<1>3. /\ \A j, k \in 0 .. Len(Seen) : j <= k => b[j] <= b[k]
      /\ \A j \in 0 .. Len(Seen) : b[j] \in 0 .. fed
  BY <1>1 DEF Renders
<1>4. ASSUME NEW i \in DOMAIN Seen, IsText(Seen[i])
      PROVE  /\ Seen[i][2] \in 1 .. fed /\ Seen[i] = text[Seen[i][2]]
             /\ \A j \in 1 .. i - 1 : IsText(Seen[j]) => Seen[j][2] < Seen[i][2]
  <2>1. /\ b[i] \in 1 .. fed /\ b[i - 1] \in 0 .. fed
        /\ b[i] = b[i - 1] + 1 /\ Seen[i] = text[b[i]] /\ Seen[i][2] = b[i]
    BY <1>1, <1>2, <1>4, TextStands
  <2>2. ASSUME NEW j \in 1 .. i - 1, IsText(Seen[j])
        PROVE  Seen[j][2] < Seen[i][2]
    <3>1. j \in 1 .. Len(Seen) /\ j \in 0 .. Len(Seen) /\ i - 1 \in 0 .. Len(Seen) /\ j <= i - 1
      BY <1>2
    <3>2. Seen[j][2] = b[j] /\ b[j] \in 1 .. fed
      BY <1>1, <1>2, <2>2, <3>1, TextStands
    <3>3. b[j] <= b[i - 1]
      BY <1>3, <3>1
    <3> QED
      BY <2>1, <3>2, <3>3
  <2> QED
    BY <2>1, <2>2
<1>5. /\ redactor.suppressing \in BOOLEAN
      /\ Len(redactor.buffer) <= IF redactor.suppressing THEN 0 ELSE MaxHoldback
  BY DEF IInv, Held
<1> QED
  BY <1>4, <1>5 DEF IInv, TypeOK

LEMMA IInvNoUnmarkedGap == IInv => NoUnmarkedGap
<1> SUFFICES ASSUME IInv PROVE NoUnmarkedGap
  OBVIOUS
<1>1. PICK b : Renders(text, 0, fed, Seen, b)
  BY SeenIs
<1>2. /\ TaggedText(text) /\ fed \in Nat /\ fed <= Len(text) /\ Seen \in Seq(Chars)
      /\ DOMAIN Seen = 1 .. Len(Seen) /\ Len(Seen) \in Nat
  BY SeenIs
<1>3. b[0] = 0 /\ b[Len(Seen)] = fed
  BY <1>1 DEF Renders
<1>4. ASSUME Seen = <<>> PROVE fed = 0
  BY <1>3, <1>4
<1>5. ASSUME NEW i \in DOMAIN Seen, IsText(Seen[i])
      PROVE  /\ i = 1 => Seen[i][2] = 1
             /\ i > 1 /\ IsText(Seen[i - 1]) => Seen[i][2] = Seen[i - 1][2] + 1
             /\ i = Len(Seen) => Seen[i][2] = fed
  <2>1. b[i] = b[i - 1] + 1 /\ Seen[i][2] = b[i]
    BY <1>1, <1>2, <1>5, TextStands
  <2>2. ASSUME i = 1 PROVE Seen[i][2] = 1
    <3>1. i - 1 = 0
      BY <2>2
    <3> QED
      BY <1>3, <2>1, <3>1
  <2>3. ASSUME i > 1, IsText(Seen[i - 1]) PROVE Seen[i][2] = Seen[i - 1][2] + 1
    <3> DEFINE k == i - 1
    <3>1. k \in 1 .. Len(Seen)
      BY <1>2, <2>3
    <3>2. IsText(Seen[k])
      BY <2>3
    <3> HIDE DEF k
    <3>3. Seen[k][2] = b[k]
      BY <1>1, <1>2, <3>1, <3>2, TextStands
    <3> QED
      BY <2>1, <3>3 DEF k
  <2> QED
    BY <1>3, <2>1, <2>2, <2>3
<1> QED
  BY <1>4, <1>5 DEF NoUnmarkedGap

LEMMA IInvOverflow == IInv => OverflowIsOneRun
<1> SUFFICES ASSUME IInv, redactor.suppressing
             PROVE  fed > MaxHoldback /\ IsRun(fed - MaxHoldback, fed)
  BY DEF OverflowIsOneRun
<1>1. LongRunTo(text, fed) /\ fed \in Nat
  BY SeenIs DEF IInv, Held
<1>2. PICK from \in 1 .. fed : from + MaxHoldback <= fed /\ IsRunOf(text, from, fed)
  BY <1>1 DEF LongRunTo
<1>3. \A j \in fed - MaxHoldback .. fed : j \in from .. fed
  BY <1>1, <1>2, CeilingAboveBounded
<1>4. IsRunOf(text, fed - MaxHoldback, fed)
  BY <1>2, <1>3 DEF IsRunOf
<1> QED
  BY <1>1, <1>2, <1>4, CeilingAboveBounded DEF IsRun

LEMMA IInvVanish == IInv => OnlyCandidatesVanish
<1> SUFFICES ASSUME IInv, done, NEW x \in DOMAIN text, x \notin Emitted
             PROVE  Lost(text, x)
  BY DEF OnlyCandidatesVanish, Lost
<1>1. PICK b : Renders(text, 0, fed, Seen, b)
  BY SeenIs
<1>2. TaggedText(text) /\ fed = Len(text) /\ fed \in Nat /\ Seen \in Seq(Chars)
  BY SeenIs DEF IInv
<1>3. Seen = out
  <2>1. redactor.buffer = <<>>
    BY DEF IInv, Fresh
  <2>2. out \in Seq(Chars)
    BY DEF IInv, Held, Rendering
  <2> QED
    BY <2>1, <2>2 DEF Seen
<1>4. x \in 0 + 1 .. fed
  BY <1>2 DEF TaggedText
<1>5. PICK j \in 1 .. Len(Seen) : /\ b[j - 1] \in 0 .. fed /\ b[j] \in 0 .. fed
                                  /\ b[j - 1] < x /\ x <= b[j]
  BY <1>1, <1>2, <1>4, SomeStandsFor
<1>6. Shows(text, Seen[j], b[j - 1], b[j])
  BY <1>1 DEF Renders
<1>7. CASE Seen[j] = text[b[j]] /\ b[j] = b[j - 1] + 1
  <2>1. x = b[j]
    BY <1>4, <1>5, <1>7
  <2>2. out[j] = text[x] /\ text[x][2] = x /\ x # 0
    BY <1>2, <1>3, <1>4, <1>7, <2>1 DEF TaggedText
  <2>3. out[j] \in ToSet(out)
    BY <1>2, <1>3 DEF ToSet
  <2>4. x \in Emitted
    BY <2>2, <2>3 DEF Emitted
  <2> QED
    BY <2>4
<1>8. CASE \A y \in b[j - 1] + 1 .. b[j] : Lost(text, y)
  <2>1. x \in b[j - 1] + 1 .. b[j]
    BY <1>4, <1>5
  <2> QED
    BY <1>8, <2>1
<1> QED
  BY <1>6, <1>7, <1>8 DEF Shows

\* TYPE CORRECTNESS: what feed and flush return, with what the redactor still
\* holds, are characters of the text that were fed, each once and in order; the
\* buffer never holds more than max_holdback (redactor.py, feed).
THEOREM TypeCorrect == Spec => []TypeOK
  BY AlwaysIInv, IInvTypeOK, PTL

\* Wherever the chunks cut the text and whatever the detectors match, text that
\* feed and flush leave out has a placeholder in its place.
THEOREM GapsAreMarked == Spec => []NoUnmarkedGap
  BY AlwaysIInv, IInvNoUnmarkedGap, PTL

\* When feed gives up holding a candidate back (redactor.py, the overflow branch),
\* the candidate is one unbroken run of the characters that suppression drops.
THEOREM OverflowRun == Spec => []OverflowIsOneRun
  BY AlwaysIInv, IInvOverflow, PTL

\* Once flush has returned, text that never came out was within a candidate of a
\* detector, or within an over-long run: suppression ends with its run, and
\* nothing is left in the buffer.
THEOREM OnlyCandidatesAreTaken == Spec => []OnlyCandidatesVanish
  BY AlwaysIInv, IInvVanish, PTL
=============================================================================
