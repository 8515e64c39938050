----------------------- MODULE StreamGuardrailProofs -----------------------
(***************************************************************************)
(* Proofs about StreamGuardrail, for every set of exchanges: when the      *)
(* provider's response is open; and, for wires whose line terminators are  *)
(* of one kind, that chunks do not matter and that a stream which was not  *)
(* relayed to its end says so.                                             *)
(***************************************************************************)
EXTENDS StreamGuardrail, SequenceTheorems, WellFoundedInduction, TLAPS

-----------------------------------------------------------------------------
(***************************************************************************)
(* Induction, in the form the provers can use: the statement is a set      *)
(***************************************************************************)
\* A set of natural numbers has a least element.
LEMMA LeastNat ==
  ASSUME NEW S, S \subseteq Nat, S # {}
  PROVE  \E m \in S : \A x \in S : m <= x
<1>1. PICK m \in S : \A x \in S : <<x, m>> \notin OpToRel(<, Nat)
  BY NatLessThanWellFounded, WFMin
<1>2. \A x \in S : x \in Nat /\ m \in Nat
  OBVIOUS
<1>3. \A x \in S : ~(x < m)
  BY <1>1, <1>2 DEF OpToRel
<1> QED
  BY <1>2, <1>3

\* A set with 0 that is closed under successors up to N holds all up to N.
LEMMA Upward ==
  ASSUME NEW N \in Nat, NEW S, 0 \in S,
         \A n \in 0 .. N - 1 : n \in S => n + 1 \in S
  PROVE  \A n \in 0 .. N : n \in S
<1> DEFINE Bad == {n \in 0 .. N : n \notin S}
<1> SUFFICES ASSUME Bad # {} PROVE FALSE
  OBVIOUS
<1>1. PICK n \in Bad : \A m \in Bad : n <= m
  <2>1. Bad \subseteq Nat
    OBVIOUS
  <2> QED
    BY <2>1, LeastNat
<1>2. n \in 1 .. N /\ n - 1 \in 0 .. N - 1 /\ n - 1 \notin Bad
  BY <1>1
<1> QED
  BY <1>1, <1>2

\* What a least element is told by.
LEMMA MinIs ==
  ASSUME NEW S, S \subseteq Nat, S # {}
  PROVE  Min(S) \in S /\ \A x \in S : Min(S) <= x
<1>1. \E m \in S : \A x \in S : m =< x
  BY LeastNat
<1> QED
  BY <1>1 DEF Min

LEMMA MinOnly ==
  ASSUME NEW S, S \subseteq Nat, NEW m \in S, \A x \in S : m <= x
  PROVE  Min(S) = m
<1>1. Min(S) \in S /\ Min(S) <= m
  BY MinIs
<1>2. m <= Min(S) /\ m \in Nat /\ Min(S) \in Nat
  BY <1>1
<1> QED
  BY <1>1, <1>2

-----------------------------------------------------------------------------
(***************************************************************************)
(* Where a line ends                                                       *)
(***************************************************************************)
LEMMA CrIsNotLf == CR # LF
  BY DEF CR, LF

\* The places of a terminator.
LEMMA FindsIs ==
  ASSUME NEW b \in Seq(Symbols)
  PROVE  /\ Finds(b, <<CR>>) = {i \in 1 .. Len(b) : b[i] = CR}
         /\ Finds(b, <<LF>>) = {i \in 1 .. Len(b) : b[i] = LF}
         /\ Finds(b, <<CR, LF>>) = {i \in 1 .. Len(b) - 1 : b[i] = CR /\ b[i + 1] = LF}
<1>0. Len(b) \in Nat
  OBVIOUS
<1>1. ASSUME NEW i \in 1 .. Len(b), NEW x
      PROVE  SubSeq(b, i, i) = <<x>> <=> b[i] = x
  <2> DEFINE z == SubSeq(b, i, i)
  <2>1. z \in Seq(Symbols) /\ Len(z) = 1 /\ z[1] = b[i]
    OBVIOUS
  <2>2. <<b[i]>> \in Seq(Symbols) /\ Len(<<b[i]>>) = 1 /\ <<b[i]>>[1] = b[i]
    OBVIOUS
  <2>3. \A n \in 1 .. 1 : n = 1
    OBVIOUS
  <2> HIDE DEF z
  <2>4. z = <<b[i]>>
    BY <2>1, <2>2, <2>3
  <2>5. z = <<x>> <=> b[i] = x
    BY <2>1, <2>4
  <2> QED
    BY <2>5 DEF z
<1>2. ASSUME NEW i \in 1 .. Len(b) - 1, NEW x, NEW y
      PROVE  SubSeq(b, i, i + 1) = <<x, y>> <=> b[i] = x /\ b[i + 1] = y
  <2> DEFINE z == SubSeq(b, i, i + 1)
             c == b[i]
             d == b[i + 1]
  <2>1. i \in 1 .. Len(b) /\ i + 1 \in 1 .. Len(b)
    BY <1>0
  <2>2. z \in Seq(Symbols) /\ Len(z) = i + 1 - i + 1 /\ \A n \in 1 .. i + 1 - i + 1 : z[n] = b[i + n - 1]
    BY <2>1
  <2>3. i + 1 - i + 1 = 2 /\ i + 1 - 1 = i /\ i + 2 - 1 = i + 1 /\ 1 \in 1 .. 2 /\ 2 \in 1 .. 2
    OBVIOUS
  <2>4. z \in Seq(Symbols) /\ Len(z) = 2 /\ z[1] = c /\ z[2] = d
    <3> HIDE DEF z
    <3> QED
      BY <2>2, <2>3
  <2>5. c \in Symbols /\ d \in Symbols
    BY <2>1
  <2> HIDE DEF z, c, d
  <2>6. <<c, d>> \in Seq(Symbols) /\ Len(<<c, d>>) = 2 /\ <<c, d>>[1] = c /\ <<c, d>>[2] = d
    BY <2>5
  <2>7. \A n \in 1 .. 2 : n = 1 \/ n = 2
    OBVIOUS
  <2>8. z = <<c, d>>
    BY <2>4, <2>6, <2>7
  <2>9. z = <<x, y>> <=> c = x /\ d = y
    BY <2>4, <2>8
  <2> QED
    BY <2>9 DEF z, c, d
<1>3. ASSUME NEW x
      PROVE  Finds(b, <<x>>) = {i \in 1 .. Len(b) : b[i] = x}
  <2>1. Len(<<x>>) = 1
    OBVIOUS
  <2>2. Len(b) + 1 - 1 = Len(b) /\ \A i \in 1 .. Len(b) : i + 1 - 1 = i
    BY <1>0
  <2>3. Finds(b, <<x>>) = {i \in 1 .. Len(b) : SubSeq(b, i, i) = <<x>>}
    BY <2>1, <2>2 DEF Finds
  <2> QED
    BY <1>1, <2>3
<1>4. Finds(b, <<CR, LF>>) = {i \in 1 .. Len(b) - 1 : b[i] = CR /\ b[i + 1] = LF}
  <2>1. Len(<<CR, LF>>) = 2
    OBVIOUS
  <2>2. Len(b) + 1 - 2 = Len(b) - 1 /\ \A i \in 1 .. Len(b) - 1 : i + 2 - 1 = i + 1
    BY <1>0
  <2>3. Finds(b, <<CR, LF>>) = {i \in 1 .. Len(b) - 1 : SubSeq(b, i, i + 1) = <<CR, LF>>}
    BY <2>1, <2>2 DEF Finds
  <2> QED
    BY <1>2, <2>3, ZenonT(40)
<1> QED
  BY <1>3, <1>4


\* A terminator that has come is found at the same place when more has come.
LEMMA CutSame ==
  ASSUME NEW b \in Seq(Symbols), NEW c \in Seq(Symbols),
         NEW T \in {<<CR>>, <<LF>>, <<CR, LF>>}, Finds(b, T) # {}
  PROVE  /\ Finds(b \o c, T) # {}
         /\ CutAt(b \o c, T) = CutAt(b, T)
         /\ \E i \in Finds(b, T) : CutAt(b, T) = <<i, i + Len(T)>> /\ Min(Finds(b, T)) = i
<1> DEFINE w == b \o c
           F == Finds(b, T)
           G == Finds(w, T)
           i == Min(F)
<1>1. /\ w \in Seq(Symbols) /\ Len(b) \in Nat /\ Len(c) \in Nat /\ Len(w) = Len(b) + Len(c)
      /\ \A n \in 1 .. Len(b) : w[n] = b[n]
  OBVIOUS
<1> HIDE DEF w
<1>2. ASSUME T = <<CR>> \/ T = <<LF>>
      PROVE  F \subseteq Nat /\ G \subseteq Nat /\ F \subseteq G /\ \A n \in G, m \in F : n <= m => n \in F
  <2>1. PICK x : T = <<x>> /\ F = {n \in 1 .. Len(b) : b[n] = x} /\ G = {n \in 1 .. Len(w) : w[n] = x}
    <3>1. CASE T = <<CR>>
      <4>1. F = {n \in 1 .. Len(b) : b[n] = CR} /\ G = {n \in 1 .. Len(w) : w[n] = CR}
        BY <1>1, <3>1, FindsIs
      <4> QED
        BY <3>1, <4>1
    <3>2. CASE T = <<LF>>
      <4>1. F = {n \in 1 .. Len(b) : b[n] = LF} /\ G = {n \in 1 .. Len(w) : w[n] = LF}
        BY <1>1, <3>2, FindsIs
      <4> QED
        BY <3>2, <4>1
    <3> QED
      BY <1>2, <3>1, <3>2
  <2> HIDE DEF F, G
  <2>2. F \subseteq Nat /\ G \subseteq Nat
    BY <2>1
  <2>3. F \subseteq G
    BY <1>1, <2>1
  <2>4. \A n \in G, m \in F : n <= m => n \in F
    BY <1>1, <2>1
  <2> QED
    BY <2>2, <2>3, <2>4
<1>3. ASSUME T = <<CR, LF>>
      PROVE  F \subseteq Nat /\ G \subseteq Nat /\ F \subseteq G /\ \A n \in G, m \in F : n <= m => n \in F
  <2>1. /\ F = {n \in 1 .. Len(b) - 1 : b[n] = CR /\ b[n + 1] = LF}
        /\ G = {n \in 1 .. Len(w) - 1 : w[n] = CR /\ w[n + 1] = LF}
    BY <1>1, <1>3, FindsIs
  <2> HIDE DEF F, G
  <2>2. F \subseteq Nat /\ G \subseteq Nat
    BY <2>1
  <2>3. ASSUME NEW n \in F
        PROVE  n \in G
    <3>1. n \in 1 .. Len(b) - 1 /\ b[n] = CR /\ b[n + 1] = LF
      BY <2>1
    <3>2. n \in 1 .. Len(b) /\ n + 1 \in 1 .. Len(b) /\ n \in 1 .. Len(w) - 1
      BY <1>1, <3>1
    <3>3. w[n] = CR /\ w[n + 1] = LF
      BY <1>1, <3>1, <3>2
    <3> QED
      BY <2>1, <3>2, <3>3
  <2>4. ASSUME NEW n \in G, NEW m \in F, n <= m
        PROVE  n \in F
    <3>1. n \in 1 .. Len(w) - 1 /\ w[n] = CR /\ w[n + 1] = LF /\ m \in 1 .. Len(b) - 1
      BY <2>1
    <3>2. n \in 1 .. Len(b) /\ n + 1 \in 1 .. Len(b) /\ n \in 1 .. Len(b) - 1
      BY <1>1, <2>4, <3>1
    <3>3. b[n] = CR /\ b[n + 1] = LF
      BY <1>1, <3>1, <3>2
    <3> QED
      BY <2>1, <3>2, <3>3
  <2> QED
    BY <2>2, <2>3, <2>4
<1>4. F \subseteq Nat /\ G \subseteq Nat /\ F \subseteq G /\ \A n \in G, m \in F : n <= m => n \in F
  <2> HIDE DEF F, G
  <2> QED
    BY <1>2, <1>3
<1> HIDE DEF F, G
<1>5. i \in F /\ \A n \in F : i <= n
  BY <1>4, MinIs DEF F
<1> HIDE DEF i
<1>6. \A n \in G : i <= n
  <2> SUFFICES ASSUME NEW n \in G, ~(i <= n) PROVE FALSE
    OBVIOUS
  <2>1. n <= i
    BY <1>4, <1>5
  <2> QED
    BY <1>4, <1>5, <2>1
<1>7. Min(G) = i
  BY <1>4, <1>5, <1>6, MinOnly
<1>8. CutAt(b, T) = <<i, i + Len(T)>> /\ CutAt(w, T) = <<i, i + Len(T)>>
  BY <1>7 DEF CutAt, F, G, i
<1> QED
  BY <1>4, <1>5, <1>8 DEF F, G, w, i

\* The cut e of a line splits a buffer in a line and a rest.
IsCut(b, e) ==
  \E i, j \in 1 .. Len(b) + 1 : i < j /\ e = <<i, j>>

\* Where terminators are of one kind, a line that has ended does not end
\* elsewhere when more has come; and what follows it is of one kind.
LEMMA LineEndIs ==
  ASSUME NEW b \in Seq(Symbols), NEW c \in Seq(Symbols), OneTerminator(b \o c),
         FindLineEnd(b) # NoLine
  PROVE  /\ FindLineEnd(b \o c) = FindLineEnd(b)
         /\ IsCut(b, FindLineEnd(b))
         /\ OneTerminator(SubSeq(b, FindLineEnd(b)[2], Len(b)) \o c)
<1> DEFINE w == b \o c
           e == FindLineEnd(b)
<1>1. /\ w \in Seq(Symbols) /\ Len(b) \in Nat /\ Len(c) \in Nat /\ Len(w) = Len(b) + Len(c)
      /\ \A n \in 1 .. Len(b) : w[n] = b[n]
  OBVIOUS
<1>2. ASSUME NEW j \in 1 .. Len(b) + 1
      PROVE  LET v == SubSeq(b, j, Len(b)) \o c
             IN  /\ v \in Seq(Symbols) /\ Len(v) = Len(w) - (j - 1)
                 /\ \A n \in 1 .. Len(v) : v[n] = w[n + (j - 1)]
  <2> DEFINE a == SubSeq(b, j, Len(b))
             v == a \o c
  <2>1. a \in Seq(Symbols) /\ Len(a) = Len(b) - (j - 1) /\ \A n \in 1 .. Len(b) - (j - 1) : a[n] = b[n + (j - 1)]
    <3>1. /\ a \in Seq(Symbols) /\ Len(a) = Len(b) - j + 1
          /\ \A n \in 1 .. Len(b) - j + 1 : a[n] = b[j + n - 1]
      BY <1>1
    <3> HIDE DEF a
    <3>2. Len(b) - j + 1 = Len(b) - (j - 1) /\ \A n \in 1 .. Len(b) - j + 1 : j + n - 1 = n + (j - 1)
      BY <1>1
    <3> QED
      BY <3>1, <3>2
  <2> HIDE DEF a
  <2>2. /\ v \in Seq(Symbols) /\ Len(v) = Len(a) + Len(c)
        /\ \A n \in 1 .. Len(a) : v[n] = a[n]
        /\ \A n \in Len(a) + 1 .. Len(a) + Len(c) : v[n] = c[n - Len(a)]
    <3>1. a \in Seq(Symbols)
      BY <2>1
    <3> HIDE DEF w, e
    <3> QED
      BY <3>1
  <2>3. \A n \in Len(b) + 1 .. Len(b) + Len(c) : w[n] = c[n - Len(b)]
    BY <1>1
  <2> HIDE DEF v, w
  <2>4. ASSUME NEW n \in 1 .. Len(v)
        PROVE  v[n] = w[n + (j - 1)]
    <3> DEFINE k == n + (j - 1)
    <3>1. CASE n <= Len(a)
      <4>1. n \in 1 .. Len(a) /\ k \in 1 .. Len(b)
        BY <1>1, <2>1, <3>1
      <4> QED
        BY <1>1, <2>1, <2>2, <4>1
    <3>2. CASE n > Len(a)
      <4>1. n \in Len(a) + 1 .. Len(a) + Len(c) /\ k \in Len(b) + 1 .. Len(b) + Len(c)
            /\ k - Len(b) = n - Len(a)
        BY <1>1, <2>1, <2>2, <3>2, SMTT(20)
      <4> HIDE DEF k
      <4>2. v[n] = c[n - Len(a)] /\ w[k] = c[k - Len(b)]
        BY <2>2, <2>3, <4>1
      <4> QED
        BY <4>1, <4>2 DEF k
    <3> QED
      BY <1>1, <2>1, <2>2, <3>1, <3>2
  <2>5. Len(v) = Len(w) - (j - 1)
    BY <1>1, <2>1, <2>2
  <2> QED
    BY <2>2, <2>4, <2>5 DEF v, a
<1> HIDE DEF w
<1> DEFINE More(T) == FindLineEnd(b) = CutAt(b, T) /\ FindLineEnd(w) = CutAt(w, T)
<1>3. ASSUME NEW T \in {<<CR>>, <<LF>>, <<CR, LF>>}, Finds(b, T) # {}, More(T)
      PROVE  /\ FindLineEnd(w) = e
             /\ \E i \in Finds(b, T) : e = <<i, i + Len(T)>>
  <2>1. CutAt(w, T) = CutAt(b, T) /\ \E i \in Finds(b, T) : CutAt(b, T) = <<i, i + Len(T)>>
    BY <1>3, CutSame DEF w
  <2> QED
    BY <1>3, <2>1
<1>4. Len(<<CR>>) = 1 /\ Len(<<LF>>) = 1 /\ Len(<<CR, LF>>) = 2
  OBVIOUS
<1> HIDE DEF e
<1>5. ASSUME NEW i, NEW j, e = <<i, j>>, j \in 1 .. Len(b) + 1, i \in 1 .. Len(b) + 1, i < j,
             LET v == SubSeq(b, j, Len(b)) \o c IN OneTerminator(v)
      PROVE  IsCut(b, e) /\ OneTerminator(SubSeq(b, e[2], Len(b)) \o c)
  <2>1. e[2] = j
    BY <1>5
  <2> QED
    BY <1>5, <2>1 DEF IsCut
<1> HIDE DEF More
<1>6. CASE \A n \in 1 .. Len(w) : w[n] # CR
  <2>1. Finds(b, <<CR, LF>>) = {} /\ Finds(b, <<CR>>) = {} /\ Finds(w, <<CR, LF>>) = {}
    <3>1. \A n \in 1 .. Len(b) : b[n] # CR
      BY <1>1, <1>6
    <3>2. /\ Finds(b, <<CR>>) = {n \in 1 .. Len(b) : b[n] = CR}
          /\ Finds(b, <<CR, LF>>) = {n \in 1 .. Len(b) - 1 : b[n] = CR /\ b[n + 1] = LF}
          /\ Finds(w, <<CR, LF>>) = {n \in 1 .. Len(w) - 1 : w[n] = CR /\ w[n + 1] = LF}
      BY <1>1, FindsIs
    <3>3. (\A n \in 1 .. Len(b) - 1 : n \in 1 .. Len(b)) /\ (\A n \in 1 .. Len(w) - 1 : n \in 1 .. Len(w))
      BY <1>1
    <3> QED
      BY <1>6, <3>1, <3>2, <3>3
  <2>2. Finds(b, <<LF>>) # {}
    BY <2>1 DEF FindLineEnd
  <2>3. Finds(w, <<LF>>) # {}
    BY <2>2, CutSame DEF w
  <2>4. More(<<LF>>)
    BY <2>1, <2>2, <2>3 DEF FindLineEnd, More
  <2>5. PICK i \in Finds(b, <<LF>>) : FindLineEnd(w) = e /\ e = <<i, i + 1>>
    BY <1>3, <1>4, <2>2, <2>4
  <2>6. i \in 1 .. Len(b)
    BY FindsIs
  <2> DEFINE j == i + 1
  <2>7. j \in 1 .. Len(b) + 1 /\ i \in 1 .. Len(b) + 1 /\ i < j
    BY <1>1, <2>6
  <2> HIDE DEF j
  <2> DEFINE v == SubSeq(b, j, Len(b)) \o c
  <2>8. \A n \in 1 .. Len(v) : n + (j - 1) \in 1 .. Len(w) /\ v[n] = w[n + (j - 1)]
    BY <1>1, <1>2, <2>7, SMTT(20)
  <2>9. OneTerminator(v)
    BY <1>6, <2>8 DEF OneTerminator
  <2> QED
    BY <1>5, <2>5, <2>7, <2>9 DEF w, e, j
<1>7. CASE \A n \in 1 .. Len(w) : w[n] # LF
  <2>1. Finds(b, <<CR, LF>>) = {} /\ Finds(b, <<LF>>) = {} /\ Finds(w, <<CR, LF>>) = {}
        /\ Finds(w, <<LF>>) = {}
    <3>1. \A n \in 1 .. Len(b) : b[n] # LF
      BY <1>1, <1>7
    <3>2. /\ Finds(b, <<LF>>) = {n \in 1 .. Len(b) : b[n] = LF}
          /\ Finds(w, <<LF>>) = {n \in 1 .. Len(w) : w[n] = LF}
          /\ Finds(b, <<CR, LF>>) = {n \in 1 .. Len(b) - 1 : b[n] = CR /\ b[n + 1] = LF}
          /\ Finds(w, <<CR, LF>>) = {n \in 1 .. Len(w) - 1 : w[n] = CR /\ w[n + 1] = LF}
      BY <1>1, FindsIs
    <3>3. (\A n \in 1 .. Len(b) - 1 : n + 1 \in 1 .. Len(b)) /\ (\A n \in 1 .. Len(w) - 1 : n + 1 \in 1 .. Len(w))
      BY <1>1
    <3> QED
      BY <1>7, <3>1, <3>2, <3>3
  <2>2. PICK k \in Finds(b, <<CR>>) : k # Len(b)
    BY <2>1 DEF FindLineEnd
  <2>3. k \in 1 .. Len(b) /\ k < Len(b)
    <3>1. k \in 1 .. Len(b)
      BY FindsIs
    <3> QED
      BY <1>1, <2>2, <3>1
  <2>4. Finds(b, <<CR>>) \subseteq Finds(w, <<CR>>)
    <3>1. \A n \in 1 .. Len(b) : n \in 1 .. Len(w)
      BY <1>1
    <3>2. /\ Finds(b, <<CR>>) = {n \in 1 .. Len(b) : b[n] = CR}
          /\ Finds(w, <<CR>>) = {n \in 1 .. Len(w) : w[n] = CR}
      BY <1>1, FindsIs
    <3> QED
      BY <1>1, <3>1, <3>2
  <2>5. k \in Finds(w, <<CR>>) /\ k # Len(w)
    BY <1>1, <2>3, <2>4, SMTT(20)
  <2>6. More(<<CR>>)
    BY <2>1, <2>2, <2>5 DEF FindLineEnd, More
  <2>7. PICK i \in Finds(b, <<CR>>) : FindLineEnd(w) = e /\ e = <<i, i + 1>>
    BY <1>3, <1>4, <2>2, <2>6
  <2>8. i \in 1 .. Len(b)
    BY FindsIs
  <2> DEFINE j == i + 1
  <2>9. j \in 1 .. Len(b) + 1 /\ i \in 1 .. Len(b) + 1 /\ i < j
    BY <1>1, <2>8
  <2> HIDE DEF j
  <2> DEFINE v == SubSeq(b, j, Len(b)) \o c
  <2>10. \A n \in 1 .. Len(v) : n + (j - 1) \in 1 .. Len(w) /\ v[n] = w[n + (j - 1)]
    BY <1>1, <1>2, <2>9, SMTT(20)
  <2>11. OneTerminator(v)
    BY <1>7, <2>10 DEF OneTerminator
  <2> QED
    BY <1>5, <2>7, <2>9, <2>11 DEF w, e, j
<1>8. CASE \A n \in 1 .. Len(w) :
              /\ w[n] = CR /\ n < Len(w) => w[n + 1] = LF
              /\ w[n] = LF => n > 1 /\ w[n - 1] = CR
  <2>1. Finds(b, <<CR, LF>>) # {}
    <3> SUFFICES ASSUME Finds(b, <<CR, LF>>) = {} PROVE FALSE
      OBVIOUS
    <3>1. ASSUME NEW n \in 1 .. Len(b) - 1, b[n] = CR PROVE FALSE
      <4>1. n \in 1 .. Len(b) /\ n + 1 \in 1 .. Len(b) /\ n \in 1 .. Len(w) /\ n < Len(w)
        BY <1>1
      <4>2. b[n + 1] = LF
        BY <1>1, <1>8, <3>1, <4>1
      <4> QED
        BY <3>1, <4>2, FindsIs
    <3>2. ASSUME NEW n \in 1 .. Len(b), b[n] = LF PROVE FALSE
      <4>1. n \in 1 .. Len(w) /\ w[n] = LF
        BY <1>1, <3>2
      <4>2. n > 1 /\ w[n - 1] = CR
        BY <1>8, <4>1
      <4> DEFINE m == n - 1
      <4>3. m \in 1 .. Len(b) - 1 /\ m \in 1 .. Len(b)
        BY <1>1, <4>2
      <4> HIDE DEF m
      <4>4. b[m] = CR
        BY <1>1, <4>2, <4>3 DEF m
      <4> QED
        BY <3>1, <4>3, <4>4
    <3>3. Finds(b, <<LF>>) = {}
      BY <3>2, FindsIs
    <3>4. Finds(b, <<CR>>) \ {Len(b)} = {}
      <4>1. \A n \in 1 .. Len(b) : n # Len(b) => n \in 1 .. Len(b) - 1
        BY <1>1
      <4> QED
        BY <3>1, <4>1, FindsIs
    <3> QED
      BY <3>3, <3>4 DEF FindLineEnd
  <2>2. Finds(w, <<CR, LF>>) # {}
    BY <2>1, CutSame DEF w
  <2>3. More(<<CR, LF>>)
    BY <2>1, <2>2 DEF FindLineEnd, More
  <2>4. PICK i \in Finds(b, <<CR, LF>>) : FindLineEnd(w) = e /\ e = <<i, i + 2>>
    BY <1>3, <1>4, <2>1, <2>3
  <2>5. i \in 1 .. Len(b) - 1 /\ b[i + 1] = LF
    BY FindsIs
  <2> DEFINE j == i + 2
  <2>6. /\ j \in 1 .. Len(b) + 1 /\ i \in 1 .. Len(b) + 1 /\ i < j
        /\ i + 1 \in 1 .. Len(b) /\ j - 1 = i + 1
    BY <1>1, <2>5
  <2>7. w[j - 1] = LF
    BY <1>1, <2>5, <2>6
  <2> HIDE DEF j
  <2> DEFINE v == SubSeq(b, j, Len(b)) \o c
  <2>8. /\ v \in Seq(Symbols) /\ Len(v) = Len(w) - (j - 1) /\ Len(w) \in Nat
        /\ \A n \in 1 .. Len(v) : n + (j - 1) \in 1 .. Len(w) /\ v[n] = w[n + (j - 1)]
    BY <1>1, <1>2, <2>6, SMTT(20)
  <2> HIDE DEF v
  <2>9. ASSUME NEW n \in 1 .. Len(v), v[n] = CR, n < Len(v)
        PROVE  v[n + 1] = LF
    <3> DEFINE k == n + (j - 1)
               m == n + 1
    <3>1. k \in 1 .. Len(w) /\ k < Len(w) /\ k + 1 = m + (j - 1) /\ m \in 1 .. Len(v)
      BY <2>6, <2>8, <2>9
    <3>2. w[k] = CR
      BY <2>8, <2>9
    <3> HIDE DEF k, m
    <3>3. w[k + 1] = LF
      BY <1>8, <3>1, <3>2
    <3>4. v[m] = w[m + (j - 1)]
      BY <2>8, <3>1
    <3> QED
      BY <3>1, <3>3, <3>4 DEF m
  <2>10. ASSUME NEW n \in 1 .. Len(v), v[n] = LF
         PROVE  n > 1 /\ v[n - 1] = CR
    <3> DEFINE k == n + (j - 1)
               m == n - 1
    <3>1. k \in 1 .. Len(w) /\ w[k] = LF
      BY <2>8, <2>10
    <3>2. k - 1 = m + (j - 1) /\ n \in Nat /\ (n = 1 => k - 1 = j - 1)
      BY <2>6
    <3> HIDE DEF k, m
    <3>3. w[k - 1] = CR
      BY <1>8, <3>1
    <3>4. n # 1
      BY <2>7, <3>2, <3>3, CrIsNotLf
    <3>5. m \in 1 .. Len(v)
      BY <2>8, <3>4 DEF m
    <3>6. v[m] = w[m + (j - 1)]
      BY <2>8, <3>5
    <3> QED
      BY <3>2, <3>3, <3>4, <3>6 DEF m
  <2>11. OneTerminator(v)
    BY <2>9, <2>10 DEF OneTerminator
  <2> QED
    BY <1>5, <2>4, <2>6, <2>11 DEF w, e, j, v
<1> QED
  BY <1>6, <1>7, <1>8 DEF OneTerminator, w, e


\* What is of one kind is so at its start.
LEMMA OneTerminatorAtStart ==
  ASSUME NEW b \in Seq(Symbols), NEW c \in Seq(Symbols), OneTerminator(b \o c)
  PROVE  OneTerminator(b)
<1> DEFINE w == b \o c
<1>1. /\ w \in Seq(Symbols) /\ Len(b) \in Nat /\ Len(c) \in Nat /\ Len(w) = Len(b) + Len(c)
      /\ \A n \in 1 .. Len(b) : w[n] = b[n]
  OBVIOUS
<1> HIDE DEF w
<1>2. \A n \in 1 .. Len(b) : n \in 1 .. Len(w)
  BY <1>1
<1>3. CASE \A n \in 1 .. Len(w) : w[n] # CR
  BY <1>1, <1>2, <1>3 DEF OneTerminator
<1>4. CASE \A n \in 1 .. Len(w) : w[n] # LF
  BY <1>1, <1>2, <1>4 DEF OneTerminator
<1>5. CASE \A n \in 1 .. Len(w) :
              /\ w[n] = CR /\ n < Len(w) => w[n + 1] = LF
              /\ w[n] = LF => n > 1 /\ w[n - 1] = CR
  <2>1. ASSUME NEW n \in 1 .. Len(b)
        PROVE  /\ b[n] = CR /\ n < Len(b) => b[n + 1] = LF
               /\ b[n] = LF => n > 1 /\ b[n - 1] = CR
    <3>1. n \in 1 .. Len(w) /\ w[n] = b[n]
      BY <1>1
    <3>2. ASSUME b[n] = CR, n < Len(b) PROVE b[n + 1] = LF
      <4>1. n + 1 \in 1 .. Len(b) /\ n < Len(w)
        BY <1>1, <3>2
      <4> QED
        BY <1>1, <1>5, <3>1, <3>2, <4>1
    <3>3. ASSUME b[n] = LF PROVE n > 1 /\ b[n - 1] = CR
      <4>1. n > 1 /\ w[n - 1] = CR
        BY <1>5, <3>1, <3>3
      <4>2. n - 1 \in 1 .. Len(b)
        BY <1>1, <4>1
      <4> QED
        BY <1>1, <4>1, <4>2
    <3> QED
      BY <3>2, <3>3
  <2> QED
    BY <2>1 DEF OneTerminator
<1> QED
  BY <1>3, <1>4, <1>5 DEF OneTerminator, w

-----------------------------------------------------------------------------
(***************************************************************************)
(* One line                                                                *)
(***************************************************************************)
Values  == {s.value : s \in Symbols} \cup {NoName}
Parsers == [buffer : Seq(Symbols), event : Values, data : Seq(Values)]
Events  == [event : Values, data : Seq(Values)]
Gots    == [parser : Parsers, events : Seq(Events)]

\* A parser that has got a line, with the rest of its buffer.
GotLine(g, line, rest) ==
  LET p == g.parser
  IN  IF line = <<>>
        THEN [parser |-> [buffer |-> rest, event |-> NoName, data |-> <<>>],
              events |-> g.events \o IF p.data = <<>> /\ p.event = NoName THEN <<>>
                                     ELSE <<[event |-> p.event, data |-> p.data]>>]
        ELSE [parser |-> [buffer |-> rest,
                          event  |-> IF line[1].field = "event" THEN line[1].value ELSE p.event,
                          data   |-> IF line[1].field = "data" THEN Append(p.data, line[1].value)
                                     ELSE p.data],
              events |-> g.events]

LEMMA Associates ==
  \A S : \A x, y, z \in Seq(S) : (x \o y) \o z = x \o (y \o z)
  BY ConcatAssociative

LEMMA Pieces ==
  ASSUME NEW S, NEW b \in Seq(S), NEW i \in 1 .. Len(b) + 1, NEW j \in 1 .. Len(b) + 1
  PROVE  /\ SubSeq(b, 1, i - 1) \in Seq(S)
         /\ SubSeq(b, j, Len(b)) \in Seq(S) /\ Len(SubSeq(b, j, Len(b))) = Len(b) + 1 - j
  OBVIOUS

LEMMA TakeLineIs ==
  ASSUME NEW g \in Gots,
         NEW i \in 1 .. Len(g.parser.buffer) + 1, NEW j \in 1 .. Len(g.parser.buffer) + 1,
         FindLineEnd(g.parser.buffer) = <<i, j>>, <<i, j>> # NoLine
  PROVE  TakeLine(g) = GotLine(g, SubSeq(g.parser.buffer, 1, i - 1),
                               SubSeq(g.parser.buffer, j, Len(g.parser.buffer)))
<1> DEFINE b    == g.parser.buffer
           line == SubSeq(b, 1, i - 1)
           tail == SubSeq(b, j, Len(b))
           rest == [g.parser EXCEPT !.buffer = tail]
<1>1. <<i, j>>[1] = i /\ <<i, j>>[2] = j
  OBVIOUS
<1>2. TakeLine(g) = IF line = <<>>
                      THEN [parser |-> Cleared(rest), events |-> g.events \o Dispatch(rest)]
                      ELSE [parser |-> HandleLine(rest, line), events |-> g.events]
  BY <1>1 DEF TakeLine
<1>0. tail \in Seq(Symbols)
  BY Pieces DEF Gots, Parsers
<1> HIDE DEF line, tail
<1>3. rest = [buffer |-> tail, event |-> g.parser.event, data |-> g.parser.data]
  BY DEF Gots, Parsers
<1> HIDE DEF rest
<1>4. Cleared(rest) = [buffer |-> tail, event |-> NoName, data |-> <<>>]
  <2> DEFINE none  == <<>>
             unnamed == [rest EXCEPT !.event = NoName]
  <2>1. none \in Seq(Values) /\ NoName \in Values
    BY DEF Values
  <2>2. rest \in Parsers
    BY <1>0, <1>3 DEF Gots, Parsers
  <2>3. unnamed \in Parsers /\ unnamed = [buffer |-> tail, event |-> NoName, data |-> rest.data]
    BY <1>3, <2>1, <2>2 DEF Parsers
  <2>4. Cleared(rest) = [unnamed EXCEPT !.data = none]
    BY DEF Cleared
  <2> HIDE DEF none, unnamed
  <2>5. Cleared(rest) = [buffer |-> unnamed.buffer, event |-> unnamed.event, data |-> none]
    BY <2>1, <2>3, <2>4 DEF Parsers
  <2> QED
    BY <2>3, <2>5 DEF none
<1>5. Dispatch(rest) = IF g.parser.data = <<>> /\ g.parser.event = NoName THEN <<>>
                       ELSE <<[event |-> g.parser.event, data |-> g.parser.data]>>
  BY <1>3 DEF Dispatch
<1>6. HandleLine(rest, line) =
         [buffer |-> tail,
          event  |-> IF line[1].field = "event" THEN line[1].value ELSE g.parser.event,
          data   |-> IF line[1].field = "data" THEN Append(g.parser.data, line[1].value)
                     ELSE g.parser.data]
  BY <1>3 DEF HandleLine
<1> QED
  BY <1>2, <1>4, <1>5, <1>6 DEF GotLine, line, tail

\* It is a parser, and its buffer is the rest.
LEMMA GotLineIs ==
  ASSUME NEW g \in Gots, NEW line \in Seq(Symbols), NEW rest \in Seq(Symbols)
  PROVE  GotLine(g, line, rest) \in Gots /\ GotLine(g, line, rest).parser.buffer = rest
<1>1. /\ g.parser \in Parsers /\ g.parser.event \in Values /\ g.parser.data \in Seq(Values)
      /\ g.events \in Seq(Events)
  BY DEF Gots, Parsers
<1>2. CASE line = <<>>
  <2> DEFINE p == [buffer |-> rest, event |-> NoName, data |-> <<>>]
             new == IF g.parser.data = <<>> /\ g.parser.event = NoName THEN <<>>
                    ELSE <<[event |-> g.parser.event, data |-> g.parser.data]>>
  <2>1. p \in Parsers
    BY DEF Parsers, Values
  <2>2. new \in Seq(Events)
    <3> DEFINE e == [event |-> g.parser.event, data |-> g.parser.data]
    <3>1. e \in Events
      BY <1>1 DEF Events
    <3> HIDE DEF e
    <3>2. <<e>> \in Seq(Events) /\ <<>> \in Seq(Events)
      BY <3>1
    <3>3. new = <<>> \/ new = <<e>>
      BY DEF e
    <3> HIDE DEF new
    <3> QED
      BY <3>2, <3>3
  <2>3. g.events \o new \in Seq(Events)
    <3> HIDE DEF new
    <3> QED
      BY <1>1, <2>2
  <2>4. GotLine(g, line, rest) = [parser |-> p, events |-> g.events \o new]
    BY <1>2 DEF GotLine
  <2> HIDE DEF new
  <2> QED
    BY <2>1, <2>3, <2>4 DEF Gots
<1>3. CASE line # <<>>
  <2> DEFINE v == line[1].value
             p == [buffer |-> rest,
                   event  |-> IF line[1].field = "event" THEN v ELSE g.parser.event,
                   data   |-> IF line[1].field = "data" THEN Append(g.parser.data, v)
                              ELSE g.parser.data]
  <2>1. line[1] \in Symbols
    BY <1>3
  <2>2. v \in Values
    BY <2>1 DEF Values
  <2>3. GotLine(g, line, rest) = [parser |-> p, events |-> g.events]
    BY <1>3 DEF GotLine
  <2>4. Append(g.parser.data, v) \in Seq(Values)
    <3> HIDE DEF v
    <3> QED
      BY <1>1, <2>2
  <2> HIDE DEF v
  <2>5. p \in Parsers /\ p.buffer = rest
    BY <1>1, <2>2, <2>4 DEF Parsers
  <2> HIDE DEF p
  <2> QED
    BY <1>1, <2>3, <2>5 DEF Gots
<1> QED
  BY <1>2, <1>3


\* The pieces of a buffer to which more has come.
LEMMA LongerPieces ==
  ASSUME NEW S, NEW b \in Seq(S), NEW c \in Seq(S),
         NEW i \in 1 .. Len(b) + 1, NEW j \in 1 .. Len(b) + 1
  PROVE  /\ SubSeq(b \o c, 1, i - 1) = SubSeq(b, 1, i - 1)
         /\ SubSeq(b \o c, j, Len(b \o c)) = SubSeq(b, j, Len(b)) \o c
<1> DEFINE w == b \o c
<1>1. /\ w \in Seq(S) /\ Len(b) \in Nat /\ Len(c) \in Nat /\ Len(w) = Len(b) + Len(c)
      /\ \A n \in 1 .. Len(b) : w[n] = b[n]
      /\ \A n \in 1 .. Len(c) : w[Len(b) + n] = c[n]
  OBVIOUS
<1> HIDE DEF w
<1>2. SubSeq(w, 1, i - 1) = SubSeq(b, 1, i - 1)
  <2> DEFINE x == SubSeq(w, 1, i - 1)
             y == SubSeq(b, 1, i - 1)
  <2>1. x \in Seq(S) /\ Len(x) = i - 1 /\ \A n \in 1 .. i - 1 : x[n] = w[n]
    <3>1. i - 1 \in 0 .. Len(w)
      BY <1>1
    <3> QED
      BY <1>1, <3>1
  <2>2. y \in Seq(S) /\ Len(y) = i - 1 /\ \A n \in 1 .. i - 1 : y[n] = b[n]
    <3>1. i - 1 \in 0 .. Len(b)
      BY <1>1
    <3> QED
      BY <3>1
  <2>3. \A n \in 1 .. i - 1 : n \in 1 .. Len(b)
    BY <1>1
  <2> HIDE DEF x, y
  <2> QED
    BY <1>1, <2>1, <2>2, <2>3 DEF x, y
<1>3. SubSeq(w, j, Len(w)) = SubSeq(b, j, Len(b)) \o c
  <2> DEFINE x == SubSeq(w, j, Len(w))
             t == SubSeq(b, j, Len(b))
             y == t \o c
  <2>1. /\ x \in Seq(S) /\ Len(x) = Len(w) - j + 1
        /\ \A n \in 1 .. Len(w) - j + 1 : x[n] = w[j + n - 1]
    <3>1. j \in 1 .. Len(w) + 1
      BY <1>1
    <3> QED
      BY <1>1, <3>1
  <2>2. /\ t \in Seq(S) /\ Len(t) = Len(b) - j + 1
        /\ \A n \in 1 .. Len(b) - j + 1 : t[n] = b[j + n - 1]
    BY <1>1
  <2> HIDE DEF t
  <2>3. /\ y \in Seq(S) /\ Len(y) = Len(t) + Len(c)
        /\ \A n \in 1 .. Len(t) : y[n] = t[n]
        /\ \A n \in 1 .. Len(c) : y[Len(t) + n] = c[n]
    <3>1. t \in Seq(S) /\ Len(t) \in Nat
      BY <2>2
    <3>2. /\ y \in Seq(S) /\ Len(y) = Len(t) + Len(c)
          /\ \A n \in 1 .. Len(t) + Len(c) : y[n] = IF n <= Len(t) THEN t[n] ELSE c[n - Len(t)]
      BY <3>1, ConcatProperties
    <3> HIDE DEF y
    <3>3. \A n \in 1 .. Len(t) : n \in 1 .. Len(t) + Len(c) /\ n <= Len(t)
      BY <1>1, <3>1
    <3>4. ASSUME NEW n \in 1 .. Len(c)
          PROVE  y[Len(t) + n] = c[n]
      <4> DEFINE k == Len(t) + n
      <4>1. k \in 1 .. Len(t) + Len(c) /\ ~(k <= Len(t)) /\ k - Len(t) = n
        BY <1>1, <3>1
      <4> HIDE DEF k
      <4>2. y[k] = c[k - Len(t)]
        BY <3>2, <4>1
      <4> QED
        BY <4>1, <4>2 DEF k
    <3> QED
      BY <3>2, <3>3, <3>4
  <2> HIDE DEF x, y
  <2>4. Len(x) = Len(y) /\ Len(x) \in Nat
    BY <1>1, <2>1, <2>2, <2>3
  <2>5. ASSUME NEW n \in 1 .. Len(y)
        PROVE  x[n] = y[n]
    <3>0. x[n] = w[j + n - 1]
      BY <2>1, <2>4
    <3>1. CASE n <= Len(t)
      <4>1. n \in 1 .. Len(t) /\ j + n - 1 \in 1 .. Len(b)
        BY <1>1, <2>2, <3>1
      <4> QED
        BY <1>1, <2>2, <2>3, <3>0, <4>1
    <3>2. CASE n > Len(t)
      <4> DEFINE m == n - Len(t)
      <4>1. m \in 1 .. Len(c) /\ Len(t) + m = n /\ Len(b) + m = j + n - 1
        BY <1>1, <2>2, <2>3, <3>2
      <4> HIDE DEF m
      <4>2. y[Len(t) + m] = c[m] /\ w[Len(b) + m] = c[m]
        BY <1>1, <2>3, <4>1
      <4> QED
        BY <3>0, <4>1, <4>2
    <3> QED
      BY <2>2, <2>3, <3>1, <3>2
  <2>6. x = y
    BY <2>1, <2>3, <2>4, <2>5
  <2> QED
    BY <2>6 DEF x, y, t
<1> QED
  BY <1>2, <1>3 DEF w

\* What was got, when more has come; and when other events were got before it.
Longer(g, c) ==
  [parser |-> [buffer |-> g.parser.buffer \o c, event |-> g.parser.event, data |-> g.parser.data],
   events |-> g.events]
AfterEvents(ev, g) == [parser |-> g.parser, events |-> ev \o g.events]

LEMMA StillGots ==
  ASSUME NEW g \in Gots, NEW c \in Seq(Symbols), NEW ev \in Seq(Events)
  PROVE  /\ Longer(g, c) \in Gots /\ Longer(g, c).parser.buffer = g.parser.buffer \o c
         /\ AfterEvents(ev, g) \in Gots /\ AfterEvents(ev, g).parser.buffer = g.parser.buffer
<1>1. /\ g.parser \in Parsers /\ g.events \in Seq(Events) /\ g.parser.buffer \in Seq(Symbols)
      /\ g.parser.event \in Values /\ g.parser.data \in Seq(Values)
  BY DEF Gots, Parsers
<1> DEFINE b == g.parser.buffer \o c
           e == ev \o g.events
<1>2. b \in Seq(Symbols)
  BY <1>1
<1>3. e \in Seq(Events)
  BY <1>1
<1> HIDE DEF b, e
<1>4. Longer(g, c) = [parser |-> [buffer |-> b, event |-> g.parser.event, data |-> g.parser.data],
                      events |-> g.events]
  BY DEF Longer, b
<1>5. AfterEvents(ev, g) = [parser |-> g.parser, events |-> e]
  BY DEF AfterEvents, e
<1>6. Longer(g, c) \in Gots /\ Longer(g, c).parser.buffer = b
  BY <1>1, <1>2, <1>4 DEF Gots, Parsers
<1>7. AfterEvents(ev, g) \in Gots /\ AfterEvents(ev, g).parser = g.parser
  BY <1>1, <1>3, <1>5 DEF Gots
<1> QED
  BY <1>6, <1>7 DEF b

LEMMA GotLineLonger ==
  ASSUME NEW g, NEW line, NEW rest, NEW c
  PROVE  GotLine(Longer(g, c), line, rest \o c) = Longer(GotLine(g, line, rest), c)
<1>1. CASE line = <<>>
  BY <1>1 DEF GotLine, Longer
<1>2. CASE line # <<>>
  BY <1>2 DEF GotLine, Longer
<1> QED
  BY <1>1, <1>2

LEMMA GotLineAfter ==
  ASSUME NEW g \in Gots, NEW line, NEW rest, NEW ev \in Seq(Events)
  PROVE  GotLine(AfterEvents(ev, g), line, rest) = AfterEvents(ev, GotLine(g, line, rest))
<1>1. /\ g.parser.event \in Values /\ g.parser.data \in Seq(Values)
      /\ g.events \in Seq(Events)
  BY DEF Gots, Parsers
<1>2. CASE line = <<>>
  <2> DEFINE e   == [event |-> g.parser.event, data |-> g.parser.data]
             new == IF g.parser.data = <<>> /\ g.parser.event = NoName THEN <<>> ELSE <<e>>
             p   == [buffer |-> rest, event |-> NoName, data |-> <<>>]
  <2>1. e \in Events
    BY <1>1 DEF Events
  <2>2. new \in Seq(Events)
    <3> HIDE DEF e
    <3>1. <<e>> \in Seq(Events) /\ <<>> \in Seq(Events)
      BY <2>1
    <3>2. new = <<>> \/ new = <<e>>
      OBVIOUS
    <3> HIDE DEF new
    <3> QED
      BY <3>1, <3>2
  <2>3. GotLine(g, line, rest) = [parser |-> p, events |-> g.events \o new]
    BY <1>2 DEF GotLine
  <2>4. GotLine(AfterEvents(ev, g), line, rest) = [parser |-> p, events |-> (ev \o g.events) \o new]
    BY <1>2 DEF GotLine, AfterEvents
  <2> HIDE DEF new, p, e
  <2>5. (ev \o g.events) \o new = ev \o (g.events \o new)
    <3> DEFINE got == g.events
               S   == Seq(Events)
    <3>1. ev \in S /\ got \in S /\ new \in S
      BY <1>1, <2>2
    <3>2. \A x, y, z \in S : (x \o y) \o z = x \o (y \o z)
      BY Associates
    <3> HIDE DEF got, S
    <3>3. (ev \o got) \o new = ev \o (got \o new)
      BY <3>1, <3>2
    <3> QED
      BY <3>3, Zenon DEF got
  <2> QED
    BY <2>3, <2>4, <2>5 DEF AfterEvents
<1>3. CASE line # <<>>
  BY <1>3 DEF GotLine, AfterEvents
<1> QED
  BY <1>2, <1>3


\* Nothing is left to take.
Final(g) == FindLineEnd(g.parser.buffer) = NoLine

LEMMA FinalStays ==
  ASSUME NEW g, Final(g)
  PROVE  TakeLine(g) = g
  BY DEF TakeLine, Final

\* A line that is taken leaves a shorter buffer, and is taken the same when more
\* has come, or when there were events before.
LEMMA TakeLineKeeps ==
  ASSUME NEW g \in Gots, NEW c \in Seq(Symbols), NEW ev \in Seq(Events),
         OneTerminator(g.parser.buffer \o c), ~Final(g)
  PROVE  /\ TakeLine(g) \in Gots
         /\ Len(TakeLine(g).parser.buffer) < Len(g.parser.buffer)
         /\ OneTerminator(TakeLine(g).parser.buffer \o c)
         /\ TakeLine(Longer(g, c)) = Longer(TakeLine(g), c)
         /\ TakeLine(AfterEvents(ev, g)) = AfterEvents(ev, TakeLine(g))
<1> DEFINE b == g.parser.buffer
           w == b \o c
<1>1. b \in Seq(Symbols) /\ w \in Seq(Symbols) /\ Len(b) \in Nat /\ Len(c) \in Nat /\ Len(w) = Len(b) + Len(c)
  <2>1. b \in Seq(Symbols)
    BY DEF Gots, Parsers
  <2> HIDE DEF b
  <2> QED
    BY <2>1
<1> HIDE DEF b, w
<1>2. OneTerminator(b \o c) /\ FindLineEnd(b) # NoLine
  BY DEF Final, b
<1>3. /\ FindLineEnd(w) = FindLineEnd(b)
      /\ IsCut(b, FindLineEnd(b))
      /\ OneTerminator(SubSeq(b, FindLineEnd(b)[2], Len(b)) \o c)
  BY <1>1, <1>2, LineEndIs DEF w
<1>4. PICK i \in 1 .. Len(b) + 1, j \in 1 .. Len(b) + 1 : i < j /\ FindLineEnd(b) = <<i, j>>
  BY <1>3 DEF IsCut
<1> DEFINE line == SubSeq(b, 1, i - 1)
           rest == SubSeq(b, j, Len(b))
<1>5. line \in Seq(Symbols) /\ rest \in Seq(Symbols) /\ Len(rest) = Len(b) + 1 - j
  BY <1>1, Pieces
<1>6. SubSeq(w, 1, i - 1) = line /\ SubSeq(w, j, Len(w)) = rest \o c
  BY <1>1, LongerPieces DEF w
<1>7. <<i, j>> # NoLine /\ FindLineEnd(w) = <<i, j>> /\ OneTerminator(rest \o c)
      /\ i \in 1 .. Len(w) + 1 /\ j \in 1 .. Len(w) + 1
  <2>1. <<i, j>>[2] = j
    OBVIOUS
  <2> QED
    BY <1>1, <1>2, <1>3, <1>4, <2>1
<1> HIDE DEF line, rest
<1>8. TakeLine(g) = GotLine(g, line, rest)
  BY <1>4, <1>7, TakeLineIs DEF b, line, rest
<1>9. GotLine(g, line, rest) \in Gots /\ GotLine(g, line, rest).parser.buffer = rest
  BY <1>5, GotLineIs
<1>10. TakeLine(Longer(g, c)) = GotLine(Longer(g, c), line, rest \o c)
  <2> DEFINE h == Longer(g, c)
  <2>1. h \in Gots /\ h.parser.buffer = w
    BY StillGots, <1>1 DEF w, b
  <2> HIDE DEF h
  <2>2. TakeLine(h) = GotLine(h, SubSeq(h.parser.buffer, 1, i - 1),
                              SubSeq(h.parser.buffer, j, Len(h.parser.buffer)))
    BY <1>7, <2>1, TakeLineIs
  <2> QED
    BY <1>6, <2>1, <2>2 DEF h
<1>11. TakeLine(AfterEvents(ev, g)) = GotLine(AfterEvents(ev, g), line, rest)
  <2> DEFINE h == AfterEvents(ev, g)
  <2>1. h \in Gots /\ h.parser.buffer = b
    BY StillGots DEF b
  <2> HIDE DEF h
  <2>2. TakeLine(h) = GotLine(h, SubSeq(h.parser.buffer, 1, i - 1),
                              SubSeq(h.parser.buffer, j, Len(h.parser.buffer)))
    BY <1>4, <1>7, <2>1, TakeLineIs
  <2> QED
    BY <2>1, <2>2 DEF h, line, rest
<1>12. Len(rest) < Len(b)
  <2>1. j > 1
    BY <1>4
  <2> QED
    BY <1>1, <1>4, <1>5, <2>1
<1> QED
  BY <1>7, <1>8, <1>9, <1>10, <1>11, <1>12, GotLineLonger, GotLineAfter DEF b


-----------------------------------------------------------------------------
(***************************************************************************)
(* All complete lines                                                      *)
(***************************************************************************)
\* k is among what taking lines makes of g.
Leads(g, k) == \A S : g \in S /\ (\A x \in S : TakeLine(x) \in S) => k \in S

LEMMA LeadsOn ==
  /\ \A g : Leads(g, g)
  /\ \A g, k : Leads(g, k) => Leads(g, TakeLine(k))
  /\ \A g, k, l : Leads(g, k) /\ Leads(k, l) => Leads(g, l)
  BY Zenon DEF Leads

\* What leads to the end still does when a line has been taken.
LEMMA LeadsBack ==
  ASSUME NEW g, NEW k, Leads(g, k), Final(k)
  PROVE  Leads(TakeLine(g), k)
<1>1. CASE Final(g)
  BY <1>1, FinalStays
<1>2. CASE ~Final(g)
  <2> SUFFICES ASSUME NEW S, TakeLine(g) \in S, \A x \in S : TakeLine(x) \in S
               PROVE  k \in S
    BY DEF Leads
  <2> DEFINE T == S \cup {g}
  <2>1. g \in T /\ \A x \in T : TakeLine(x) \in T
    OBVIOUS
  <2> HIDE DEF T
  <2>2. k \in T
    BY <2>1 DEF Leads
  <2>3. k # g
    BY <1>2
  <2> QED
    BY <2>2, <2>3 DEF T
<1> QED
  BY <1>1, <1>2

\* What has been got of a wire that goes on with c.
Before(c) == {g \in Gots : OneTerminator(g.parser.buffer \o c)}

LEMMA BeforeStays ==
  ASSUME NEW c \in Seq(Symbols), NEW g \in Before(c)
  PROVE  TakeLine(g) \in Before(c)
<1>1. g \in Gots /\ OneTerminator(g.parser.buffer \o c) /\ <<>> \in Seq(Events)
  BY DEF Before
<1>2. CASE Final(g)
  BY <1>2, FinalStays
<1>3. CASE ~Final(g)
  BY <1>1, <1>3, TakeLineKeeps DEF Before
<1> QED
  BY <1>2, <1>3

\* There is one end.
LEMMA LeadsToOne ==
  ASSUME NEW c \in Seq(Symbols), NEW g \in Before(c), NEW k, NEW l,
         Leads(g, k), Final(k), Leads(g, l), Final(l)
  PROVE  k = l
<1>1. Leads(l, k)
  <2> DEFINE T == {x \in Before(c) : Leads(x, k)}
  <2>1. g \in T
    OBVIOUS
  <2>2. \A x \in T : TakeLine(x) \in T
    BY BeforeStays, LeadsBack
  <2> HIDE DEF T
  <2>3. l \in T
    BY <2>1, <2>2, Zenon DEF Leads
  <2> QED
    BY <2>3 DEF T
<1>2. l \in {l} /\ \A x \in {l} : TakeLine(x) \in {l}
  BY FinalStays
<1> QED
  BY <1>1, <1>2, Zenon DEF Leads

\* More to come, and events before, change nothing.
LEMMA LeadsLonger ==
  ASSUME NEW c \in Seq(Symbols), NEW g \in Before(c), NEW k, Leads(g, k)
  PROVE  Leads(Longer(g, c), Longer(k, c)) /\ k \in Before(c)
<1>1. k \in Before(c)
  BY BeforeStays, Zenon DEF Leads
<1>2. ASSUME NEW S, Longer(g, c) \in S, \A x \in S : TakeLine(x) \in S
      PROVE  Longer(k, c) \in S
  <2> DEFINE T == {x \in Before(c) : Longer(x, c) \in S}
  <2>1. g \in T
    BY <1>2
  <2>2. ASSUME NEW x \in T
        PROVE  TakeLine(x) \in T
    <3>1. CASE Final(x)
      BY <3>1, FinalStays
    <3>2. CASE ~Final(x)
      <4>1. x \in Gots /\ OneTerminator(x.parser.buffer \o c) /\ <<>> \in Seq(Events)
        BY DEF Before
      <4>2. TakeLine(Longer(x, c)) = Longer(TakeLine(x), c)
        BY <3>2, <4>1, TakeLineKeeps
      <4>3. TakeLine(x) \in Before(c)
        BY BeforeStays
      <4> QED
        BY <1>2, <4>2, <4>3
    <3> QED
      BY <3>1, <3>2
  <2> HIDE DEF T
  <2>3. k \in T
    BY <2>1, <2>2, Zenon DEF Leads
  <2> QED
    BY <2>3 DEF T
<1> QED
  BY <1>1, <1>2, Zenon DEF Leads

LEMMA LeadsAfter ==
  ASSUME NEW c \in Seq(Symbols), NEW g \in Before(c), NEW k, Leads(g, k), NEW ev \in Seq(Events)
  PROVE  Leads(AfterEvents(ev, g), AfterEvents(ev, k))
<1>1. ASSUME NEW S, AfterEvents(ev, g) \in S, \A x \in S : TakeLine(x) \in S
      PROVE  AfterEvents(ev, k) \in S
  <2> DEFINE T == {x \in Before(c) : AfterEvents(ev, x) \in S}
  <2>1. g \in T
    BY <1>1
  <2>2. ASSUME NEW x \in T
        PROVE  TakeLine(x) \in T
    <3>1. CASE Final(x)
      BY <3>1, FinalStays
    <3>2. CASE ~Final(x)
      <4>1. x \in Gots /\ OneTerminator(x.parser.buffer \o c)
        BY DEF Before
      <4>2. TakeLine(AfterEvents(ev, x)) = AfterEvents(ev, TakeLine(x))
        BY <3>2, <4>1, TakeLineKeeps
      <4>3. TakeLine(x) \in Before(c)
        BY BeforeStays
      <4> QED
        BY <1>1, <4>2, <4>3
    <3> QED
      BY <3>1, <3>2
  <2> HIDE DEF T
  <2>3. k \in T
    BY <2>1, <2>2, Zenon DEF Leads
  <2> QED
    BY <2>3 DEF T
<1> QED
  BY <1>1, Zenon DEF Leads

\* Taking lines is a run of steps ...
LEMMA TakeLinesRun ==
  ASSUME NEW p, Len(p.buffer) \in Nat
  PROVE  \E h : /\ TakeLines(p) = h[Len(p.buffer)]
                /\ h[0] = [parser |-> p, events |-> <<>>]
                /\ \A n \in 1 .. Len(p.buffer) : h[n] = TakeLine(h[n - 1])
<1> DEFINE N == Len(p.buffer)
           first == [parser |-> p, events |-> <<>>]
           Solves(f, m) == f = [n \in 0 .. m |-> IF n = 0 THEN first ELSE TakeLine(f[n - 1])]
           S == {m \in Nat : \E f : Solves(f, m)}
<1>1. 0 \in S
  <2> DEFINE f == [n \in 0 .. 0 |-> first]
  <2>1. Solves(f, 0)
    OBVIOUS
  <2> QED
    BY <2>1
<1>2. ASSUME NEW m \in 0 .. N - 1, m \in S
      PROVE  m + 1 \in S
  <2>1. PICK f : Solves(f, m)
    BY <1>2
  <2> HIDE DEF first
  <2> DEFINE g == [n \in 0 .. m + 1 |-> IF n = m + 1 THEN TakeLine(f[m]) ELSE f[n]]
  <2>2. \A n \in 0 .. m : g[n] = f[n]
    OBVIOUS
  <2>3. \A n \in 0 .. m : f[n] = IF n = 0 THEN first ELSE TakeLine(f[n - 1])
    BY <2>1
  <2>4. \A n \in 0 .. m + 1 : g[n] = IF n = 0 THEN first ELSE TakeLine(g[n - 1])
    <3> SUFFICES ASSUME NEW n \in 0 .. m + 1
                 PROVE  g[n] = IF n = 0 THEN first ELSE TakeLine(g[n - 1])
      OBVIOUS
    <3>1. CASE n = m + 1
      <4>1. n # 0 /\ n - 1 = m
        BY <3>1
      <4> QED
        BY <3>1, <4>1, <2>2
    <3>2. CASE n = 0
      BY <3>2, <2>2, <2>3
    <3>3. CASE n \in 1 .. m
      BY <3>3, <2>2, <2>3
    <3> QED
      BY <3>1, <3>2, <3>3
  <2>5. Solves(g, m + 1)
    BY <2>4
  <2>6. m + 1 \in Nat
    OBVIOUS
  <2> HIDE DEF g, Solves
  <2> QED
    BY <2>5, <2>6
<1>3. \E f : Solves(f, N)
  <2> HIDE DEF S
  <2>1. N \in S
    <3>1. N \in Nat /\ N \in 0 .. N
      OBVIOUS
    <3> HIDE DEF N
    <3> QED
      BY <3>1, <1>1, <1>2, Upward
  <2> QED
    BY <2>1 DEF S
<1> DEFINE h == CHOOSE f : Solves(f, N)
<1>4. Solves(h, N)
  BY <1>3
<1>5. TakeLines(p) = h[N]
  BY DEF TakeLines
<1> HIDE DEF h, first
<1>6. h[0] = first /\ \A n \in 1 .. N : h[n] = TakeLine(h[n - 1])
  BY <1>4
<1> QED
  BY <1>5, <1>6 DEF first


\* ... that ends where nothing is left to take.
LEMMA EmptyIsFinal ==
  ASSUME NEW b, b = <<>>
  PROVE  FindLineEnd(b) = NoLine
<1>1. b \in Seq(Symbols) /\ Len(b) = 0
  OBVIOUS
<1>2. /\ Finds(b, <<CR>>) = {i \in 1 .. Len(b) : b[i] = CR}
      /\ Finds(b, <<LF>>) = {i \in 1 .. Len(b) : b[i] = LF}
      /\ Finds(b, <<CR, LF>>) = {i \in 1 .. Len(b) - 1 : b[i] = CR /\ b[i + 1] = LF}
  BY <1>1, FindsIs
<1>3. (\A i : i \notin 1 .. 0) /\ (\A i : i \notin 1 .. 0 - 1)
  OBVIOUS
<1>4. Finds(b, <<CR>>) = {} /\ Finds(b, <<LF>>) = {} /\ Finds(b, <<CR, LF>>) = {}
  BY <1>1, <1>2, <1>3
<1> QED
  BY <1>4 DEF FindLineEnd

Nothing(p) == [parser |-> p, events |-> <<>>]

LEMMA TakeLinesIs ==
  ASSUME NEW c \in Seq(Symbols), NEW p \in Parsers, OneTerminator(p.buffer \o c)
  PROVE  /\ Nothing(p) \in Before(c)
         /\ Leads(Nothing(p), TakeLines(p))
         /\ TakeLines(p) \in Before(c)
         /\ Final(TakeLines(p))
<1> DEFINE N == Len(p.buffer)
<1>1. p.buffer \in Seq(Symbols) /\ N \in Nat
  <2>1. p.buffer \in Seq(Symbols)
    BY DEF Parsers
  <2> QED
    BY <2>1
<1>2. PICK h : /\ TakeLines(p) = h[N]
               /\ h[0] = Nothing(p)
               /\ \A n \in 1 .. N : h[n] = TakeLine(h[n - 1])
  BY <1>1, TakeLinesRun DEF Nothing
<1>3. Nothing(p) \in Before(c)
  <2>1. <<>> \in Seq(Events)
    OBVIOUS
  <2> QED
    BY <2>1 DEF Nothing, Before, Gots
<1> HIDE DEF N
<1> DEFINE Good(n) == /\ Leads(Nothing(p), h[n]) /\ h[n] \in Before(c)
                      /\ Final(h[n]) \/ Len(h[n].parser.buffer) <= N - n
           S == {n \in 0 .. N : Good(n)}
<1>4. Good(0)
  <2>1. Nothing(p).parser.buffer = p.buffer /\ Len(p.buffer) <= N - 0
    BY <1>1 DEF Nothing, N
  <2> QED
    BY <1>2, <1>3, <2>1, LeadsOn
<1>5. ASSUME NEW n \in 0 .. N - 1, Good(n)
      PROVE  Good(n + 1)
  <2> DEFINE m == n + 1
  <2>1. m \in 1 .. N /\ m - 1 = n
    BY <1>1
  <2> HIDE DEF m
  <2>2. h[m] = TakeLine(h[n])
    BY <1>2, <2>1
  <2>3. Leads(Nothing(p), h[m])
    BY <1>5, <2>2, LeadsOn
  <2>4. h[m] \in Before(c)
    BY <1>5, <2>2, BeforeStays
  <2>5. Final(h[m]) \/ Len(h[m].parser.buffer) <= N - m
    <3>1. CASE Final(h[n])
      BY <3>1, <2>2, FinalStays
    <3>2. CASE ~Final(h[n])
      <4>1. h[n] \in Gots /\ OneTerminator(h[n].parser.buffer \o c) /\ <<>> \in Seq(Events)
        BY <1>5 DEF Before
      <4>2. h[m] \in Gots /\ Len(h[m].parser.buffer) < Len(h[n].parser.buffer)
        BY <2>2, <3>2, <4>1, TakeLineKeeps
      <4> DEFINE x == Len(h[m].parser.buffer)
                 y == Len(h[n].parser.buffer)
      <4>3. x \in Nat /\ y \in Nat
        <5>1. h[m].parser.buffer \in Seq(Symbols) /\ h[n].parser.buffer \in Seq(Symbols)
          BY <4>1, <4>2 DEF Gots, Parsers
        <5> QED
          BY <5>1, SMTT(20)
      <4>4. x < y /\ y <= N - n
        BY <1>5, <3>2, <4>2
      <4> HIDE DEF x, y
      <4>5. x <= N - m
        BY <1>1, <2>1, <4>3, <4>4
      <4> QED
        BY <4>5 DEF x
    <3> QED
      BY <3>1, <3>2
  <2>6. Good(m)
    BY <2>3, <2>4, <2>5
  <2> QED
    BY <2>6 DEF m
<1>6. Good(N)
  <2> HIDE DEF Good
  <2>1. 0 \in S /\ \A n \in 0 .. N - 1 : n \in S => n + 1 \in S
    BY <1>1, <1>4, <1>5
  <2> HIDE DEF S
  <2>2. N \in S
    <3>1. N \in Nat /\ N \in 0 .. N
      BY <1>1
    <3>2. 0 \in S
      BY <2>1
    <3>3. \A n \in 0 .. N - 1 : n \in S => n + 1 \in S
      BY <2>1
    <3> QED
      BY <3>1, <3>2, <3>3, Upward
  <2> QED
    BY <2>2 DEF S
<1>7. Final(h[N])
  <2> SUFFICES ASSUME Len(h[N].parser.buffer) <= N - N PROVE FALSE \/ Final(h[N])
    BY <1>6
  <2> DEFINE b == h[N].parser.buffer
  <2>1. b \in Seq(Symbols) /\ Len(b) <= N - N
    BY <1>6 DEF Before, Gots, Parsers
  <2> HIDE DEF b
  <2>2. b = <<>>
    BY <1>1, <2>1
  <2> QED
    BY <2>2, EmptyIsFinal DEF Final, b
<1> QED
  BY <1>2, <1>3, <1>6, <1>7

\* A parser that more has come to.
Fed(p, c) == [buffer |-> p.buffer \o c, event |-> p.event, data |-> p.data]

LEMMA FedIs ==
  ASSUME NEW p \in Parsers, NEW c \in Seq(Symbols)
  PROVE  /\ Fed(p, c) \in Parsers /\ Fed(p, c).buffer = p.buffer \o c
         /\ ParserFeed(p, c) = TakeLines(Fed(p, c))
<1> DEFINE b == p.buffer \o c
<1>1. b \in Seq(Symbols) /\ p.event \in Values /\ p.data \in Seq(Values)
  <2>1. p.buffer \in Seq(Symbols) /\ p.event \in Values /\ p.data \in Seq(Values)
    BY DEF Parsers
  <2> QED
    BY <2>1
<1>2. ParserFeed(p, c) = TakeLines([p EXCEPT !.buffer = b])
  BY DEF ParserFeed
<1> HIDE DEF b
<1>3. [p EXCEPT !.buffer = b] = [buffer |-> b, event |-> p.event, data |-> p.data]
  BY <1>1 DEF Parsers
<1>4. Fed(p, c) = [buffer |-> b, event |-> p.event, data |-> p.data]
  BY DEF Fed, b
<1>5. Fed(p, c) \in Parsers /\ Fed(p, c).buffer = b
  BY <1>1, <1>4 DEF Parsers
<1> QED
  BY <1>2, <1>3, <1>4, <1>5 DEF b

LEMMA NewParserIs ==
  NewParser \in Parsers /\ NewParser.buffer = <<>>
<1>1. <<>> \in Seq(Symbols) /\ <<>> \in Seq(Values) /\ NoName \in Values
  BY DEF Values
<1> QED
  BY <1>1 DEF NewParser, Parsers

\* THE CHUNK LEMMA (sse.py, SSEParser.feed): feeding two chunks gives the parser
\* and the events that feeding both at once gives.
LEMMA ChunksJoin ==
  ASSUME NEW p \in Parsers, NEW x \in Seq(Symbols), NEW y \in Seq(Symbols),
         OneTerminator((p.buffer \o x) \o y)
  PROVE  LET one == ParserFeed(p, x)
             two == ParserFeed(one.parser, y)
         IN  /\ one.parser \in Parsers /\ one.events \in Seq(Events)
             /\ OneTerminator(one.parser.buffer \o y)
             /\ two.parser \in Parsers /\ two.events \in Seq(Events)
             /\ ParserFeed(p, x \o y) = [parser |-> two.parser, events |-> one.events \o two.events]
<1> DEFINE one == ParserFeed(p, x)
           two == ParserFeed(one.parser, y)
           px  == Fed(p, x)
           q   == Fed(one.parser, y)
           pxy == Fed(p, x \o y)
           non == <<>>
<1>0. non \in Seq(Symbols) /\ non \in Seq(Events) /\ (\A b \in Seq(Symbols) : b \o non = b)
      /\ (\A e \in Seq(Events) : e \o non = e)
  OBVIOUS
<1>1. px \in Parsers /\ px.buffer = p.buffer \o x /\ one = TakeLines(px)
  BY FedIs
<1> HIDE DEF one, px
<1>2. Nothing(px) \in Before(y) /\ Leads(Nothing(px), one) /\ one \in Before(y) /\ Final(one)
  BY <1>1, TakeLinesIs
<1>3. one \in Gots /\ one.parser \in Parsers /\ one.events \in Seq(Events) /\ OneTerminator(one.parser.buffer \o y)
      /\ one = [parser |-> one.parser, events |-> one.events]
  BY <1>2 DEF Before, Gots
<1>4. q \in Parsers /\ q.buffer = one.parser.buffer \o y /\ two = TakeLines(q)
  BY <1>3, FedIs
<1> HIDE DEF two
<1>5. OneTerminator(q.buffer \o non)
  <2>1. q.buffer \in Seq(Symbols)
    BY <1>4 DEF Parsers
  <2> QED
    BY <1>0, <1>3, <1>4, <2>1
<1>6. Nothing(q) \in Before(non) /\ Leads(Nothing(q), two) /\ two \in Before(non) /\ Final(two)
  BY <1>0, <1>4, <1>5, TakeLinesIs
<1>7. two \in Gots /\ two.parser \in Parsers /\ two.events \in Seq(Events)
  BY <1>6 DEF Before, Gots
<1>8. pxy \in Parsers /\ pxy = Fed(px, y) /\ ParserFeed(p, x \o y) = TakeLines(pxy)
      /\ OneTerminator(pxy.buffer \o non)
  <2>1. x \o y \in Seq(Symbols) /\ p.buffer \in Seq(Symbols)
    BY DEF Parsers
  <2>2. pxy \in Parsers /\ pxy.buffer = p.buffer \o (x \o y) /\ ParserFeed(p, x \o y) = TakeLines(pxy)
    BY <2>1, FedIs
  <2>3. (p.buffer \o x) \o y = p.buffer \o (x \o y)
    <3> DEFINE b == p.buffer
    <3> HIDE DEF b
    <3>1. b \in Seq(Symbols)
      BY <2>1 DEF b
    <3>2. (b \o x) \o y = b \o (x \o y)
      BY <3>1, Associates
    <3> QED
      BY <3>2, Zenon DEF b
  <2>4. pxy = Fed(px, y)
    BY <2>3, Zenon DEF Fed, px
  <2>5. pxy.buffer \in Seq(Symbols)
    BY <2>2 DEF Parsers
  <2> HIDE DEF pxy
  <2>6. OneTerminator(pxy.buffer \o non)
    BY <1>0, <2>2, <2>3, <2>5
  <2> QED
    BY <2>2, <2>4, <2>6
<1> HIDE DEF pxy
<1> DEFINE all == TakeLines(pxy)
<1>9. Nothing(pxy) \in Before(non) /\ Leads(Nothing(pxy), all) /\ all \in Before(non) /\ Final(all)
  BY <1>0, <1>8, TakeLinesIs
<1>10. Leads(Nothing(pxy), Longer(one, y))
  <2>1. Leads(Longer(Nothing(px), y), Longer(one, y))
    BY <1>2, LeadsLonger
  <2>2. Longer(Nothing(px), y) = Nothing(pxy)
    BY <1>8 DEF Longer, Nothing, Fed
  <2> QED
    BY <2>1, <2>2
<1>11. Leads(Longer(one, y), AfterEvents(one.events, two))
  <2>1. Leads(AfterEvents(one.events, Nothing(q)), AfterEvents(one.events, two))
    BY <1>0, <1>3, <1>6, LeadsAfter
  <2>2. AfterEvents(one.events, Nothing(q)) = [parser |-> q, events |-> one.events \o <<>>]
    BY DEF AfterEvents, Nothing
  <2>3. one.events \o <<>> = one.events
    BY <1>0, <1>3
  <2>4. Longer(one, y) = [parser |-> q, events |-> one.events]
    BY DEF Longer, q, Fed
  <2> QED
    BY <2>1, <2>2, <2>3, <2>4
<1>12. Leads(Nothing(pxy), AfterEvents(one.events, two))
  BY <1>10, <1>11, LeadsOn
<1>13. Final(AfterEvents(one.events, two))
  BY <1>6 DEF AfterEvents, Final
<1>14. all = AfterEvents(one.events, two)
  BY <1>0, <1>9, <1>12, <1>13, LeadsToOne
<1> QED
  BY <1>3, <1>7, <1>8, <1>14 DEF AfterEvents, one, two


-----------------------------------------------------------------------------
(***************************************************************************)
(* What the relay keeps                                                    *)
(***************************************************************************)
Fields == {"redactor", "rebuild", "sent", "handled", "raised"}

\* A relay, and one that has handled the same, both in one piece.
IsRelay(r)     == DOMAIN r = Fields /\ \E S : r.sent \in Seq(S)
SameSoFar(q, r) == IsRelay(q) /\ q.handled = r.handled /\ q.raised = r.raised

LEMMA AppendIs ==
  ASSUME NEW S, NEW s \in Seq(S), NEW x
  PROVE  /\ Append(s, x) \in Seq(S \cup {x})
         /\ Append(s, x) # <<>> /\ Last(Append(s, x)) = x
<1> DEFINE T == S \cup {x}
           a == Append(s, x)
<1>1. s \in Seq(T) /\ x \in T
  <2>1. S \subseteq T
    OBVIOUS
  <2> QED
    BY <2>1, SeqMonotonic
<1> HIDE DEF T
<1>2. a \in Seq(T) /\ Len(a) = Len(s) + 1 /\ a[Len(s) + 1] = x /\ Len(s) \in Nat
  BY <1>1
<1> HIDE DEF a
<1>3. a # <<>> /\ a[Len(a)] = x
  BY <1>2
<1> QED
  BY <1>2, <1>3 DEF T, a, Last

LEMMA SendKeeps ==
  ASSUME NEW r, IsRelay(r), NEW p
  PROVE  /\ SameSoFar(Send(r, p), r)
         /\ Send(r, p).sent # <<>> /\ Last(Send(r, p).sent) = p
<1> DEFINE a == Append(r.sent, p)
<1>1. PICK S : r.sent \in Seq(S)
  BY DEF IsRelay
<1>2. a \in Seq(S \cup {p}) /\ a # <<>> /\ Last(a) = p
  BY <1>1, AppendIs
<1>3. Send(r, p) = [r EXCEPT !.sent = a]
  BY DEF Send
<1> HIDE DEF a
<1>4. /\ DOMAIN Send(r, p) = Fields /\ Send(r, p).sent = a
      /\ Send(r, p).handled = r.handled /\ Send(r, p).raised = r.raised
  BY <1>3 DEF IsRelay, Fields
<1> QED
  BY <1>2, <1>4 DEF IsRelay, SameSoFar

\* A redactor and a template may change.
LEMMA RemembersKeeps ==
  ASSUME NEW r, IsRelay(r), NEW key, NEW d, NEW l, NEW t
  PROVE  /\ SameSoFar([r EXCEPT !.redactor[key] = d], r)
         /\ SameSoFar([r EXCEPT !.redactor[key] = d, !.rebuild[l] = t], r)
<1> DEFINE q == [r EXCEPT !.redactor[key] = d]
           s == [r EXCEPT !.redactor[key] = d, !.rebuild[l] = t]
<1>1. DOMAIN q = Fields /\ q.sent = r.sent /\ q.handled = r.handled /\ q.raised = r.raised
  BY DEF IsRelay, Fields
<1>2. DOMAIN s = Fields /\ s.sent = r.sent /\ s.handled = r.handled /\ s.raised = r.raised
  BY DEF IsRelay, Fields
<1> HIDE DEF q, s
<1>3. SameSoFar(q, r) /\ SameSoFar(s, r)
  BY <1>1, <1>2 DEF IsRelay, SameSoFar
<1> QED
  BY <1>3 DEF q, s

LEMMA FlushOneKeeps ==
  ASSUME NEW r, IsRelay(r), NEW key
  PROVE  SameSoFar(FlushOne(r, key), r)
<1> DEFINE q == [r EXCEPT !.redactor[key] = Fresh]
           text == Flush(r.redactor[key]).out
<1>1. SameSoFar(q, r)
  BY RemembersKeeps
<1>2. FlushOne(r, key) = IF text = <<>> THEN q ELSE Send(q, Rebuilt(q.rebuild[key], text))
  BY DEF FlushOne, Flushed
<1> HIDE DEF q, text
<1>3. SameSoFar(Send(q, Rebuilt(q.rebuild[key], text)), q)
  BY <1>1, SendKeeps DEF SameSoFar
<1> QED
  BY <1>1, <1>2, <1>3 DEF SameSoFar

LEMMA FlushAllKeeps ==
  ASSUME NEW r, IsRelay(r)
  PROVE  SameSoFar(FlushAll(r), r)
<1> DEFINE N == Len(FlushOrder)
           Solves(f, m) == f = [n \in 0 .. m |-> IF n = 0 THEN r ELSE FlushOne(f[n - 1], FlushOrder[n])]
           S == {m \in Nat : \E f : Solves(f, m)}
<1>0. N \in Nat
  BY DEF FlushOrder
<1>1. 0 \in S
  <2> DEFINE f == [n \in 0 .. 0 |-> r]
  <2>1. Solves(f, 0)
    OBVIOUS
  <2> QED
    BY <2>1
<1>2. ASSUME NEW m \in 0 .. N - 1, m \in S
      PROVE  m + 1 \in S
  <2>1. PICK f : Solves(f, m)
    BY <1>2
  <2> DEFINE g == [n \in 0 .. m + 1 |-> IF n = m + 1 THEN FlushOne(f[m], FlushOrder[n]) ELSE f[n]]
  <2>2. \A n \in 0 .. m : g[n] = f[n]
    OBVIOUS
  <2>3. \A n \in 0 .. m : f[n] = IF n = 0 THEN r ELSE FlushOne(f[n - 1], FlushOrder[n])
    BY <2>1
  <2>4. \A n \in 0 .. m + 1 : g[n] = IF n = 0 THEN r ELSE FlushOne(g[n - 1], FlushOrder[n])
    <3> SUFFICES ASSUME NEW n \in 0 .. m + 1
                 PROVE  g[n] = IF n = 0 THEN r ELSE FlushOne(g[n - 1], FlushOrder[n])
      OBVIOUS
    <3>1. CASE n = m + 1
      <4>1. n # 0 /\ n - 1 = m
        BY <3>1
      <4> QED
        BY <3>1, <4>1, <2>2
    <3>2. CASE n = 0
      BY <3>2, <2>2, <2>3
    <3>3. CASE n \in 1 .. m
      BY <3>3, <2>2, <2>3
    <3> QED
      BY <3>1, <3>2, <3>3
  <2>5. Solves(g, m + 1)
    BY <2>4
  <2>6. m + 1 \in Nat
    OBVIOUS
  <2> HIDE DEF g, Solves
  <2> QED
    BY <2>5, <2>6
<1>3. \E f : Solves(f, N)
  <2> HIDE DEF S
  <2>1. N \in S
    <3>1. N \in Nat /\ N \in 0 .. N
      BY <1>0
    <3> HIDE DEF N
    <3> QED
      BY <3>1, <1>1, <1>2, Upward
  <2> QED
    BY <2>1 DEF S
<1> DEFINE h == CHOOSE f : Solves(f, N)
<1>4. Solves(h, N)
  BY <1>3
<1>5. FlushAll(r) = h[N]
  BY DEF FlushAll
<1> HIDE DEF h, N
<1>6. \A n \in 0 .. N : h[n] = IF n = 0 THEN r ELSE FlushOne(h[n - 1], FlushOrder[n])
  BY <1>4
<1> DEFINE T == {n \in 0 .. N : SameSoFar(h[n], r)}
<1>7. 0 \in T
  BY <1>0, <1>6 DEF SameSoFar
<1>8. ASSUME NEW n \in 0 .. N - 1, n \in T
      PROVE  n + 1 \in T
  <2> DEFINE m == n + 1
  <2>1. m \in 0 .. N /\ m # 0 /\ m - 1 = n
    BY <1>0
  <2> HIDE DEF m
  <2>2. h[m] = FlushOne(h[n], FlushOrder[m])
    BY <1>6, <2>1
  <2>3. SameSoFar(h[m], h[n])
    BY <1>8, <2>2, FlushOneKeeps DEF SameSoFar
  <2>4. m \in T
    BY <1>8, <2>1, <2>3 DEF SameSoFar
  <2> QED
    BY <2>4 DEF m
<1>9. N \in T
  <2> HIDE DEF T
  <2>1. N \in 0 .. N
    BY <1>0
  <2> QED
    BY <1>0, <1>7, <1>8, <2>1, Upward
<1> QED
  BY <1>5, <1>9


LEMMA LocatesSome ==
  ASSUME NEW p
  PROVE  Len(LocateTexts(p)) \in Nat
<1> DEFINE a == Located(TextKey[p.index], "delta")
           b == Located(JsonKey[p.index], "delta")
           c == Located(MAIN_TEXT, "choice0")
           d == Located("openai:0", "choice0")
           e == Located("openai:1", "choice1")
           X == {a, b, c, d, e}
<1>1. PICK x, y, z : /\ LocateTexts(p) = IF p.dict THEN (x \o y) \o z ELSE <<>>
                     /\ x \in {<<a>>, <<b>>, <<>>} /\ y \in {<<c>>, <<d>>, <<>>} /\ z \in {<<e>>, <<>>}
  <2> DEFINE x == IF "delta" \in DOMAIN p.texts /\ p.type = "text_delta" THEN <<a>>
                  ELSE IF "delta" \in DOMAIN p.texts /\ p.type = "input_json_delta" THEN <<b>>
                  ELSE <<>>
             y == IF "choice0" \in DOMAIN p.texts
                    THEN <<Located(IF x = <<>> THEN MAIN_TEXT ELSE "openai:0", "choice0")>> ELSE <<>>
             z == IF "choice1" \in DOMAIN p.texts THEN <<e>> ELSE <<>>
  <2>1. LocateTexts(p) = IF p.dict THEN (x \o y) \o z ELSE <<>>
    BY DEF LocateTexts
  <2>2. x \in {<<a>>, <<b>>, <<>>} /\ z \in {<<e>>, <<>>}
    <3> HIDE DEF a, b, e
    <3> QED
      OBVIOUS
  <2>3. y \in {<<c>>, <<d>>, <<>>}
    <3> HIDE DEF x
    <3> QED
      OBVIOUS
  <2> HIDE DEF x, y, z
  <2> QED
    BY <2>1, <2>2, <2>3
<1> HIDE DEF a, b, c, d, e
<1>2. x \in Seq(X) /\ y \in Seq(X) /\ z \in Seq(X)
  <2>1. a \in X /\ b \in X /\ c \in X /\ d \in X /\ e \in X
    OBVIOUS
  <2> HIDE DEF X
  <2>2. /\ <<a>> \in Seq(X) /\ <<b>> \in Seq(X) /\ <<c>> \in Seq(X) /\ <<d>> \in Seq(X)
        /\ <<e>> \in Seq(X) /\ <<>> \in Seq(X)
    BY <2>1
  <2> QED
    BY <1>1, <2>2
<1> HIDE DEF X
<1>3. (x \o y) \o z \in Seq(X) /\ <<>> \in Seq(X)
  BY <1>2
<1>4. LocateTexts(p) \in Seq(X)
  BY <1>1, <1>3
<1> QED
  BY <1>4

LEMMA TextDeltaKeeps ==
  ASSUME NEW r, IsRelay(r), NEW p
  PROVE  SameSoFar(TextDelta(r, p), r)
<1> DEFINE N == Len(LocateTexts(p))
           first == [relay |-> r, updated |-> p, released |-> FALSE]
           Solves(f, m) == f = [n \in 0 .. m |-> IF n = 0 THEN first ELSE FeedLocated(f[n - 1], LocateTexts(p)[n], p)]
           S == {m \in Nat : \E f : Solves(f, m)}
<1>1. 0 \in S
  <2> DEFINE f == [n \in 0 .. 0 |-> first]
  <2>1. Solves(f, 0)
    OBVIOUS
  <2> QED
    BY <2>1
<1>2. ASSUME NEW m \in 0 .. N - 1, m \in S
      PROVE  m + 1 \in S
  <2>1. PICK f : Solves(f, m)
    BY <1>2
  <2> HIDE DEF first
  <2> DEFINE g == [n \in 0 .. m + 1 |-> IF n = m + 1 THEN FeedLocated(f[m], LocateTexts(p)[n], p) ELSE f[n]]
  <2>2. \A n \in 0 .. m : g[n] = f[n]
    OBVIOUS
  <2>3. \A n \in 0 .. m : f[n] = IF n = 0 THEN first ELSE FeedLocated(f[n - 1], LocateTexts(p)[n], p)
    BY <2>1
  <2>4. \A n \in 0 .. m + 1 : g[n] = IF n = 0 THEN first ELSE FeedLocated(g[n - 1], LocateTexts(p)[n], p)
    <3> SUFFICES ASSUME NEW n \in 0 .. m + 1
                 PROVE  g[n] = IF n = 0 THEN first ELSE FeedLocated(g[n - 1], LocateTexts(p)[n], p)
      OBVIOUS
    <3>1. CASE n = m + 1
      <4>1. n # 0 /\ n - 1 = m
        BY <3>1
      <4> QED
        BY <3>1, <4>1, <2>2
    <3>2. CASE n = 0
      BY <3>2, <2>2, <2>3
    <3>3. CASE n \in 1 .. m
      BY <3>3, <2>2, <2>3
    <3> QED
      BY <3>1, <3>2, <3>3
  <2>5. Solves(g, m + 1)
    BY <2>4
  <2>6. m + 1 \in Nat
    OBVIOUS
  <2> HIDE DEF g, Solves
  <2> QED
    BY <2>5, <2>6
<1>3. \E f : Solves(f, N)
  <2> HIDE DEF S
  <2>1. N \in S
    <3>1. N \in Nat /\ N \in 0 .. N
      BY LocatesSome
    <3> HIDE DEF N
    <3> QED
      BY <3>1, <1>1, <1>2, Upward
  <2> QED
    BY <2>1 DEF S
<1> DEFINE h == CHOOSE f : Solves(f, N)
<1>4. Solves(h, N)
  BY <1>3
<1>5. TextDelta(r, p) = SendReleased(h[N])
  BY DEF TextDelta
<1> HIDE DEF h, N, first
<1>6. \A n \in 0 .. N : h[n] = IF n = 0 THEN first ELSE FeedLocated(h[n - 1], LocateTexts(p)[n], p)
  BY <1>4
<1>0. N \in Nat
  BY LocatesSome DEF N
<1> DEFINE T == {n \in 0 .. N : SameSoFar(h[n].relay, r)}
<1>7. 0 \in T
  <2>1. first.relay = r
    BY DEF first
  <2> QED
    BY <1>0, <1>6, <2>1 DEF SameSoFar
<1>8. ASSUME NEW n \in 0 .. N - 1, n \in T
      PROVE  n + 1 \in T
  <2> DEFINE m == n + 1
             text == LocateTexts(p)[m]
  <2>1. m \in 0 .. N /\ m # 0 /\ m - 1 = n
    BY <1>0
  <2> HIDE DEF m
  <2>2. h[m] = FeedLocated(h[n], text, p)
    BY <1>6, <2>1
  <2> HIDE DEF text
  <2> DEFINE q    == h[n].relay
             said == Feed(q.redactor[text.key], p.texts[text.path]).next
             t    == [payload |-> p, path |-> text.path]
  <2>3. h[m].relay = [q EXCEPT !.redactor[text.key] = said, !.rebuild[text.key] = t]
    BY <2>2 DEF FeedLocated, Rewritten
  <2> HIDE DEF said, t
  <2>4. SameSoFar(q, r)
    BY <1>8
  <2> HIDE DEF q
  <2>5. SameSoFar(h[m].relay, q)
    <3>1. IsRelay(q)
      BY <2>4 DEF SameSoFar
    <3>2. SameSoFar([q EXCEPT !.redactor[text.key] = said, !.rebuild[text.key] = t], q)
      BY <3>1, RemembersKeeps, Zenon
    <3> QED
      BY <2>3, <3>2, Zenon
  <2>6. m \in T
    BY <2>1, <2>4, <2>5 DEF SameSoFar
  <2> QED
    BY <2>6 DEF m
<1>9. SameSoFar(h[N].relay, r)
  <2>1. N \in T
    <3> HIDE DEF T
    <3>1. N \in 0 .. N
      BY <1>0
    <3> QED
      BY <1>0, <1>7, <1>8, <3>1, Upward
  <2> QED
    BY <2>1
<1> DEFINE all == h[N]
<1>10. SameSoFar(Send(all.relay, all.updated), r)
  BY <1>9, SendKeeps DEF SameSoFar
<1>11. SendReleased(all) = all.relay \/ SendReleased(all) = Send(all.relay, all.updated)
  BY DEF SendReleased
<1> QED
  BY <1>5, <1>9, <1>10, <1>11

LEMMA HandledKeeps ==
  ASSUME NEW r, IsRelay(r), NEW event
  PROVE  SameSoFar(Handled(r, event), r)
<1> DEFINE p == PayloadOf(event)
<1>1. SameSoFar(r, r)
  BY DEF SameSoFar
<1>2. \A q, x : SameSoFar(q, r) => SameSoFar(Send(q, x), r)
  BY SendKeeps DEF SameSoFar
<1>3. SameSoFar(FlushAll(r), r) /\ SameSoFar(TextDelta(r, p), r)
  BY FlushAllKeeps, TextDeltaKeeps
<1>4. SameSoFar(Thinking(r, p), r)
  BY <1>1, <1>2 DEF Thinking
<1>5. \A q : SameSoFar(q, r) => SameSoFar(SendUnrecognised(q, p), r)
  BY <1>2 DEF SendUnrecognised
<1>6. \A stops : SameSoFar(Unrecognised(r, p, stops), r)
  BY <1>1, <1>3, <1>5 DEF Unrecognised
<1> QED
  BY <1>1, <1>2, <1>3, <1>4, <1>6 DEF Handled

\* One event is handled, or the relay has raised.
LEMMA HandleOneIs ==
  ASSUME NEW r, IsRelay(r), NEW event
  PROVE  /\ IsRelay(HandleOne(r, event))
         /\ \/ /\ HandleOne(r, event).raised = TRUE
               /\ HandleOne(r, event).handled = r.handled
            \/ /\ HandleOne(r, event).raised = r.raised /\ ~r.raised
               /\ HandleOne(r, event).handled = Append(r.handled, event)
<1>1. CASE r.raised \/ Raises(event)
  <2> DEFINE q == [r EXCEPT !.raised = TRUE]
  <2>1. HandleOne(r, event) = q
    BY <1>1 DEF HandleOne
  <2>2. DOMAIN q = Fields /\ q.sent = r.sent /\ q.handled = r.handled /\ q.raised = TRUE
    BY DEF IsRelay, Fields
  <2> HIDE DEF q
  <2> QED
    BY <2>1, <2>2 DEF IsRelay
<1>2. CASE ~(r.raised \/ Raises(event))
  <2> DEFINE s == Handled(r, event)
             q == [s EXCEPT !.handled = Append(@, event)]
             a == Append(s.handled, event)
  <2>1. HandleOne(r, event) = q
    BY <1>2 DEF HandleOne
  <2>2. SameSoFar(s, r)
    BY HandledKeeps
  <2> HIDE DEF s
  <2>3. q = [s EXCEPT !.handled = a]
    OBVIOUS
  <2> HIDE DEF a, q
  <2>4. DOMAIN q = Fields /\ q.sent = s.sent /\ q.handled = a /\ q.raised = s.raised
    BY <2>2, <2>3 DEF IsRelay, SameSoFar, Fields
  <2> QED
    BY <1>2, <2>1, <2>2, <2>4 DEF IsRelay, SameSoFar, a
<1> QED
  BY <1>1, <1>2

\* THE RELAY LEMMA (stream.py, the loop over events): what has been handled grows
\* by a beginning of the events, all of them unless one raised.
LEMMA HandleAllIs ==
  ASSUME NEW r, IsRelay(r), r.raised = FALSE, r.handled \in Seq(Events), NEW events \in Seq(Events)
  PROVE  LET after == HandleAll(r, events)
         IN  /\ IsRelay(after)
             /\ \E m \in 0 .. Len(events) :
                   /\ after.handled = r.handled \o SubSeq(events, 1, m)
                   /\ ~after.raised => m = Len(events) /\ after.raised = FALSE
<1> DEFINE N == Len(events)
           Solves(f, m) == f = [n \in 0 .. m |-> IF n = 0 THEN r ELSE HandleOne(f[n - 1], events[n])]
           S == {m \in Nat : \E f : Solves(f, m)}
<1>1. 0 \in S
  <2> DEFINE f == [n \in 0 .. 0 |-> r]
  <2>1. Solves(f, 0)
    OBVIOUS
  <2> QED
    BY <2>1
<1>2. ASSUME NEW m \in 0 .. N - 1, m \in S
      PROVE  m + 1 \in S
  <2>1. PICK f : Solves(f, m)
    BY <1>2
  <2> DEFINE g == [n \in 0 .. m + 1 |-> IF n = m + 1 THEN HandleOne(f[m], events[n]) ELSE f[n]]
  <2>2. \A n \in 0 .. m : g[n] = f[n]
    OBVIOUS
  <2>3. \A n \in 0 .. m : f[n] = IF n = 0 THEN r ELSE HandleOne(f[n - 1], events[n])
    BY <2>1
  <2>4. \A n \in 0 .. m + 1 : g[n] = IF n = 0 THEN r ELSE HandleOne(g[n - 1], events[n])
    <3> SUFFICES ASSUME NEW n \in 0 .. m + 1
                 PROVE  g[n] = IF n = 0 THEN r ELSE HandleOne(g[n - 1], events[n])
      OBVIOUS
    <3>1. CASE n = m + 1
      <4>1. n # 0 /\ n - 1 = m
        BY <3>1
      <4> QED
        BY <3>1, <4>1, <2>2
    <3>2. CASE n = 0
      BY <3>2, <2>2, <2>3
    <3>3. CASE n \in 1 .. m
      BY <3>3, <2>2, <2>3
    <3> QED
      BY <3>1, <3>2, <3>3
  <2>5. Solves(g, m + 1)
    BY <2>4
  <2>6. m + 1 \in Nat
    OBVIOUS
  <2> HIDE DEF g, Solves
  <2> QED
    BY <2>5, <2>6
<1>3. \E f : Solves(f, N)
  <2> HIDE DEF S
  <2>1. N \in S
    <3>1. N \in Nat /\ N \in 0 .. N
      OBVIOUS
    <3> HIDE DEF N
    <3> QED
      BY <3>1, <1>1, <1>2, Upward
  <2> QED
    BY <2>1 DEF S
<1> DEFINE h == CHOOSE f : Solves(f, N)
<1>4. Solves(h, N)
  BY <1>3
<1>5. HandleAll(r, events) = h[N]
  BY DEF HandleAll
<1> HIDE DEF h, N
<1>6. \A n \in 0 .. N : h[n] = IF n = 0 THEN r ELSE HandleOne(h[n - 1], events[n])
  BY <1>4
<1>0. N \in Nat
  BY DEF N
<1> DEFINE Part(m) == r.handled \o SubSeq(events, 1, m)
           Good(n) == /\ IsRelay(h[n])
                      /\ \E m \in 0 .. n : /\ h[n].handled = Part(m)
                                           /\ ~h[n].raised => m = n /\ h[n].raised = FALSE
           T == {n \in 0 .. N : Good(n)}
<1>7. Good(0)
  <2>1. Part(0) = r.handled
    <3>1. SubSeq(events, 1, 0) = <<>>
      OBVIOUS
    <3>2. r.handled \o <<>> = r.handled
      OBVIOUS
    <3> QED
      BY <3>1, <3>2
  <2> HIDE DEF Part
  <2>2. h[0] = r
    BY <1>0, <1>6
  <2> QED
    BY <2>1, <2>2
<1>8. ASSUME NEW n \in 0 .. N - 1, Good(n)
      PROVE  Good(n + 1)
  <2> DEFINE k == n + 1
  <2>1. k \in 1 .. N /\ k # 0 /\ k - 1 = n /\ k \in 0 .. N
    BY <1>0
  <2>2. ASSUME NEW m \in 0 .. n PROVE m \in 0 .. k
    OBVIOUS
  <2> HIDE DEF k
  <2>3. h[k] = HandleOne(h[n], events[k])
    BY <1>6, <2>1
  <2>4. PICK m \in 0 .. n : h[n].handled = Part(m) /\ (~h[n].raised => m = n /\ h[n].raised = FALSE)
    BY <1>8
  <2>5. Append(Part(n), events[k]) = Part(k)
    <3> DEFINE x == r.handled
               y == SubSeq(events, 1, n)
               z == SubSeq(events, 1, k)
               e == events[k]
    <3>1. k \in 1 .. Len(events)
      BY <2>1 DEF N
    <3>2. z = SubSeq(events, 1, k - 1) \o <<e>>
      <4>1. 1 \in 1 .. Len(events) /\ k \in 1 .. Len(events)
        BY <3>1
      <4> QED
        BY <4>1, SubSeqRecursiveSecond
    <3>3. z = y \o <<e>>
      BY <2>1, <3>2
    <3>4. x \in Seq(Events) /\ e \in Events
      BY <3>1
    <3>5. y \in Seq(Events)
      <4>1. n \in 0 .. Len(events)
        BY <2>1, <3>1
      <4> QED
        BY <4>1
    <3> HIDE DEF x, y, z, e
    <3>6. <<e>> \in Seq(Events) /\ x \o y \in Seq(Events)
      BY <3>4, <3>5
    <3>7. (x \o y) \o <<e>> = x \o (y \o <<e>>)
      BY <3>4, <3>5, <3>6, Associates
    <3>8. Append(x \o y, e) = (x \o y) \o <<e>>
      BY <3>4, <3>6
    <3>9. Append(x \o y, e) = x \o z
      BY <3>3, <3>7, <3>8
    <3> QED
      BY <3>9, Zenon DEF x, y, z, e
  <2> HIDE DEF Part
  <2>6. /\ IsRelay(h[k])
        /\ \/ h[k].raised = TRUE /\ h[k].handled = h[n].handled
           \/ h[k].raised = h[n].raised /\ ~h[n].raised /\ h[k].handled = Append(h[n].handled, events[k])
    <3> DEFINE q == h[n]
               e == events[k]
    <3>1. IsRelay(q)
      BY <1>8
    <3>2. h[k] = HandleOne(q, e)
      BY <2>3
    <3> HIDE DEF q, e, Good
    <3>3. /\ IsRelay(HandleOne(q, e))
          /\ \/ HandleOne(q, e).raised = TRUE /\ HandleOne(q, e).handled = q.handled
             \/ /\ HandleOne(q, e).raised = q.raised /\ ~q.raised
                /\ HandleOne(q, e).handled = Append(q.handled, e)
      BY <3>1, HandleOneIs, Zenon
    <3> QED
      BY <3>2, <3>3, Zenon DEF q, e
  <2>7. CASE h[k].raised = TRUE /\ h[k].handled = h[n].handled
    <3>1. m \in 0 .. k /\ h[k].handled = Part(m)
      BY <2>2, <2>4, <2>7
    <3> QED
      BY <2>6, <2>7, <3>1 DEF k
  <2>8. CASE h[k].raised = h[n].raised /\ ~h[n].raised /\ h[k].handled = Append(h[n].handled, events[k])
    <3>1. m = n /\ h[k].raised = FALSE
      BY <2>4, <2>8
    <3>2. h[k].handled = Part(k)
      BY <2>4, <2>5, <2>8, <3>1
    <3>3. k \in 0 .. k
      BY <2>1
    <3>4. Good(k)
      BY <2>6, <3>1, <3>2, <3>3
    <3> QED
      BY <3>4 DEF k
  <2> QED
    BY <2>6, <2>7, <2>8
<1>9. Good(N)
  <2> HIDE DEF Good
  <2>1. 0 \in T
    BY <1>0, <1>7
  <2>2. \A n \in 0 .. N - 1 : n \in T => n + 1 \in T
    BY <1>0, <1>8
  <2> HIDE DEF T
  <2>3. N \in T
    <3>1. N \in 0 .. N
      BY <1>0
    <3> QED
      BY <1>0, <2>1, <2>2, <3>1, Upward
  <2> QED
    BY <2>3 DEF T
<1> QED
  BY <1>5, <1>9 DEF N


-----------------------------------------------------------------------------
(***************************************************************************)
(* The provider's response                                                 *)
(***************************************************************************)
LEMMA WireIs ==
  ASSUME NEW c \in Cases
  PROVE  c.wire \in Seq(Symbols) /\ Len(c.wire) \in Nat
<1>1. c.wire \in Seq(Symbols)
  BY WiresAssumption
<1> QED
  BY <1>1

CaseTypeOK == case \in Cases /\ TypeOK

LEMMA CaseTypeOKNext == CaseTypeOK /\ [Next]_vars => CaseTypeOK'
<1> SUFFICES ASSUME CaseTypeOK, [Next]_vars PROVE CaseTypeOK'
  OBVIOUS
<1> USE DEF CaseTypeOK, TypeOK
<1>1. CASE Refuse
  BY <1>1 DEF Refuse, Answered
<1>2. CASE Open
  BY <1>2 DEF Open
<1>3. CASE ReadBody
  BY <1>3 DEF ReadBody, Answered
<1>4. CASE ReadBodyRaises
  BY <1>4 DEF ReadBodyRaises, Answered
<1>5. CASE Start
  <2>1. relay.raised = FALSE
    BY <1>5 DEF Start, NewRelay
  <2> QED
    BY <1>5, <2>1 DEF Start
<1>6. CASE NeverStarts
  BY <1>6 DEF NeverStarts
<1>7. CASE Receive
  <2>1. PICK n \in read + 1 .. Len(case.wire) :
           LET parsed == ParserFeed(parser, SubSeq(case.wire, read + 1, n))
           IN  /\ read' = n
               /\ parser' = parsed.parser
               /\ RelayOn(HandleAll(relay, parsed.events))
    BY <1>7 DEF Receive
  <2> DEFINE after == HandleAll(relay, ParserFeed(parser, SubSeq(case.wire, read + 1, n)).events)
  <2>2. read' = n /\ RelayOn(after) /\ case' = case /\ phase = "relaying"
    BY <1>7, <2>1 DEF Receive
  <2> HIDE DEF after
  <2>3. read' \in 0 .. Len(case'.wire)
    BY <2>2, WireIs
  <2>4. CASE after.raised
    BY <2>2, <2>3, <2>4 DEF RelayOn, Answered
  <2>5. CASE ~after.raised
    BY <2>2, <2>3, <2>5 DEF RelayOn
  <2> QED
    BY <2>4, <2>5
<1>8. CASE UpstreamBreaks
  BY <1>8 DEF UpstreamBreaks, Answered
<1>9. CASE UpstreamEnds
  BY <1>9 DEF UpstreamEnds, Answered
<1>10. CASE HangUp
  BY <1>10 DEF HangUp
<1>11. CASE UNCHANGED vars
  BY <1>11 DEF vars
<1> QED
  BY <1>1, <1>2, <1>3, <1>4, <1>5, <1>6, <1>7, <1>8, <1>9, <1>10, <1>11 DEF Next

\* The provider's response is open from its first line until the exchange ends,
\* by an answer, a failure or a hang-up (app.py handle_messages, the finally of
\* its relay), but for a relay dropped before its first step; nothing is sent
\* before reading begins, and a relay that raised reads no further.
THEOREM TypeCorrect == Spec => []TypeOK
<1>1. Init => CaseTypeOK
  <2> SUFFICES ASSUME Init PROVE CaseTypeOK
    OBVIOUS
  <2>1. read \in 0 .. Len(case.wire)
    BY WireIs DEF Init
  <2> QED
    BY <2>1 DEF Init, CaseTypeOK, TypeOK
<1>2. CaseTypeOK => TypeOK
  BY DEF CaseTypeOK
<1> QED
  BY <1>1, <1>2, CaseTypeOKNext, PTL DEF Spec

-----------------------------------------------------------------------------
(***************************************************************************)
(* What a wire says                                                        *)
(***************************************************************************)
LEMMA FlushIs ==
  ASSUME NEW p \in Parsers
  PROVE  ParserFlush(p) \in Seq(Events)
<1> DEFINE q == IF p.buffer = <<>> THEN p ELSE HandleLine(p, p.buffer)
<1>1. q \in Parsers
  <2>1. CASE p.buffer = <<>>
    BY <2>1
  <2>2. CASE p.buffer # <<>>
    <3> DEFINE b == p.buffer
               v == b[1].value
    <3>1. b \in Seq(Symbols) /\ p.data \in Seq(Values) /\ p.event \in Values
      BY DEF Parsers
    <3>2. v \in Values
      <4> HIDE DEF b
      <4>1. b[1] \in Symbols
        BY <2>2, <3>1 DEF b
      <4> QED
        BY <4>1 DEF Values
    <3>3. q = HandleLine(p, b)
      BY <2>2
    <3>4. HandleLine(p, b) \in {[p EXCEPT !.event = v], [p EXCEPT !.data = Append(@, v)], p}
      BY DEF HandleLine
    <3> HIDE DEF q, v, b
    <3>5. [p EXCEPT !.event = v] \in Parsers
      BY <3>2 DEF Parsers
    <3>6. [p EXCEPT !.data = Append(@, v)] \in Parsers
      <4> DEFINE d == Append(p.data, v)
      <4>1. d \in Seq(Values)
        BY <3>1, <3>2
      <4> HIDE DEF d
      <4>2. [p EXCEPT !.data = d] \in Parsers
        BY <4>1 DEF Parsers
      <4> QED
        BY <4>2 DEF d
    <3> QED
      BY <3>3, <3>4, <3>5, <3>6
  <2> QED
    BY <2>1, <2>2
<1>2. ParserFlush(p) = Dispatch(q)
  BY DEF ParserFlush
<1> HIDE DEF q
<1> DEFINE e == [event |-> q.event, data |-> q.data]
<1>3. e \in Events
  BY <1>1 DEF Parsers, Events
<1>4. Dispatch(q) = <<>> \/ Dispatch(q) = <<e>>
  BY DEF Dispatch
<1> HIDE DEF e
<1>5. <<e>> \in Seq(Events) /\ <<>> \in Seq(Events)
  BY <1>3
<1> QED
  BY <1>2, <1>4, <1>5, Zenon

LEMMA PrefixIs ==
  ASSUME NEW x \in Seq(Events), NEW y \in Seq(Events)
  PROVE  IsPrefix(x, x \o y)
<1> DEFINE w == x \o y
<1>1. /\ w \in Seq(Events) /\ Len(w) = Len(x) + Len(y) /\ Len(x) \in Nat /\ Len(y) \in Nat
      /\ \A n \in 1 .. Len(x) : w[n] = x[n]
  OBVIOUS
<1> HIDE DEF w
<1> DEFINE a == SubSeq(x, 1, Len(x))
           b == SubSeq(w, 1, Len(x))
<1>2. a \in Seq(Events) /\ Len(a) = Len(x) /\ \A n \in 1 .. Len(x) : a[n] = x[n]
  BY <1>1
<1>3. b \in Seq(Events) /\ Len(b) = Len(x) /\ \A n \in 1 .. Len(x) : b[n] = w[n]
  BY <1>1
<1> HIDE DEF a, b
<1>4. a = b
  BY <1>1, <1>2, <1>3
<1> QED
  BY <1>1, <1>4 DEF IsPrefix, a, b, w

LEMMA PartIsPrefix ==
  ASSUME NEW a \in Seq(Events), NEW e \in Seq(Events), NEW f \in Seq(Events), NEW m \in 0 .. Len(e)
  PROVE  IsPrefix(a \o SubSeq(e, 1, m), (a \o e) \o f)
<1> DEFINE x == SubSeq(e, 1, m)
           y == SubSeq(e, m + 1, Len(e))
<1>1. x \in Seq(Events) /\ y \in Seq(Events)
  <2>1. m + 1 \in 1 .. Len(e) + 1 /\ m \in 0 .. Len(e)
    OBVIOUS
  <2> QED
    BY <2>1
<1>2. x \o y = e
  <2>1. 1 \in 1 .. Len(e) + 1 /\ m \in 1 - 1 .. Len(e) /\ Len(e) \in m .. Len(e)
    OBVIOUS
  <2>2. x \o y = SubSeq(e, 1, Len(e))
    BY <2>1, ConcatAdjacentSubSeq
  <2>3. SubSeq(e, 1, Len(e)) = e
    BY SubSeqFull
  <2> QED
    BY <2>2, <2>3, Zenon
<1> HIDE DEF x, y
<1>3. a \o x \in Seq(Events) /\ y \o f \in Seq(Events)
  BY <1>1
<1>4. IsPrefix(a \o x, (a \o x) \o (y \o f))
  BY <1>3, PrefixIs
<1>5. (a \o x) \o y = a \o (x \o y)
  BY <1>1, Associates, SMTT(20)
<1>6. (a \o x) \o (y \o f) = ((a \o x) \o y) \o f
  <2> DEFINE b == a \o x
  <2>1. b \in Seq(Events)
    BY <1>3
  <2> HIDE DEF b
  <2>2. (b \o y) \o f = b \o (y \o f)
    BY <1>1, <2>1, Associates, SMTT(20)
  <2> QED
    BY <2>2, Zenon DEF b
<1> QED
  BY <1>2, <1>4, <1>5, <1>6, Zenon DEF x

\* What has come of a wire has been read alike in one chunk or in two.
LEMMA ReadOn ==
  ASSUME NEW w \in Seq(Symbols), OneTerminator(w), NEW k \in 0 .. Len(w), NEW n \in k .. Len(w)
  PROVE  LET one == ParserFeed(NewParser, SubSeq(w, 1, k))
             two == ParserFeed(one.parser, SubSeq(w, k + 1, n))
         IN  /\ one.parser \in Parsers /\ one.events \in Seq(Events)
             /\ two.parser \in Parsers /\ two.events \in Seq(Events)
             /\ ParserFeed(NewParser, SubSeq(w, 1, n))
                  = [parser |-> two.parser, events |-> one.events \o two.events]
<1> DEFINE x == SubSeq(w, 1, k)
           y == SubSeq(w, k + 1, n)
           z == SubSeq(w, 1, n)
           u == SubSeq(w, n + 1, Len(w))
<1>1. n \in 0 .. Len(w) /\ k + 1 \in 1 .. Len(w) + 1 /\ n + 1 \in 1 .. Len(w) + 1 /\ Len(w) \in Nat
  OBVIOUS
<1>2. x \in Seq(Symbols) /\ y \in Seq(Symbols) /\ z \in Seq(Symbols) /\ u \in Seq(Symbols)
  BY <1>1
<1>3. x \o y = z
  <2>1. 1 \in 1 .. Len(w) + 1 /\ k \in 1 - 1 .. Len(w)
    OBVIOUS
  <2> QED
    BY <2>1, ConcatAdjacentSubSeq
<1>4. z \o u = w
  <2>1. 1 \in 1 .. Len(w) + 1 /\ n \in 1 - 1 .. Len(w) /\ Len(w) \in n .. Len(w)
    BY <1>1
  <2>2. z \o u = SubSeq(w, 1, Len(w))
    BY <2>1, ConcatAdjacentSubSeq
  <2>3. SubSeq(w, 1, Len(w)) = w
    BY SubSeqFull
  <2> QED
    BY <2>2, <2>3, Zenon
<1> HIDE DEF x, y, z, u
<1>5. OneTerminator(z)
  BY <1>2, <1>4, OneTerminatorAtStart
<1>6. NewParser \in Parsers /\ (NewParser.buffer \o x) \o y = z
  <2>1. <<>> \o x = x
    BY <1>2
  <2> QED
    BY <1>3, <2>1, NewParserIs
<1>7. LET one == ParserFeed(NewParser, x)
          two == ParserFeed(one.parser, y)
      IN  /\ one.parser \in Parsers /\ one.events \in Seq(Events)
          /\ two.parser \in Parsers /\ two.events \in Seq(Events)
          /\ ParserFeed(NewParser, x \o y) = [parser |-> two.parser, events |-> one.events \o two.events]
  BY <1>2, <1>5, <1>6, ChunksJoin
<1> QED
  BY <1>3, <1>7, Zenon DEF x, y, z

\* Whatever has come begins what the wire says.
LEMMA SaidSoFar ==
  ASSUME NEW w \in Seq(Symbols), OneTerminator(w), NEW n \in 0 .. Len(w)
  PROVE  LET one == ParserFeed(NewParser, SubSeq(w, 1, n))
         IN  /\ one.parser \in Parsers /\ one.events \in Seq(Events)
             /\ \E f \in Seq(Events) : EventsOf(w) = one.events \o f
             /\ n = Len(w) => EventsOf(w) = one.events \o ParserFlush(one.parser)
<1> DEFINE one == ParserFeed(NewParser, SubSeq(w, 1, n))
           two == ParserFeed(one.parser, SubSeq(w, n + 1, Len(w)))
           all == ParserFeed(NewParser, w)
           end == ParserFlush(all.parser)
<1>1. SubSeq(w, 1, Len(w)) = w /\ Len(w) \in n .. Len(w)
  BY SubSeqFull
<1>2. /\ one.parser \in Parsers /\ one.events \in Seq(Events)
      /\ two.parser \in Parsers /\ two.events \in Seq(Events)
      /\ ParserFeed(NewParser, SubSeq(w, 1, Len(w))) = [parser |-> two.parser, events |-> one.events \o two.events]
  <2>1. Len(w) \in n .. Len(w)
    BY <1>1
  <2> HIDE DEF one, two
  <2> QED
    BY <2>1, ReadOn DEF one, two
<1>3. EventsOf(w) = all.events \o end
  BY DEF EventsOf
<1> HIDE DEF one, two
<1>4. all = [parser |-> two.parser, events |-> one.events \o two.events]
  BY <1>1, <1>2
<1> HIDE DEF all
<1>5. all.parser \in Parsers /\ all.events = one.events \o two.events
  BY <1>2, <1>4
<1>6. end \in Seq(Events)
  BY <1>5, FlushIs
<1> HIDE DEF end
<1>7. EventsOf(w) = one.events \o (two.events \o end) /\ two.events \o end \in Seq(Events)
  <2> DEFINE x == one.events
             y == two.events
  <2>1. x \in Seq(Events) /\ y \in Seq(Events)
    BY <1>2
  <2> HIDE DEF x, y
  <2>2. (x \o y) \o end = x \o (y \o end) /\ y \o end \in Seq(Events)
    BY <2>1, <1>6, Associates, SMTT(20)
  <2> QED
    BY <1>3, <1>5, <2>2, Zenon DEF x, y
<1>8. n = Len(w) => EventsOf(w) = one.events \o ParserFlush(one.parser)
  <2> SUFFICES ASSUME n = Len(w) PROVE EventsOf(w) = one.events \o ParserFlush(one.parser)
    OBVIOUS
  <2>1. one = all
    BY <1>1 DEF one, all
  <2> QED
    BY <1>3, <2>1 DEF end
<1> QED
  BY <1>2, <1>7, <1>8 DEF one


-----------------------------------------------------------------------------
(***************************************************************************)
(* The relay and what the wire says                                        *)
(***************************************************************************)
\* While it goes on, the relay has handled all that has come, as if it had come
\* in one chunk; when it is over, a beginning, and it says so if that is not all.
ReadSoFar ==
  /\ IsRelay(relay) /\ relay.raised = FALSE
  /\ ParserFeed(NewParser, SubSeq(case.wire, 1, read)) = [parser |-> parser, events |-> relay.handled]
EndsWell(r, wire) ==
  /\ IsPrefix(r.handled, EventsOf(wire))
  /\ r.handled # EventsOf(wire) => r.sent # <<>> /\ Last(r.sent) = ErrorPayload

IInv ==
  /\ CaseTypeOK
  /\ phase \in {"asked", "opened"} => read = 0 /\ parser = NewParser
  /\ case.stream /\ phase # "over" => ReadSoFar
  /\ case.stream /\ phase = "over" => EndsWell(relay, case.wire)

LEMMA NothingRead ==
  ParserFeed(NewParser, <<>>) = [parser |-> NewParser, events |-> <<>>]
<1> DEFINE p == Fed(NewParser, <<>>)
<1>1. p = NewParser /\ Len(p.buffer) = 0
  <2>1. <<>> \o <<>> = <<>> /\ Len(<<>>) = 0
    OBVIOUS
  <2> QED
    BY <2>1 DEF Fed, NewParser
<1>2. <<>> \in Seq(Symbols)
  OBVIOUS
<1>3. ParserFeed(NewParser, <<>>) = TakeLines(p)
  BY <1>2, NewParserIs, FedIs
<1>4. \E h : TakeLines(p) = h[Len(p.buffer)] /\ h[0] = [parser |-> p, events |-> <<>>]
  <2> HIDE DEF p
  <2>1. Len(p.buffer) \in Nat
    BY <1>1
  <2> QED
    BY <2>1, TakeLinesRun
<1> QED
  BY <1>1, <1>3, <1>4

LEMMA NewRelayIs ==
  /\ IsRelay(NewRelay) /\ NewRelay.raised = FALSE
  /\ NewRelay.handled = <<>> /\ NewRelay.sent = <<>>
<1>1. NewRelay.sent \in Seq({}) /\ NewRelay.sent = <<>> /\ NewRelay.handled = <<>> /\ NewRelay.raised = FALSE
  BY DEF NewRelay
<1>2. DOMAIN NewRelay = Fields
  BY DEF NewRelay, Fields
<1> QED
  BY <1>1, <1>2 DEF IsRelay

\* A failure is told (stream.py, the in-band error event), and changes nothing of
\* what was handled.
LEMMA FailedTells ==
  ASSUME NEW r, IsRelay(r)
  PROVE  /\ Failed(r).handled = r.handled
         /\ Failed(r).sent # <<>> /\ Last(Failed(r).sent) = ErrorPayload
<1>1. SameSoFar(FlushAll(r), r)
  BY FlushAllKeeps
<1> DEFINE q == FlushAll(r)
<1> HIDE DEF q
<1>2. IsRelay(q) /\ q.handled = r.handled
  BY <1>1 DEF SameSoFar, q
<1>3. /\ SameSoFar(Send(q, ErrorPayload), q)
      /\ Send(q, ErrorPayload).sent # <<>> /\ Last(Send(q, ErrorPayload).sent) = ErrorPayload
  BY <1>2, SendKeeps
<1>4. Failed(r) = Send(q, ErrorPayload)
  BY DEF Failed, q
<1> QED
  BY <1>2, <1>3, <1>4 DEF SameSoFar

\* A failure ends well, whatever part of the events of a chunk was handled.
LEMMA FailedEndsWell ==
  ASSUME NEW r, IsRelay(r), NEW w, IsPrefix(r.handled, EventsOf(w))
  PROVE  EndsWell(Failed(r), w)
  BY FailedTells DEF EndsWell

LEMMA IInvInit ==
  ASSUME Init
  PROVE  IInv
<1>1. case \in Cases /\ read \in 0 .. Len(case.wire)
  BY WireIs DEF Init
<1>2. CaseTypeOK
  BY <1>1 DEF Init, CaseTypeOK, TypeOK
<1>3. SubSeq(case.wire, 1, read) = <<>>
  BY <1>1, WireIs DEF Init
<1>4. ReadSoFar
  BY <1>3, NothingRead, NewRelayIs DEF Init, ReadSoFar
<1> QED
  BY <1>2, <1>4 DEF Init, IInv

LEMMA IInvNext ==
  ASSUME \A c \in Cases : OneTerminator(c.wire), IInv, [Next]_vars
  PROVE  IInv'
<1>1. CaseTypeOK /\ CaseTypeOK'
  BY CaseTypeOKNext DEF IInv
<1> DEFINE w == case.wire
<1>2. case \in Cases /\ w \in Seq(Symbols) /\ OneTerminator(w) /\ read \in 0 .. Len(w) /\ Len(w) \in Nat
  BY <1>1, WireIs DEF CaseTypeOK, TypeOK
<1>3. case' = case
  BY DEF Next, vars, Refuse, Open, ReadBody, ReadBodyRaises, Start, NeverStarts, Receive,
         UpstreamBreaks, UpstreamEnds, HangUp
<1> DEFINE Reads == /\ parser \in Parsers /\ relay.handled \in Seq(Events)
                    /\ IsRelay(relay) /\ relay.raised = FALSE
                    /\ \E f \in Seq(Events) : EventsOf(w) = relay.handled \o f
                    /\ read = Len(w) => EventsOf(w) = relay.handled \o ParserFlush(parser)
\* What IInv says of a relay that goes on.
<1>4. ASSUME case.stream, phase # "over"
      PROVE  Reads
  <2>1. ReadSoFar
    BY <1>4 DEF IInv
  <2> DEFINE one == ParserFeed(NewParser, SubSeq(w, 1, read))
  <2>2. /\ one.parser \in Parsers /\ one.events \in Seq(Events)
        /\ \E f \in Seq(Events) : EventsOf(w) = one.events \o f
        /\ read = Len(w) => EventsOf(w) = one.events \o ParserFlush(one.parser)
    BY <1>2, SaidSoFar
  <2>3. one.parser = parser /\ one.events = relay.handled
    BY <2>1 DEF ReadSoFar
  <2> HIDE DEF one
  <2> QED
    BY <2>1, <2>2, <2>3 DEF ReadSoFar
<1> HIDE DEF w
<1>5. CASE Refuse
  <2>1. phase' = "over" /\ relay' = Send(NewRelay, ErrorPayload)
    BY <1>1, <1>5 DEF Refuse, Answered, CaseTypeOK, TypeOK
  <2>2. ASSUME case.stream
        PROVE  EndsWell(relay', w)
    <3> DEFINE r == Send(NewRelay, ErrorPayload)
    <3>1. SameSoFar(r, NewRelay) /\ r.sent # <<>> /\ Last(r.sent) = ErrorPayload
      BY NewRelayIs, SendKeeps
    <3> HIDE DEF r
    <3>2. r.handled = <<>>
      BY <3>1, NewRelayIs DEF SameSoFar
    <3>3. PICK e : e = EventsOf(w) /\ e \in Seq(Events)
      <4>1. phase # "over"
        BY <1>5 DEF Refuse
      <4>2. PICK f \in Seq(Events) : EventsOf(w) = relay.handled \o f /\ relay.handled \in Seq(Events)
        BY <1>4, <2>2, <4>1
      <4>3. relay.handled \o f \in Seq(Events)
        BY <4>2
      <4> QED
        BY <4>2, <4>3
    <3>4. IsPrefix(<<>>, EventsOf(w))
      <4>1. <<>> \in Seq(Events) /\ <<>> \o e = e
        BY <3>3
      <4>2. IsPrefix(<<>>, <<>> \o e)
        BY <3>3, <4>1, PrefixIs
      <4> QED
        BY <3>3, <4>1, <4>2
    <3> QED
      BY <2>1, <3>1, <3>2, <3>4 DEF EndsWell, r
  <2> QED
    BY <1>1, <1>3, <2>1, <2>2 DEF IInv, w
<1>6. CASE Open \/ Start \/ NeverStarts \/ HangUp
  <2>1. UNCHANGED <<case, read, parser, relay>> /\ phase # "over" /\ phase' # "over"
    BY <1>6 DEF Open, Start, NeverStarts, HangUp
  <2>2. phase' \in {"asked", "opened"} => phase = "asked"
    BY <1>6 DEF Open, Start, NeverStarts, HangUp
  <2>3. ReadSoFar => ReadSoFar'
    BY <2>1 DEF ReadSoFar
  <2> QED
    BY <1>1, <2>1, <2>2, <2>3 DEF IInv
<1>7. CASE ReadBody \/ ReadBodyRaises
  <2>1. ~case'.stream /\ phase' = "over"
    BY <1>3, <1>7 DEF ReadBody, ReadBodyRaises, Answered
  <2> QED
    BY <1>1, <2>1 DEF IInv
<1>8. CASE Receive
  <2>1. PICK n \in read + 1 .. Len(w) :
           LET parsed == ParserFeed(parser, SubSeq(w, read + 1, n))
           IN  /\ read' = n
               /\ parser' = parsed.parser
               /\ RelayOn(HandleAll(relay, parsed.events))
    BY <1>8 DEF Receive, w
  <2> DEFINE parsed == ParserFeed(parser, SubSeq(w, read + 1, n))
             after  == HandleAll(relay, parsed.events)
             now    == ParserFeed(NewParser, SubSeq(w, 1, n))
  <2>2. n \in read .. Len(w) /\ n \in 0 .. Len(w) /\ phase = "relaying"
    BY <1>2, <1>8 DEF Receive
  <2>3. ASSUME case.stream
        PROVE  /\ IsRelay(after)
               /\ now = [parser |-> parsed.parser, events |-> relay.handled \o parsed.events]
               /\ ~after.raised => after.raised = FALSE /\ after.handled = relay.handled \o parsed.events
               /\ IsPrefix(after.handled, EventsOf(w))
    <3>1. Reads /\ ReadSoFar
      BY <1>4, <2>2, <2>3 DEF IInv
    <3>2. /\ parsed.parser \in Parsers /\ parsed.events \in Seq(Events)
          /\ now = [parser |-> parsed.parser, events |-> relay.handled \o parsed.events]
      <4> DEFINE one == ParserFeed(NewParser, SubSeq(w, 1, read))
                 two == ParserFeed(one.parser, SubSeq(w, read + 1, n))
      <4>1. /\ two.parser \in Parsers /\ two.events \in Seq(Events)
            /\ now = [parser |-> two.parser, events |-> one.events \o two.events]
        BY <1>2, <2>2, ReadOn
      <4>2. one.parser = parser /\ one.events = relay.handled
        BY <3>1 DEF ReadSoFar, w
      <4>3. two = parsed
        BY <4>2
      <4> HIDE DEF one, two, parsed, now
      <4> QED
        BY <4>1, <4>2, <4>3
    <3> DEFINE e == parsed.events
    <3> HIDE DEF parsed, e, now
    <3>3. e \in Seq(Events)
      BY <3>2 DEF e
    <3>4. after = HandleAll(relay, e)
      BY DEF e
    <3> HIDE DEF after
    <3>5. /\ IsRelay(after)
          /\ \E m \in 0 .. Len(e) :
                /\ after.handled = relay.handled \o SubSeq(e, 1, m)
                /\ ~after.raised => m = Len(e) /\ after.raised = FALSE
      BY <3>1, <3>3, <3>4, HandleAllIs
    <3>6. PICK m \in 0 .. Len(e) : /\ after.handled = relay.handled \o SubSeq(e, 1, m)
                                   /\ ~after.raised => m = Len(e) /\ after.raised = FALSE
      BY <3>5
    <3>7. ~after.raised => after.raised = FALSE /\ after.handled = relay.handled \o e
      <4>1. SubSeq(e, 1, Len(e)) = e
        BY <3>3, SubSeqFull
      <4> QED
        BY <3>6, <4>1
    <3>8. PICK f \in Seq(Events) : EventsOf(w) = now.events \o f
      BY <1>2, <2>2, SaidSoFar DEF now
    <3>9. now.events = relay.handled \o e
      BY <3>2 DEF e
    <3>10. IsPrefix(relay.handled \o SubSeq(e, 1, m), (relay.handled \o e) \o f)
      BY <3>1, <3>3, PartIsPrefix
    <3>11. IsPrefix(after.handled, EventsOf(w))
      BY <3>6, <3>8, <3>9, <3>10, Zenon
    <3> QED
      BY <3>2, <3>5, <3>7, <3>11 DEF e
  <2>4. read' = n /\ parser' = parsed.parser /\ RelayOn(after)
    BY <2>1
  <2> HIDE DEF parsed, after
  <2>5. CASE after.raised
    <3>1. phase' = "over" /\ relay' = Failed(after)
      BY <2>4, <2>5 DEF RelayOn, Answered
    <3>2. case.stream => EndsWell(relay', w)
      BY <2>3, <3>1, FailedEndsWell
    <3> QED
      BY <1>1, <1>3, <3>1, <3>2 DEF IInv, w
  <2>6. CASE ~after.raised
    <3>1. relay' = after /\ phase' = "relaying"
      BY <2>2, <2>4, <2>6 DEF RelayOn
    <3>2. case.stream => ReadSoFar'
      <4> SUFFICES ASSUME case.stream PROVE ReadSoFar'
        OBVIOUS
      <4>1. ParserFeed(NewParser, SubSeq(case'.wire, 1, read')) = now
        BY <1>3, <2>4 DEF w
      <4>2. now = [parser |-> parser', events |-> relay'.handled]
        BY <2>3, <2>4, <2>6, <3>1
      <4>3. IsRelay(relay') /\ relay'.raised = FALSE
        BY <2>3, <2>6, <3>1
      <4> HIDE DEF now
      <4> QED
        BY <4>1, <4>2, <4>3 DEF ReadSoFar
    <3> QED
      BY <1>1, <1>3, <3>1, <3>2 DEF IInv
  <2> QED
    BY <2>5, <2>6
<1>9. CASE UpstreamBreaks
  <2>1. phase = "relaying" /\ phase' = "over" /\ relay' = Failed(relay)
    BY <1>9 DEF UpstreamBreaks, Answered
  <2>2. ASSUME case.stream
        PROVE  EndsWell(relay', w)
    <3>1. Reads
      BY <1>4, <2>1, <2>2
    <3>2. IsPrefix(relay.handled, EventsOf(w))
      BY <3>1, PrefixIs
    <3> QED
      BY <2>1, <3>1, <3>2, FailedEndsWell
  <2> QED
    BY <1>1, <1>3, <2>1, <2>2 DEF IInv, w
<1>10. CASE UpstreamEnds
  <2> DEFINE e     == ParserFlush(parser)
             after == HandleAll(relay, e)
  <2>1. phase = "relaying" /\ phase' = "over" /\ relay' = LastWords(after) /\ read = Len(w)
    BY <1>10 DEF UpstreamEnds, Answered, w
  <2>2. ASSUME case.stream
        PROVE  EndsWell(relay', w)
    <3>1. Reads
      BY <1>4, <2>1, <2>2
    <3>2. e \in Seq(Events) /\ EventsOf(w) = relay.handled \o e
      BY <2>1, <3>1, FlushIs
    <3> HIDE DEF e
    <3>3. /\ IsRelay(after)
          /\ \E m \in 0 .. Len(e) :
                /\ after.handled = relay.handled \o SubSeq(e, 1, m)
                /\ ~after.raised => m = Len(e) /\ after.raised = FALSE
      BY <3>1, <3>2, HandleAllIs
    <3> HIDE DEF after
    <3>4. PICK m \in 0 .. Len(e) : /\ after.handled = relay.handled \o SubSeq(e, 1, m)
                                   /\ ~after.raised => m = Len(e) /\ after.raised = FALSE
      BY <3>3
    <3>5. IsPrefix(after.handled, EventsOf(w))
      <4> DEFINE x == relay.handled
                 none == <<>>
      <4>1. x \in Seq(Events) /\ none \in Seq(Events) /\ EventsOf(w) = x \o e
        BY <3>1, <3>2
      <4> HIDE DEF x
      <4>2. (x \o e) \o none = x \o e
        BY <3>2, <4>1
      <4> HIDE DEF none
      <4>3. IsPrefix(x \o SubSeq(e, 1, m), (x \o e) \o none)
        BY <3>2, <4>1, PartIsPrefix
      <4>4. after.handled = x \o SubSeq(e, 1, m)
        BY <3>4 DEF x
      <4> QED
        BY <4>1, <4>2, <4>3, <4>4, Zenon
    <3>6. CASE after.raised
      <4>1. relay' = Failed(after)
        BY <2>1, <3>6 DEF LastWords
      <4> QED
        BY <3>3, <3>5, <4>1, FailedEndsWell
    <3>7. CASE ~after.raised
      <4>1. relay' = FlushAll(after)
        BY <2>1, <3>7 DEF LastWords
      <4>2. relay'.handled = after.handled
        BY <3>3, <4>1, FlushAllKeeps DEF SameSoFar
      <4>3. SubSeq(e, 1, Len(e)) = e
        BY <3>2, SubSeqFull
      <4>4. after.handled = EventsOf(w)
        BY <3>2, <3>4, <3>7, <4>3
      <4> QED
        BY <3>5, <4>2, <4>4 DEF EndsWell
    <3> QED
      BY <3>6, <3>7
  <2> HIDE DEF after
  <2> QED
    BY <1>1, <1>3, <2>1, <2>2 DEF IInv, w
<1>11. CASE UNCHANGED vars
  BY <1>1, <1>11 DEF IInv, vars, ReadSoFar, EndsWell
<1> QED
  BY <1>5, <1>6, <1>7, <1>8, <1>9, <1>10, <1>11 DEF Next

LEMMA AlwaysIInv ==
  ASSUME \A c \in Cases : OneTerminator(c.wire)
  PROVE  Spec => []IInv
<1>1. Init => IInv
  BY IInvInit
<1>2. IInv /\ [Next]_vars => IInv'
  BY IInvNext
<1> QED
  BY <1>1, <1>2, PTL DEF Spec

LEMMA IInvCuts ==
  ASSUME \A c \in Cases : OneTerminator(c.wire), IInv
  PROVE  CutsDoNotMatter
<1> SUFFICES ASSUME case.stream PROVE IsPrefix(relay.handled, EventsOf(case.wire))
  BY DEF CutsDoNotMatter
<1>1. CASE phase = "over"
  BY <1>1 DEF IInv, EndsWell
<1>2. CASE phase # "over"
  <2>1. ReadSoFar
    BY <1>2 DEF IInv
  <2>2. case \in Cases /\ case.wire \in Seq(Symbols) /\ read \in 0 .. Len(case.wire)
    BY WireIs DEF IInv, CaseTypeOK, TypeOK
  <2> DEFINE one == ParserFeed(NewParser, SubSeq(case.wire, 1, read))
  <2>3. one.events \in Seq(Events) /\ \E f \in Seq(Events) : EventsOf(case.wire) = one.events \o f
    BY <2>2, SaidSoFar
  <2>4. one.events = relay.handled
    BY <2>1 DEF ReadSoFar
  <2> HIDE DEF one
  <2> QED
    BY <2>3, <2>4, PrefixIs
<1> QED
  BY <1>1, <1>2

\* However the bytes of a stream are cut into chunks, the events that are handled
\* begin what its wire says at once (sse.py, SSEParser.feed and _find_line_end):
\* for wires whose line terminators are all LF, all CR or all CRLF.
THEOREM ChunksDoNotMatter ==
  ASSUME \A c \in Cases : OneTerminator(c.wire)
  PROVE  Spec => []CutsDoNotMatter
<1>1. IInv => CutsDoNotMatter
  BY IInvCuts
<1> QED
  BY <1>1, AlwaysIInv, PTL

\* A stream of which not every event was handled, because the provider broke off
\* or an event raised, ends with the error event (stream.py, redact_sse_stream's
\* handlers of httpx errors and of exceptions).
THEOREM FailureIsTold ==
  ASSUME \A c \in Cases : OneTerminator(c.wire)
  PROVE  Spec => []EndIsHonest
<1>1. IInv => EndIsHonest
  BY DEF IInv, EndsWell, EndIsHonest, Relayed
<1> QED
  BY <1>1, AlwaysIInv, PTL
=============================================================================
