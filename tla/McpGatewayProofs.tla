-------------------------- MODULE McpGatewayProofs --------------------------
(***************************************************************************)
(* What the gateway keeps for every set of methods and tools and for       *)
(* batches of any length: no privileged call leaves it for a caller who is *)
(* not an admin, every id is answered once, and denials stand.             *)
(***************************************************************************)
EXTENDS McpGateway, FiniteSetTheorems, SequenceTheorems, TLAPS

-----------------------------------------------------------------------------
(* Selecting from a sequence.                                              *)

\* The positions in I in their order.
Nth(I) == [k \in 1 .. Cardinality(I) |-> CHOOSE i \in I : Cardinality({j \in I : j <= i}) = k]

\* Every position has a place, and no two have the same.
LEMMA NthBijection ==
  ASSUME NEW I, IsFiniteSet(I), I \subseteq Int
  PROVE  Cardinality(I) \in Nat /\ Nth(I) \in Bijection(1 .. Cardinality(I), I)
<1> DEFINE n == Cardinality(I)
           upto(i) == {j \in I : j <= i}
           rank == [i \in I |-> Cardinality(upto(i))]
<1>1. n \in Nat
  BY FS_CardinalityType
<1>2. ASSUME NEW i \in I
      PROVE  IsFiniteSet(upto(i)) /\ rank[i] \in 1 .. n
  <2>1. upto(i) \in SUBSET I
    OBVIOUS
  <2>2. /\ IsFiniteSet(upto(i))
        /\ Cardinality(upto(i)) <= n
        /\ Cardinality(upto(i)) \in Nat
    BY <2>1, FS_Subset, FS_CardinalityType
  <2>3. upto(i) # {}
    BY <1>2
  <2>4. Cardinality(upto(i)) # 0
    BY <2>2, <2>3, FS_EmptySet
  <2> QED
    BY <1>1, <2>2, <2>4
<1>3. ASSUME NEW i \in I, NEW j \in I, i < j
      PROVE  rank[i] # rank[j]
  <2>1. upto(i) \in SUBSET upto(j) /\ j \in upto(j) /\ j \notin upto(i)
    <3>1. i \in Int /\ j \in Int /\ \A k \in I : k \in Int
      OBVIOUS
    <3>2. \A k \in I : k <= i => k <= j
      BY <1>3, <3>1
    <3>3. j <= j /\ ~(j <= i)
      BY <1>3, <3>1
    <3> QED
      BY <3>2, <3>3
  <2>2. Cardinality(upto(j)) # Cardinality(upto(i))
    <3> HIDE DEF upto
    <3> QED
      BY <2>1, <1>2, FS_Subset
  <2> QED
    BY <2>2
<1>4. \A i \in I, j \in I : rank[i] = rank[j] => i = j
  <2>1. \A i \in I, j \in I : i < j \/ j < i \/ i = j
    OBVIOUS
  <2> HIDE DEF rank
  <2> QED
    BY <2>1, <1>3
<1>5. rank \in Injection(I, 1 .. n)
  <2>1. rank \in [I -> 1 .. n]
    BY <1>2
  <2> HIDE DEF rank
  <2> QED
    BY <2>1, <1>4 DEF Injection, IsInjective
<1>6. IsFiniteSet(1 .. n) /\ Cardinality(1 .. n) = n
  <2>1. n \in Int /\ (1 > n => n = 0) /\ n - 1 + 1 = n
    BY <1>1
  <2> QED
    BY <2>1, FS_Interval
<1>7. rank \in Surjection(I, 1 .. n)
  <2> HIDE DEF rank
  <2> QED
    BY <1>5, <1>6, FS_Injection
<1>8. ASSUME NEW k \in 1 .. n
      PROVE  Nth(I)[k] \in I /\ rank[Nth(I)[k]] = k
  <2>1. \E i \in I : Cardinality(upto(i)) = k
    BY <1>7 DEF Surjection
  <2>2. Nth(I)[k] = CHOOSE i \in I : Cardinality(upto(i)) = k
    BY DEF Nth
  <2> HIDE DEF upto
  <2> QED
    BY <2>1, <2>2
<1> HIDE DEF rank
<1>9. Nth(I) \in [1 .. n -> I]
  BY <1>8 DEF Nth
<1>10. \A k, l \in 1 .. n : Nth(I)[k] = Nth(I)[l] => k = l
  BY <1>8
<1>11. \A i \in I : \E k \in 1 .. n : Nth(I)[k] = i
  BY <1>2, <1>4, <1>8
<1> HIDE DEF n
<1>12. Nth(I) \in Bijection(1 .. n, I)
  BY <1>9, <1>10, <1>11 DEF Bijection, Injection, Surjection, IsInjective
<1> QED
  BY <1>1, <1>12 DEF n

\* What At yields: the members at the positions in I and no others, each once.
LEMMA AtFacts ==
  ASSUME NEW S, NEW s \in Seq(S), NEW I \in SUBSET DOMAIN s
  PROVE  /\ At(s, I) \in Seq(S)
         /\ \A k \in DOMAIN At(s, I) : Nth(I)[k] \in I /\ At(s, I)[k] = s[Nth(I)[k]]
         /\ \A k, l \in DOMAIN At(s, I) : Nth(I)[k] = Nth(I)[l] => k = l
         /\ \A i \in I : \E k \in DOMAIN At(s, I) : Nth(I)[k] = i
         /\ At(s, I) = <<>> <=> I = {}
<1>1. DOMAIN s = 1 .. Len(s) /\ Len(s) \in Nat /\ \A i \in DOMAIN s : s[i] \in S
  BY ElementOfSeq, LenProperties
<1>2. IsFiniteSet(I) /\ I \subseteq Int
  <2>1. IsFiniteSet(1 .. Len(s))
    <3>1. Len(s) \in Int
      BY <1>1
    <3> QED
      BY <3>1, FS_Interval
  <2> QED
    BY <1>1, <2>1, FS_Subset
<1>3. Cardinality(I) \in Nat /\ Nth(I) \in Bijection(1 .. Cardinality(I), I)
  BY <1>2, NthBijection
<1>4. /\ Nth(I) \in [1 .. Cardinality(I) -> I]
      /\ \A k, l \in 1 .. Cardinality(I) : Nth(I)[k] = Nth(I)[l] => k = l
      /\ \A i \in I : \E k \in 1 .. Cardinality(I) : Nth(I)[k] = i
  BY <1>3 DEF Bijection, Injection, Surjection, IsInjective
<1>5. At(s, I) = [k \in 1 .. Cardinality(I) |-> s[Nth(I)[k]]]
  BY DEF At, Nth
<1>6. DOMAIN At(s, I) = 1 .. Cardinality(I)
  BY <1>5
<1>7. At(s, I) \in Seq(S)
  <2>1. \A k \in 1 .. Cardinality(I) : s[Nth(I)[k]] \in S
    BY <1>1, <1>4
  <2> QED
    BY <1>3, <1>5, <2>1, SeqDef
<1>8. At(s, I) = <<>> <=> I = {}
  <2>1. At(s, I) = <<>> <=> Len(At(s, I)) = 0
    BY <1>7, EmptySeq
  <2>2. Len(At(s, I)) = Cardinality(I)
    BY <1>3, <1>6, <1>7, LenProperties
  <2> QED
    BY <2>1, <2>2, <1>2, FS_EmptySet
<1> QED
  BY <1>4, <1>5, <1>6, <1>7, <1>8

-----------------------------------------------------------------------------
(* Ids.                                                                    *)

Whats == {"invalid", "unauthenticated", "too_large", "unknown_method", "invalid_params",
          "unauthorized", "upstream_unavailable", "result", "all_tools", "open_tools"}

Item == [id : Nat, what : Whats]

\* A sequence of response objects that answers each id in T once and no other.
OnceEach(items, T) ==
    /\ \A k \in DOMAIN items : items[k].id \in T
    /\ \A k, l \in DOMAIN items : items[k].id = items[l].id => k = l
    /\ \A t \in T : \E k \in DOMAIN items : items[k].id = t

\* Then its ids are T, and one object has each of them.
LEMMA OnceCounts ==
  ASSUME NEW items, NEW T, OnceEach(items, T)
  PROVE  /\ Ids(items) = T
         /\ \A t \in T : Cardinality({k \in DOMAIN items : items[k].id = t}) = 1
<1>1. Ids(items) = T
  <2>1. \A x : x \in Ids(items) => x \in T
    BY DEF OnceEach, Ids
  <2>2. \A x : x \in T => x \in Ids(items)
    BY DEF OnceEach, Ids
  <2> QED
    BY <2>1, <2>2
<1>2. ASSUME NEW t \in T
      PROVE  Cardinality({k \in DOMAIN items : items[k].id = t}) = 1
  <2>1. PICK k \in DOMAIN items : items[k].id = t
    BY DEF OnceEach
  <2>2. {l \in DOMAIN items : items[l].id = t} = {k}
    BY <2>1 DEF OnceEach
  <2> QED
    BY <2>2, FS_Singleton
<1> QED
  BY <1>1, <1>2

\* Two sequences that answer different ids answer both together.
LEMMA OnceConcat ==
  ASSUME NEW x \in Seq(Item), NEW y \in Seq(Item), NEW T, NEW U, T \cap U = {},
         OnceEach(x, T), OnceEach(y, U)
  PROVE  OnceEach(x \o y, T \cup U)
<1> DEFINE z == x \o y
<1>1. /\ Len(x) \in Nat /\ DOMAIN x = 1 .. Len(x)
      /\ Len(y) \in Nat /\ DOMAIN y = 1 .. Len(y)
  BY LenProperties
<1>2. /\ z \in Seq(Item)
      /\ Len(z) = Len(x) + Len(y)
      /\ \A k \in 1 .. Len(x) + Len(y) : z[k] = IF k <= Len(x) THEN x[k] ELSE y[k - Len(x)]
  BY ConcatProperties
<1>3. DOMAIN z = 1 .. Len(x) + Len(y)
  BY <1>2, LenProperties
<1> HIDE DEF z
<1>4. ASSUME NEW k \in DOMAIN z
      PROVE  \/ k \in DOMAIN x /\ z[k] = x[k] /\ z[k].id \in T
             \/ /\ k - Len(x) \in DOMAIN y /\ z[k] = y[k - Len(x)] /\ z[k].id \in U
                /\ k \notin DOMAIN x
  BY <1>1, <1>2, <1>3 DEF OnceEach
<1>5. ASSUME NEW k \in DOMAIN z, NEW l \in DOMAIN z, z[k].id = z[l].id
      PROVE  k = l
  <2>1. CASE z[k].id \in T
    <3>1. k \in DOMAIN x /\ l \in DOMAIN x /\ x[k].id = x[l].id
      BY <2>1, <1>4, <1>5
    <3> QED
      BY <3>1 DEF OnceEach
  <2>2. CASE z[k].id \in U
    <3>1. /\ k - Len(x) \in DOMAIN y /\ l - Len(x) \in DOMAIN y
          /\ y[k - Len(x)].id = y[l - Len(x)].id
      BY <2>2, <1>4, <1>5
    <3>2. k - Len(x) = l - Len(x)
      BY <3>1 DEF OnceEach
    <3> QED
      BY <3>2, <1>1, <1>3
  <2> QED
    BY <2>1, <2>2, <1>4
<1>6. ASSUME NEW t \in T \cup U
      PROVE  \E k \in DOMAIN z : z[k].id = t
  <2>1. CASE t \in T
    <3>1. PICK k \in DOMAIN x : x[k].id = t
      BY <2>1 DEF OnceEach
    <3>2. k \in DOMAIN z /\ z[k] = x[k]
      BY <1>1, <1>2, <1>3
    <3> QED
      BY <3>1, <3>2
  <2>2. CASE t \in U
    <3>1. PICK k \in DOMAIN y : y[k].id = t
      BY <2>2 DEF OnceEach
    <3>2. k + Len(x) \in DOMAIN z /\ z[k + Len(x)] = y[k]
      BY <1>1, <1>2, <1>3
    <3> QED
      BY <3>1, <3>2
  <2> QED
    BY <2>1, <2>2
<1> QED
  BY <1>4, <1>5, <1>6 DEF OnceEach, z

-----------------------------------------------------------------------------
(* Messages.                                                               *)

Msg == [form : {"sound", "malformed", "ambiguous"}, method : Methods \cup {"tools/call"},
        tool : Tools \cup {"none", "get"}, id : Nat]

\* The id of the i-th message of a payload is i, or it has none; only a batch
\* has more than one.
LEMMA MessagesAre ==
  ASSUME payload \in Payloads
  PROVE  /\ payload.batch \in BOOLEAN
         /\ payload.messages \in Seq(Msg)
         /\ Len(payload.messages) \in 1 .. MaxBatch
         /\ DOMAIN payload.messages = 1 .. Len(payload.messages)
         /\ \A i \in DOMAIN payload.messages : payload.messages[i].id \in {i, NoId}
         /\ ~payload.batch => Len(payload.messages) = 1
<1> DEFINE Sendable == UNION {{Message(k, id) : k \in Kinds} : id \in 0 .. MaxBatch}
<1>1. Sendable \subseteq Msg
  <2> SUFFICES ASSUME NEW id \in 0 .. MaxBatch, NEW k \in Kinds
               PROVE  Message(k, id) \in Msg
    OBVIOUS
  <2>1. /\ k.form \in {"sound", "malformed", "ambiguous"}
        /\ k.method \in Methods \cup {"tools/call"}
        /\ k.tool \in Tools \cup {"none", "get"}
    BY DEF Kinds
  <2>2. id \in Nat
    BY GatewayAssumption
  <2> QED
    BY <2>1, <2>2 DEF Message, Msg
<1> HIDE DEF Sendable
<1>2. ASSUME NEW b \in Batches
      PROVE  /\ b \in Seq(Msg) /\ Len(b) \in 1 .. MaxBatch /\ DOMAIN b = 1 .. Len(b)
             /\ \A i \in DOMAIN b : b[i].id \in {i, NoId}
  <2>1. PICK n \in 1 .. MaxBatch : b \in [1 .. n -> Sendable] /\ \A i \in 1 .. n : b[i].id \in {i, NoId}
    BY DEF Batches, Sendable
  <2>2. n \in Nat /\ b \in [1 .. n -> Msg]
    BY <2>1, <1>1, GatewayAssumption
  <2>3. b \in Seq(Msg)
    BY <2>2, SeqDef
  <2>4. Len(b) = n
    BY <2>2, <2>3, LenProperties
  <2> QED
    BY <2>1, <2>2, <2>3, <2>4
<1>3. /\ payload.batch \in BOOLEAN
      /\ payload.messages \in Batches
      /\ ~payload.batch => Len(payload.messages) = 1
  <2>1. CASE payload \in {[batch |-> TRUE, messages |-> b] : b \in Batches}
    <3>1. PICK b \in Batches : payload = [batch |-> TRUE, messages |-> b]
      BY <2>1
    <3>2. payload.messages = b /\ payload.batch = TRUE
      BY <3>1
    <3> QED
      BY <3>1, <3>2
  <2>2. CASE payload \in {[batch |-> FALSE, messages |-> b] : b \in {c \in Batches : Len(c) = 1}}
    <3>1. PICK b \in Batches : Len(b) = 1 /\ payload = [batch |-> FALSE, messages |-> b]
      BY <2>2
    <3>2. payload.messages = b /\ payload.batch = FALSE
      BY <3>1
    <3> QED
      BY <3>1, <3>2
  <2> QED
    BY <2>1, <2>2 DEF Payloads
<1> QED
  BY <1>2, <1>3


-----------------------------------------------------------------------------
(* The inductive invariant.                                                *)

Shape ==
    /\ config \in [allowlist : BOOLEAN, filter : BOOLEAN]
    /\ role \in {"admin", "viewer", "none"}
    /\ payload \in Payloads
    /\ pc \in {"read", "forward", "build", "done"}

Untouched == allowed = <<>> /\ denials = <<>> /\ received = <<>> /\ answer = NoAnswer

\* The payload has been split by the policy.
Decided ==
    /\ role # "none" /\ Sound
    /\ allowed = Where(payload.messages, Allowed)
    /\ denials = Denials(payload.messages)

\* What a server may have returned.
AnswerIsPossible ==
    \/ /\ answer.type \in {"json", "stream"} /\ answer.status = 200
       /\ answer.items = Responses
    \/ /\ answer.type = "none" /\ answer.status \in {202, 204}
       /\ answer.items = <<>> /\ Responses = <<>>
    \/ answer.type = "malformed" /\ answer.status = 200 /\ answer.items = <<>>
    \/ answer.type = "html" /\ answer.status = 500 /\ answer.items = <<>>

\* Where the exchange stands.
Stage ==
    /\ pc = "read" => Untouched
    /\ pc \in {"forward", "build"} => Decided /\ allowed # <<>>
    /\ pc = "forward" => answer = NoAnswer /\ received \in {<<>>, allowed}
    /\ pc = "build" => received = allowed /\ AnswerIsPossible
    /\ pc = "done" => Untouched \/ (Decided /\ received \in {<<>>, allowed})
    /\ pc = "done" <=> reply.status # 0

IInv == Shape /\ Stage /\ EveryIdOnce /\ DenialStands /\ AdminToolsHidden

-----------------------------------------------------------------------------
(* The split.                                                              *)

\* The requests the policy denies.
Blocked == {i \in Requests : ~Allowed(payload.messages[i])}

LEMMA RequestIds ==
  ASSUME Shape
  PROVE  /\ Requests \subseteq DOMAIN payload.messages
         /\ \A i \in Requests : payload.messages[i].id = i /\ i \in Nat /\ i # NoId
         /\ \A i \in DOMAIN payload.messages : i \in Requests <=> IsRequest(payload.messages[i])
BY MessagesAre DEF Shape, Requests, IsRequest, NoId

\* The allowed messages are messages of the payload that the policy allows.
LEMMA AllowedFacts ==
  ASSUME Shape, Decided
  PROVE  LET A == {i \in DOMAIN payload.messages : Allowed(payload.messages[i])}
         IN  /\ allowed \in Seq(Msg)
             /\ \A k \in DOMAIN allowed : Nth(A)[k] \in A /\ allowed[k] = payload.messages[Nth(A)[k]]
             /\ \A k, l \in DOMAIN allowed : Nth(A)[k] = Nth(A)[l] => k = l
             /\ \A i \in A : \E k \in DOMAIN allowed : Nth(A)[k] = i
             /\ allowed = <<>> <=> A = {}
<1> DEFINE ms == payload.messages
           A == {i \in DOMAIN ms : Allowed(ms[i])}
<1>1. allowed = At(ms, A)
  BY DEF Decided, Where
<1>2. ms \in Seq(Msg) /\ A \in SUBSET DOMAIN ms
  BY MessagesAre DEF Shape
<1> HIDE DEF ms, A
<1>3. /\ At(ms, A) \in Seq(Msg)
      /\ \A k \in DOMAIN At(ms, A) : Nth(A)[k] \in A /\ At(ms, A)[k] = ms[Nth(A)[k]]
      /\ \A k, l \in DOMAIN At(ms, A) : Nth(A)[k] = Nth(A)[l] => k = l
      /\ \A i \in A : \E k \in DOMAIN At(ms, A) : Nth(A)[k] = i
      /\ At(ms, A) = <<>> <=> A = {}
  BY <1>2, AtFacts
<1>4. /\ allowed \in Seq(Msg)
      /\ \A k \in DOMAIN allowed : Nth(A)[k] \in A /\ allowed[k] = ms[Nth(A)[k]]
      /\ \A k, l \in DOMAIN allowed : Nth(A)[k] = Nth(A)[l] => k = l
      /\ \A i \in A : \E k \in DOMAIN allowed : Nth(A)[k] = i
      /\ allowed = <<>> <=> A = {}
  BY <1>1, <1>3
<1> QED
  BY <1>4 DEF A, ms

\* Each denied request has its denial, once.
LEMMA DenialsFacts ==
  ASSUME Shape, Decided
  PROVE  /\ denials \in Seq(Item)
         /\ OnceEach(denials, Blocked)
         /\ \A k \in DOMAIN denials : denials[k].what # "all_tools"
         /\ denials = <<>> <=> Blocked = {}
<1> DEFINE ms == payload.messages
           B == {i \in DOMAIN ms : ~Allowed(ms[i]) /\ IsRequest(ms[i])}
           blocked == At(ms, B)
<1>1. denials = [k \in DOMAIN blocked |-> Error(blocked[k].id, Denial(blocked[k]))]
  BY DEF Decided, Denials, Where
<1>2. ms \in Seq(Msg) /\ B \in SUBSET DOMAIN ms
  BY MessagesAre DEF Shape
<1>3. B = Blocked
  BY RequestIds DEF Blocked
<1>4. \A i \in B : ms[i].id = i /\ i \in Nat /\ ~Allowed(ms[i])
  BY RequestIds, <1>3 DEF Blocked
<1> HIDE DEF ms, B
<1>5. /\ blocked \in Seq(Msg)
      /\ \A k \in DOMAIN blocked : Nth(B)[k] \in B /\ blocked[k] = ms[Nth(B)[k]]
      /\ \A k, l \in DOMAIN blocked : Nth(B)[k] = Nth(B)[l] => k = l
      /\ \A i \in B : \E k \in DOMAIN blocked : Nth(B)[k] = i
      /\ blocked = <<>> <=> B = {}
  BY <1>2, AtFacts
<1> HIDE DEF blocked
<1>6. ASSUME NEW m, ~Allowed(m)
      PROVE  Denial(m) \in Whats \ {"all_tools"}
  BY <1>6 DEF Allowed, Denial, Whats
<1>7. ASSUME NEW k \in DOMAIN blocked
      PROVE  /\ denials[k].id = Nth(B)[k]
             /\ denials[k].what \in Whats \ {"all_tools"}
             /\ denials[k] \in Item
  <2>1. PICK i \in B : i = Nth(B)[k] /\ blocked[k] = ms[i]
    BY <1>5
  <2>2. blocked[k].id = i /\ ~Allowed(blocked[k]) /\ i \in Nat
    BY <2>1, <1>4
  <2>3. PICK m \in Msg : m = blocked[k]
    BY <1>5, ElementOfSeq, LenProperties
  <2>4. ~Allowed(m)
    BY <2>1, <2>2, <2>3
  <2>5. Denial(m) \in Whats \ {"all_tools"}
    BY <2>4, <1>6
  <2>6. denials[k] = Error(m.id, Denial(m))
    BY <1>1, <2>3
  <2> QED
    BY <2>1, <2>2, <2>3, <2>5, <2>6 DEF Error, Item
<1>8. DOMAIN denials = DOMAIN blocked
  BY <1>1
<1>9. denials \in Seq(Item)
  <2>1. DOMAIN blocked = 1 .. Len(blocked) /\ Len(blocked) \in Nat
    BY <1>5, LenProperties
  <2>2. denials \in [1 .. Len(blocked) -> Item]
    BY <1>1, <1>7, <2>1
  <2> QED
    BY <2>1, <2>2, SeqDef
<1>10. OnceEach(denials, B)
  BY <1>5, <1>7, <1>8 DEF OnceEach
<1>11. denials = <<>> <=> blocked = <<>>
  BY <1>5, <1>8, <1>9, LenProperties, EmptySeq
<1> QED
  BY <1>3, <1>5, <1>7, <1>8, <1>9, <1>10, <1>11


\* A single message is allowed or denied, not both.
LEMMA SingleMessage ==
  ASSUME Shape, Decided, ~payload.batch, allowed # <<>>
  PROVE  denials = <<>>
<1>1. DOMAIN payload.messages = {1}
  BY MessagesAre DEF Shape
<1>2. PICK i \in DOMAIN payload.messages : Allowed(payload.messages[i])
  BY AllowedFacts
<1>3. \A j \in Requests : j = i
  BY <1>1, <1>2 DEF Requests
<1>4. Blocked = {}
  BY <1>2, <1>3 DEF Blocked
<1> QED
  BY <1>4, DenialsFacts

\* The server's responses answer each allowed request, once.
LEMMA ResponsesFacts ==
  ASSUME Shape, Decided, received = allowed
  PROVE  Responses \in Seq(Item) /\ OnceEach(Responses, Requests \ Blocked)
<1> DEFINE ms == payload.messages
           A == {i \in DOMAIN ms : Allowed(ms[i])}
           C == {k \in DOMAIN received : IsRequest(received[k])}
           requests == At(received, C)
           at == [k \in DOMAIN requests |-> Nth(A)[Nth(C)[k]]]
<1>1. Responses = [k \in DOMAIN requests |->
                     [id |-> requests[k].id,
                      what |-> IF requests[k].method = "tools/list" THEN "all_tools" ELSE "result"]]
  BY DEF Responses, Where
<1>2. /\ received \in Seq(Msg)
      /\ \A k \in DOMAIN received : Nth(A)[k] \in A /\ received[k] = ms[Nth(A)[k]]
      /\ \A k, l \in DOMAIN received : Nth(A)[k] = Nth(A)[l] => k = l
      /\ \A i \in A : \E k \in DOMAIN received : Nth(A)[k] = i
  BY AllowedFacts
<1>3. C \in SUBSET DOMAIN received
  OBVIOUS
<1> HIDE DEF C
<1>4. /\ requests \in Seq(Msg)
      /\ \A k \in DOMAIN requests : Nth(C)[k] \in C /\ requests[k] = received[Nth(C)[k]]
      /\ \A k, l \in DOMAIN requests : Nth(C)[k] = Nth(C)[l] => k = l
      /\ \A i \in C : \E k \in DOMAIN requests : Nth(C)[k] = i
  BY <1>2, <1>3, AtFacts
<1> HIDE DEF requests, A
<1>5. Requests \ Blocked = {i \in A : IsRequest(ms[i])}
  BY RequestIds DEF Blocked, A
<1>6. ASSUME NEW k \in DOMAIN requests
      PROVE  /\ at[k] \in A /\ IsRequest(ms[at[k]]) /\ requests[k] = ms[at[k]]
             /\ requests[k].id = at[k]
  <2>1. PICK c \in C : c = Nth(C)[k] /\ requests[k] = received[c]
    BY <1>4
  <2>2. c \in DOMAIN received /\ IsRequest(received[c])
    BY DEF C
  <2>3. PICK i \in A : i = Nth(A)[c] /\ received[c] = ms[i]
    BY <1>2, <2>2
  <2>4. at[k] = i
    BY <2>1, <2>3
  <2>5. IsRequest(ms[i])
    BY <2>2, <2>3
  <2>6. ms[i].id = i
    BY <2>5, <1>5, RequestIds
  <2> QED
    BY <2>1, <2>3, <2>4, <2>5, <2>6
<1>7. ASSUME NEW k \in DOMAIN requests, NEW l \in DOMAIN requests, at[k] = at[l]
      PROVE  k = l
  <2>1. Nth(C)[k] \in DOMAIN received /\ Nth(C)[l] \in DOMAIN received
    BY <1>3, <1>4
  <2> QED
    BY <2>1, <1>2, <1>4, <1>7
<1>8. ASSUME NEW i \in A, IsRequest(ms[i])
      PROVE  \E k \in DOMAIN requests : at[k] = i
  <2>1. PICK c \in DOMAIN received : Nth(A)[c] = i
    BY <1>2
  <2>2. received[c] = ms[i]
    BY <1>2, <2>1
  <2>3. c \in C
    BY <1>8, <2>2 DEF C
  <2>4. PICK k \in DOMAIN requests : Nth(C)[k] = c
    BY <1>4, <2>3
  <2> QED
    BY <2>1, <2>4
<1> HIDE DEF at
<1>9. /\ DOMAIN Responses = DOMAIN requests
      /\ \A k \in DOMAIN requests : /\ Responses[k].id = at[k]
                                    /\ Responses[k].what \in {"all_tools", "result"}
  BY <1>1, <1>6
<1>10. \A k \in DOMAIN requests : Responses[k] \in Item
  <2>1. ASSUME NEW k \in DOMAIN requests
        PROVE  at[k] \in Nat
    BY <1>5, <1>6, RequestIds
  <2> QED
    BY <2>1, <1>1, <1>6 DEF Item, Whats
<1>11. Responses \in Seq(Item)
  <2>1. DOMAIN requests = 1 .. Len(requests) /\ Len(requests) \in Nat
    BY <1>4, LenProperties
  <2>2. Responses \in [1 .. Len(requests) -> Item]
    BY <1>1, <1>10, <2>1
  <2> QED
    BY <2>1, <2>2, SeqDef
<1>12. OnceEach(Responses, Requests \ Blocked)
  BY <1>5, <1>6, <1>7, <1>8, <1>9 DEF OnceEach
<1> QED
  BY <1>11, <1>12

\* The filter changes no id, and hides the admin tools from whoever is not an
\* admin.
LEMMA FilteredFacts ==
  ASSUME NEW items \in Seq(Item), NEW T, OnceEach(items, T)
  PROVE  /\ Filtered(items) \in Seq(Item)
         /\ OnceEach(Filtered(items), T)
         /\ role # "admin" => \A k \in DOMAIN Filtered(items) : Filtered(items)[k].what # "all_tools"
<1>1. /\ DOMAIN items = 1 .. Len(items) /\ Len(items) \in Nat
      /\ \A k \in DOMAIN items : items[k] \in Item
  BY LenProperties, ElementOfSeq
<1>2. /\ DOMAIN Filtered(items) = DOMAIN items
      /\ \A k \in DOMAIN items :
            Filtered(items)[k] = IF role # "admin" /\ items[k].what = "all_tools"
                                 THEN [items[k] EXCEPT !.what = "open_tools"] ELSE items[k]
  BY DEF Filtered
<1>3. ASSUME NEW k \in DOMAIN items
      PROVE  /\ Filtered(items)[k] \in Item
             /\ Filtered(items)[k].id = items[k].id
             /\ role # "admin" => Filtered(items)[k].what # "all_tools"
  <2>1. items[k] \in Item
    BY <1>1
  <2> QED
    BY <1>2, <2>1 DEF Item, Whats
<1>4. Filtered(items) \in Seq(Item)
  <2>1. Filtered(items) \in [1 .. Len(items) -> Item]
    BY <1>1, <1>3 DEF Filtered
  <2> QED
    BY <1>1, <2>1, SeqDef
<1>5. OnceEach(Filtered(items), T)
  BY <1>2, <1>3 DEF OnceEach
<1> QED
  BY <1>2, <1>3, <1>4, <1>5


-----------------------------------------------------------------------------
(* What each of the properties asks of a reply.                            *)

LEMMA RepliesOnce ==
  ASSUME payload' = payload, NEW items, reply'.items = items,
         OnceEach(items, Requests),
         Requests # {} => (reply'.shape = "object" <=> ~payload.batch)
  PROVE  EveryIdOnce'
<1>1. Requests' = Requests
  BY DEF Requests
<1>2. /\ Ids(items) = Requests
      /\ \A t \in Requests : Cardinality({k \in DOMAIN items : items[k].id = t}) = 1
  BY OnceCounts
<1>3. reply'.status # 204 => Delivered' = items
  BY DEF Delivered
<1>4. ASSUME reply'.status # 204
      PROVE  Ids(Delivered') = Requests' /\ \A t \in Requests' : Times(t)' = 1
  BY <1>1, <1>2, <1>3, <1>4 DEF Ids, Times
<1>5. 200 # 204 /\ 202 # 204
  OBVIOUS
<1> QED
  BY <1>1, <1>4, <1>5 DEF EveryIdOnce, Ids

LEMMA RepliesDenials ==
  ASSUME NEW items, reply'.items = items,
         \A i \in DOMAIN denials' : \E j \in DOMAIN items : items[j] = denials'[i]
  PROVE  DenialStands'
<1>1. reply'.status # 204 => Delivered' = items
  BY DEF Delivered
<1> QED
  BY <1>1 DEF DenialStands

LEMMA RepliesHide ==
  ASSUME NEW items, reply'.items = items,
         config'.filter /\ role' # "admin" /\ answer'.type # "stream" =>
            \A k \in DOMAIN items : items[k].what # "all_tools"
  PROVE  AdminToolsHidden'
<1>1. Delivered' = items \/ DOMAIN Delivered' = {}
  BY DEF Delivered
<1>2. CASE Delivered' = items
  BY <1>2 DEF AdminToolsHidden
<1>3. CASE DOMAIN Delivered' = {}
  BY <1>3 DEF AdminToolsHidden
<1> QED
  BY <1>1, <1>2, <1>3

\* No reply yet, nothing to ask.
LEMMA NoReplyYet ==
  ASSUME pc' # "done"
  PROVE  EveryIdOnce' /\ DenialStands' /\ AdminToolsHidden'
BY DEF EveryIdOnce, DenialStands, AdminToolsHidden

\* One object, and the objects of two sequences.
LEMMA OneItem ==
  ASSUME NEW e \in Item
  PROVE  <<e>> \in Seq(Item) /\ DOMAIN <<e>> = {1} /\ <<e>>[1] = e
OBVIOUS

\* z holds the objects of x and y and no others, and answers what they do.
Joins(z, x, y) ==
    /\ \A k \in DOMAIN x : \E j \in DOMAIN z : z[j] = x[k]
    /\ \A k \in DOMAIN y : \E j \in DOMAIN z : z[j] = y[k]
    /\ \A j \in DOMAIN z : \/ \E k \in DOMAIN x : z[j] = x[k]
                           \/ \E k \in DOMAIN y : z[j] = y[k]
    /\ \A T, U : T \cap U = {} /\ OnceEach(x, T) /\ OnceEach(y, U) => OnceEach(z, T \cup U)

LEMMA ConcatJoins ==
  ASSUME NEW x \in Seq(Item), NEW y \in Seq(Item)
  PROVE  Joins(x \o y, x, y)
<1> DEFINE z == x \o y
<1>1. /\ Len(x) \in Nat /\ DOMAIN x = 1 .. Len(x)
      /\ Len(y) \in Nat /\ DOMAIN y = 1 .. Len(y)
  BY LenProperties
<1>2. /\ z \in Seq(Item)
      /\ Len(z) = Len(x) + Len(y)
      /\ \A k \in 1 .. Len(x) + Len(y) : z[k] = IF k <= Len(x) THEN x[k] ELSE y[k - Len(x)]
  BY ConcatProperties
<1>3. DOMAIN z = 1 .. Len(x) + Len(y)
  BY <1>2, LenProperties
<1>4. \A T, U : T \cap U = {} /\ OnceEach(x, T) /\ OnceEach(y, U) => OnceEach(z, T \cup U)
  BY OnceConcat
<1> HIDE DEF z
<1>5. ASSUME NEW k \in DOMAIN x
      PROVE  k \in DOMAIN z /\ z[k] = x[k]
  BY <1>1, <1>2, <1>3
<1>6. ASSUME NEW k \in DOMAIN y
      PROVE  k + Len(x) \in DOMAIN z /\ z[k + Len(x)] = y[k]
  BY <1>1, <1>2, <1>3
<1>7. ASSUME NEW j \in DOMAIN z
      PROVE  \/ j \in DOMAIN x /\ z[j] = x[j]
             \/ j - Len(x) \in DOMAIN y /\ z[j] = y[j - Len(x)]
  BY <1>1, <1>2, <1>3
<1> QED
  BY <1>4, <1>5, <1>6, <1>7 DEF Joins, z

-----------------------------------------------------------------------------
(* The steps.                                                              *)

LEMMA InvInitially == Init => IInv
<1> SUFFICES ASSUME Init
             PROVE  IInv
  OBVIOUS
<1>1. reply.status = 0
  BY DEF Init, NoReply
<1>2. Shape /\ Stage
  BY <1>1 DEF Init, Shape, Stage, Untouched
<1>3. EveryIdOnce /\ DenialStands /\ AdminToolsHidden
  BY DEF Init, EveryIdOnce, DenialStands, AdminToolsHidden
<1> QED
  BY <1>2, <1>3 DEF IInv

LEMMA RefuseWholeKeeps == IInv /\ RefuseWhole => IInv'
<1> SUFFICES ASSUME IInv, RefuseWhole
             PROVE  IInv'
  OBVIOUS
<1>1. /\ pc = "read" /\ pc' = "done"
      /\ UNCHANGED <<config, role, payload, allowed, denials, received, answer>>
  BY DEF RefuseWhole, Unusable, Reply
<1> DEFINE items == reply'.items
<1>2. ASSUME NEW status \in {400, 401, 413}, NEW id \in Nat, NEW what \in Whats \ {"all_tools"},
             Reply(status, "object", <<Error(id, what)>>)
      PROVE  /\ reply'.status \in {400, 401, 413}
             /\ items \in Seq(Item) /\ DOMAIN items = {1} /\ items[1].what # "all_tools"
  <2>1. reply'.status = status /\ items = <<Error(id, what)>>
    BY <1>2 DEF Reply
  <2>2. Error(id, what) \in Item /\ Error(id, what).what # "all_tools"
    BY DEF Error, Item
  <2> QED
    BY <2>1, <2>2, OneItem
<1>3. /\ reply'.status \in {400, 401, 413}
      /\ items \in Seq(Item) /\ DOMAIN items = {1} /\ items[1].what # "all_tools"
  <2>1. NoId \in Nat /\ \A i \in DOMAIN payload.messages : payload.messages[i].id \in Nat
    BY MessagesAre DEF IInv, Shape, NoId
  <2>2. {"unauthenticated", "too_large", "invalid"} \subseteq Whats \ {"all_tools"}
    BY DEF Whats
  <2> HIDE DEF items
  <2>3. CASE \/ Reply(401, "object", <<Error(NoId, "unauthenticated")>>)
             \/ Reply(413, "object", <<Error(NoId, "too_large")>>)
             \/ Reply(400, "object", <<Error(NoId, "invalid")>>)
    BY <1>2, <2>1, <2>2, <2>3
  <2>4. CASE \E i \in DOMAIN payload.messages : \E id \in {payload.messages[i].id, NoId} :
                Reply(400, "object", <<Error(id, "invalid")>>)
    <3>1. PICK i \in DOMAIN payload.messages :
             \E id \in {payload.messages[i].id, NoId} : Reply(400, "object", <<Error(id, "invalid")>>)
      BY <2>4
    <3>2. PICK id \in {payload.messages[i].id, NoId} : Reply(400, "object", <<Error(id, "invalid")>>)
      BY <3>1
    <3>3. id \in Nat
      BY <2>1, <3>2
    <3> QED
      BY <1>2, <2>2, <3>2, <3>3
  <2> QED
    BY <2>3, <2>4 DEF RefuseWhole, Unusable
<1> HIDE DEF items
<1>6. Untouched /\ Untouched'
  BY <1>1 DEF IInv, Stage, Untouched
<1>7. Shape' /\ Stage'
  <2>1. reply'.status # 0
    BY <1>3
  <2> QED
    BY <1>1, <1>6, <2>1 DEF IInv, Shape, Stage
<1>8. EveryIdOnce'
  <2>1. reply'.status \notin {200, 202}
    BY <1>3
  <2> QED
    BY <2>1 DEF EveryIdOnce
<1>9. DenialStands'
  BY <1>6, RepliesDenials DEF Untouched
<1>10. AdminToolsHidden'
  BY <1>3, RepliesHide DEF items
<1> QED
  BY <1>7, <1>8, <1>9, <1>10 DEF IInv

\* The facts about the split, of a state and of the one after it.
Split ==
    /\ denials \in Seq(Item)
    /\ OnceEach(denials, Blocked)
    /\ \A k \in DOMAIN denials : denials[k].what # "all_tools"
    /\ allowed = <<>> => Blocked = Requests

LEMMA SplitIs == Shape /\ Decided => Split
<1> SUFFICES ASSUME Shape, Decided
             PROVE  Split
  OBVIOUS
<1>1. ASSUME allowed = <<>>
      PROVE  Blocked = Requests
  <2>1. \A i \in DOMAIN payload.messages : ~Allowed(payload.messages[i])
    BY <1>1, AllowedFacts
  <2> QED
    BY <2>1, RequestIds DEF Blocked
<1> QED
  BY <1>1, DenialsFacts DEF Split

LEMMA SplitNext == Shape' /\ Decided' => Split'
BY SplitIs, PTL

LEMMA DecideKeeps == IInv /\ Decide => IInv'
<1> SUFFICES ASSUME IInv, Decide
             PROVE  IInv'
  OBVIOUS
<1>1. /\ pc = "read" /\ Untouched /\ reply.status = 0
      /\ role # "none" /\ Sound
      /\ UNCHANGED <<config, role, payload, received, answer>>
  BY DEF Decide, IInv, Stage
<1>2. Decided'
  <2>1. role' # "none" /\ Sound'
    BY <1>1 DEF Sound, Forms
  <2>2. allowed' = Where(payload.messages, Allowed)'
    BY <1>1 DEF Decide, Where, Allowed, Denial
  <2>3. denials' = Denials(payload.messages)'
    BY <1>1, ZenonT(40) DEF Decide, Where, Allowed, Denial, Denials
  <2> QED
    BY <2>1, <2>2, <2>3 DEF Decided
<1>3. Shape'
  BY <1>1 DEF IInv, Shape, Decide, Reply
<1>4. /\ denials' \in Seq(Item)
      /\ OnceEach(denials', Blocked')
      /\ \A k \in DOMAIN denials' : denials'[k].what # "all_tools"
      /\ allowed' = <<>> => Blocked' = Requests'
  BY <1>2, <1>3, SplitNext DEF Split, OnceEach
<1>5. Requests' = Requests
  BY <1>1 DEF Requests
<1>6. received' = <<>> /\ answer'.type = "none"
  BY <1>1 DEF Untouched, NoAnswer
<1>7. CASE allowed' # <<>>
  <2>1. pc' = "forward" /\ reply' = reply
    BY <1>7 DEF Decide
  <2>2. Stage'
    BY <1>1, <1>2, <1>7, <2>1 DEF Stage, Untouched
  <2> QED
    BY <1>3, <2>1, <2>2, NoReplyYet DEF IInv
<1>8. CASE allowed' = <<>>
  <2>1. /\ pc' = "done"
        /\ \/ denials' = <<>> /\ reply' = [status |-> 204, shape |-> "empty", items |-> <<>>]
           \/ reply' = [status |-> 200, shape |-> IF payload.batch THEN "array" ELSE "object",
                        items |-> denials']
    BY <1>8 DEF Decide, Reply
  <2>2. reply'.items = denials' /\ reply'.status \in {200, 204}
    BY <2>1
  <2>3. Stage'
    BY <1>2, <1>6, <2>1, <2>2 DEF Stage
  <2>4. EveryIdOnce'
    <3>1. CASE reply'.status = 204
      BY <3>1 DEF EveryIdOnce
    <3>2. CASE reply'.status # 204
      <4>1. reply'.shape = "object" <=> ~payload.batch
        BY <2>1, <3>2
      <4>2. OnceEach(denials', Requests)
        BY <1>4, <1>5, <1>8
      <4> HIDE DEF IInv
      <4> QED
        BY <1>1, <2>2, <4>1, <4>2, RepliesOnce
    <3> QED
      BY <3>1, <3>2
  <2>5. DenialStands'
    BY <2>2, RepliesDenials
  <2>6. AdminToolsHidden'
    BY <1>4, <2>2, RepliesHide
  <2> QED
    BY <1>3, <2>3, <2>4, <2>5, <2>6 DEF IInv
<1> QED
  BY <1>7, <1>8


\* The split is made once.
LEMMA DecidedStays ==
  ASSUME Decided, UNCHANGED <<config, role, payload, allowed, denials>>
  PROVE  Decided'
<1>1. role' # "none" /\ Sound'
  BY DEF Decided, Sound, Forms
<1>2. allowed' = Where(payload.messages, Allowed)'
  BY DEF Decided, Where, Allowed, Denial
<1>3. denials' = Denials(payload.messages)'
  BY ZenonT(40) DEF Decided, Denials, Where, Allowed, Denial
<1> QED
  BY <1>1, <1>2, <1>3 DEF Decided

LEMMA ReceiveKeeps == IInv /\ Receive => IInv'
<1> SUFFICES ASSUME IInv, Receive
             PROVE  IInv'
  OBVIOUS
<1>1. /\ pc = "forward" /\ received' = allowed
      /\ UNCHANGED <<config, role, payload, pc, allowed, denials, answer, reply>>
  BY DEF Receive
<1>2. Decided /\ Decided' /\ allowed # <<>> /\ answer = NoAnswer /\ reply.status = 0
  BY <1>1, DecidedStays DEF IInv, Stage
<1>3. Shape' /\ Stage'
  BY <1>1, <1>2 DEF IInv, Shape, Stage
<1> QED
  BY <1>1, <1>3, NoReplyYet DEF IInv

\* Whatever the server returns, nothing else moves.
LEMMA AnswersKeeps ==
  ASSUME IInv, NEW type, NEW status, NEW items, Answers(type, status, items),
         \/ type \in {"json", "stream"} /\ status = 200 /\ items = Responses
         \/ type = "none" /\ status \in {202, 204} /\ items = <<>> /\ Responses = <<>>
         \/ type = "malformed" /\ status = 200 /\ items = <<>>
         \/ type = "html" /\ status = 500 /\ items = <<>>
  PROVE  IInv'
<1>1. /\ pc = "forward" /\ received # <<>> /\ pc' = "build"
      /\ answer' = [type |-> type, status |-> status, items |-> items]
      /\ UNCHANGED <<config, role, payload, allowed, denials, received, reply>>
  BY DEF Answers
<1>2. Decided /\ Decided' /\ allowed # <<>> /\ received = allowed /\ reply.status = 0
  BY <1>1, DecidedStays DEF IInv, Stage
<1>3. Responses' = Responses
  BY <1>1 DEF Responses, Where
<1>4. AnswerIsPossible'
  <2>1. answer'.type = type /\ answer'.status = status /\ answer'.items = items
    BY <1>1
  <2> QED
    BY <1>3, <2>1 DEF AnswerIsPossible
<1>5. Shape' /\ Stage'
  BY <1>1, <1>2, <1>4 DEF IInv, Shape, Stage
<1> QED
  BY <1>1, <1>5, NoReplyYet DEF IInv

LEMMA ForwardFailsKeeps == IInv /\ ForwardFails => IInv'
<1> SUFFICES ASSUME IInv, ForwardFails
             PROVE  IInv'
  OBVIOUS
<1> DEFINE error == Error(Head(allowed).id, "upstream_unavailable")
<1>1. /\ pc = "forward" /\ pc' = "done"
      /\ UNCHANGED <<config, role, payload, allowed, denials, received, answer>>
  BY DEF ForwardFails, Reply
<1>2. Shape /\ Decided /\ Decided' /\ allowed # <<>> /\ received \in {<<>>, allowed}
  BY <1>1, DecidedStays DEF IInv, Stage
<1>3. error \in Item /\ error.what # "all_tools"
  <2>1. Head(allowed) \in Msg
    BY <1>2, AllowedFacts, HeadTailProperties
  <2> QED
    BY <2>1 DEF Error, Item, Msg, Whats
<1>4. Split
  BY <1>2, SplitIs
<1>5. /\ reply'.status = 502
      /\ payload.batch => reply'.items = denials \o <<error>>
      /\ ~payload.batch => reply'.items = <<error>>
  <2> HIDE DEF error
  <2>1. CASE payload.batch
    <3>1. Reply(502, "array", denials \o <<error>>)
      BY <2>1 DEF ForwardFails, error
    <3> QED
      BY <2>1, <3>1 DEF Reply
  <2>2. CASE ~payload.batch
    <3>1. Reply(502, "object", <<error>>)
      BY <2>2 DEF ForwardFails, error
    <3> QED
      BY <2>2, <3>1 DEF Reply
  <2> QED
    BY <2>1, <2>2
<1>6. payload.batch \/ denials = <<>>
  BY <1>2, SingleMessage
<1> HIDE DEF error
<1> DEFINE items == reply'.items
<1>7. /\ \A k \in DOMAIN denials : \E j \in DOMAIN items : items[j] = denials[k]
      /\ \A j \in DOMAIN items : items[j].what # "all_tools"
  <2>1. PICK tail \in Seq(Item) : tail = <<error>> /\ DOMAIN tail = {1} /\ tail[1] = error
    BY <1>3, OneItem
  <2>2. CASE payload.batch
    <3>1. items = denials \o tail
      BY <1>5, <2>1, <2>2
    <3>2. denials \in Seq(Item)
      BY <1>4 DEF Split
    <3> HIDE DEF items
    <3>3. Joins(items, denials, tail)
      BY <3>1, <3>2, ConcatJoins
    <3> QED
      BY <1>3, <1>4, <2>1, <3>3 DEF Split, Joins
  <2>3. CASE ~payload.batch
    <3>1. items = tail /\ denials = <<>>
      BY <1>5, <1>6, <2>1, <2>3
    <3> QED
      BY <1>3, <2>1, <3>1
  <2> QED
    BY <2>2, <2>3
<1>8. Shape' /\ Stage'
  BY <1>1, <1>2, <1>5 DEF IInv, Shape, Stage
<1>9. EveryIdOnce'
  BY <1>5 DEF EveryIdOnce
<1>10. DenialStands'
  BY <1>1, <1>7, RepliesDenials
<1>11. AdminToolsHidden'
  BY <1>7, RepliesHide
<1> QED
  BY <1>8, <1>9, <1>10, <1>11 DEF IInv


\* The server's own response, when nothing was denied and nothing is filtered.
LEMMA PassedOn ==
  ASSUME IInv, pc = "build", denials = <<>>, ~(config.filter /\ answer.type \in {"json", "malformed"}),
         UNCHANGED <<config, role, payload, allowed, denials, received, answer>>,
         reply'.items = answer.items,
         answer.type = "json" => (reply'.shape = "object" <=> ~payload.batch)
  PROVE  EveryIdOnce' /\ DenialStands' /\ AdminToolsHidden'
<1>1. Shape /\ Decided /\ received = allowed /\ AnswerIsPossible
  BY DEF IInv, Stage
<1>2. Blocked = {}
  BY <1>1, DenialsFacts
<1>3. Responses \in Seq(Item) /\ OnceEach(Responses, Requests)
  BY <1>1, <1>2, ResponsesFacts
<1>4. EveryIdOnce'
  <2>1. CASE answer.type = "json"
    <3>1. reply'.items = Responses
      BY <1>1, <2>1 DEF AnswerIsPossible
    <3> QED
      BY <1>3, <2>1, <3>1, RepliesOnce
  <2>2. CASE answer.type = "none"
    <3>1. reply'.items = Responses /\ Responses = <<>>
      BY <1>1, <2>2 DEF AnswerIsPossible
    <3>2. Requests = {}
      BY <1>3, <3>1 DEF OnceEach
    <3> QED
      BY <1>3, <3>1, <3>2, RepliesOnce
  <2>3. CASE answer.type \notin {"json", "none"}
    BY <2>3 DEF EveryIdOnce
  <2> QED
    BY <2>1, <2>2, <2>3
<1>5. DenialStands'
  BY DEF DenialStands
<1>6. AdminToolsHidden'
  <2>1. config.filter /\ answer.type # "stream" => answer.items = <<>>
    BY <1>1 DEF AnswerIsPossible
  <2>2. config'.filter /\ answer'.type # "stream" => \A k \in DOMAIN reply'.items : reply'.items[k].what # "all_tools"
    BY <2>1
  <2> QED
    BY <2>2, RepliesHide
<1> QED
  BY <1>4, <1>5, <1>6

\* The denials alone, when the server's response is not JSON.
LEMMA DenialsAlone ==
  ASSUME IInv, pc = "build", denials # <<>>, answer.type \notin {"json", "malformed"},
         UNCHANGED <<config, role, payload, allowed, denials, received, answer>>,
         reply'.items = denials, reply'.shape = "array"
  PROVE  EveryIdOnce' /\ DenialStands' /\ AdminToolsHidden'
<1>1. Shape /\ Decided /\ received = allowed /\ allowed # <<>> /\ AnswerIsPossible
  BY DEF IInv, Stage
<1>2. Split /\ payload.batch
  BY <1>1, SplitIs, SingleMessage
<1>3. EveryIdOnce'
  <2>1. CASE answer.type = "none"
    <3>1. Responses = <<>>
      BY <1>1, <2>1 DEF AnswerIsPossible
    <3>2. Requests \ Blocked = {}
      BY <1>1, <3>1, ResponsesFacts DEF OnceEach
    <3>3. Blocked = Requests
      BY <3>2 DEF Blocked
    <3> QED
      BY <1>2, <3>3, RepliesOnce DEF Split
  <2>2. CASE answer.type # "none"
    BY <2>2 DEF EveryIdOnce
  <2> QED
    BY <2>1, <2>2
<1>4. DenialStands'
  BY RepliesDenials
<1>5. AdminToolsHidden'
  BY <1>2, RepliesHide DEF Split
<1> QED
  BY <1>3, <1>4, <1>5

\* The denials and an error, when it is half an object.
LEMMA DenialsAndError ==
  ASSUME IInv, pc = "build", NEW error \in Item, error.what # "all_tools",
         UNCHANGED <<config, role, payload, allowed, denials, received, answer>>,
         NEW tail \in Seq(Item), DOMAIN tail = {1}, tail[1] = error,
         NEW items, Joins(items, denials, tail), reply'.items = items, reply'.status = 502
  PROVE  EveryIdOnce' /\ DenialStands' /\ AdminToolsHidden'
<1>1. Split
  BY SplitIs DEF IInv, Stage
<1>2. \A k \in DOMAIN denials : \E j \in DOMAIN items : items[j] = denials[k]
  BY DEF Joins
<1>3. \A j \in DOMAIN items : items[j].what # "all_tools"
  BY <1>1 DEF Split, Joins
<1>4. EveryIdOnce'
  BY DEF EveryIdOnce
<1>5. DenialStands'
  BY <1>2, RepliesDenials
<1>6. AdminToolsHidden'
  BY <1>3, RepliesHide
<1> QED
  BY <1>4, <1>5, <1>6

\* What a server's responses are once they went through the filter, if it is on.
LEMMA KeptFacts ==
  ASSUME IInv, pc = "build", answer.type = "json",
         NEW kept, kept = IF config.filter THEN Filtered(answer.items) ELSE answer.items
  PROVE  /\ kept \in Seq(Item)
         /\ OnceEach(kept, Requests \ Blocked)
         /\ config.filter /\ role # "admin" => \A k \in DOMAIN kept : kept[k].what # "all_tools"
<1>1. Shape /\ Decided /\ received = allowed /\ answer.items = Responses
  BY DEF IInv, Stage, AnswerIsPossible
<1> DEFINE served == Requests \ Blocked
<1>2. PICK responses \in Seq(Item) : responses = answer.items /\ OnceEach(responses, served)
  BY <1>1, ResponsesFacts
<1> HIDE DEF served
<1>3. /\ Filtered(responses) \in Seq(Item)
      /\ OnceEach(Filtered(responses), served)
      /\ role # "admin" => \A k \in DOMAIN Filtered(responses) : Filtered(responses)[k].what # "all_tools"
  BY <1>2, FilteredFacts
<1>4. CASE config.filter
  <2>1. kept = Filtered(responses)
    BY <1>2, <1>4
  <2> QED
    BY <1>3, <2>1 DEF served
<1>5. CASE ~config.filter
  <2>1. kept = responses
    BY <1>2, <1>5
  <2> QED
    BY <1>2, <1>5, <2>1 DEF served
<1> QED
  BY <1>4, <1>5

\* The server's responses and the denials.
LEMMA Merged ==
  ASSUME IInv, pc = "build", answer.type = "json",
         UNCHANGED <<config, role, payload, allowed, denials, received, answer>>,
         NEW kept, OnceEach(kept, Requests \ Blocked),
         config.filter /\ role # "admin" => \A k \in DOMAIN kept : kept[k].what # "all_tools",
         NEW items, Joins(items, kept, denials), reply'.items = items,
         reply'.shape = "object" <=> ~payload.batch
  PROVE  EveryIdOnce' /\ DenialStands' /\ AdminToolsHidden'
<1>1. Split
  BY SplitIs DEF IInv, Stage
<1>2. OnceEach(items, Requests)
  <2> DEFINE served == Requests \ Blocked
  <2>1. served \cap Blocked = {} /\ served \cup Blocked = Requests
    BY DEF Blocked
  <2>2. OnceEach(kept, served) /\ OnceEach(denials, Blocked)
    BY <1>1 DEF Split
  <2> HIDE DEF served
  <2>3. OnceEach(items, served \cup Blocked)
    BY <2>1, <2>2 DEF Joins
  <2> QED
    BY <2>1, <2>3
<1>3. \A k \in DOMAIN denials : \E j \in DOMAIN items : items[j] = denials[k]
  BY DEF Joins
<1>4. config.filter /\ role # "admin" => \A j \in DOMAIN items : items[j].what # "all_tools"
  BY <1>1 DEF Split, Joins
<1>5. EveryIdOnce'
  BY <1>2, RepliesOnce
<1>6. DenialStands'
  BY <1>3, RepliesDenials
<1>7. AdminToolsHidden'
  BY <1>4, RepliesHide
<1> QED
  BY <1>5, <1>6, <1>7

LEMMA BuildKeeps == IInv /\ Build => IInv'
<1> SUFFICES ASSUME IInv, Build
             PROVE  IInv'
  OBVIOUS
<1> DEFINE isJson == answer.type \in {"json", "malformed"}
           kept == IF config.filter THEN Filtered(answer.items) ELSE answer.items
           shape == IF payload.batch THEN "array" ELSE "object"
           malformed == Error(NoId, "upstream_unavailable")
           plain == CASE answer.type = "json" -> shape
                      [] answer.type = "none" -> "empty"
                      [] OTHER -> answer.type
<1>1. /\ pc = "build" /\ pc' = "done"
      /\ UNCHANGED <<config, role, payload, allowed, denials, received, answer>>
      /\ IF denials = <<>> /\ ~(config.filter /\ isJson) THEN Reply(answer.status, plain, answer.items)
         ELSE IF ~isJson THEN Reply(answer.status, "array", denials)
         ELSE IF answer.type = "malformed" THEN Reply(502, "array", denials \o <<malformed>>)
         ELSE Reply(answer.status, IF denials = <<>> THEN shape ELSE "array", kept \o denials)
  BY DEF Build, Reply
<1>2. /\ Shape /\ Decided /\ Decided' /\ allowed # <<>> /\ received = allowed
      /\ AnswerIsPossible
  BY <1>1, DecidedStays DEF IInv, Stage
<1>3. Split
  BY <1>2, SplitIs
<1>4. denials # <<>> => payload.batch
  BY <1>2, SingleMessage
<1>5. answer.status # 0
  BY <1>2 DEF AnswerIsPossible
<1> HIDE DEF kept, malformed, plain
<1>6. ASSUME reply'.status # 0, EveryIdOnce', DenialStands', AdminToolsHidden'
      PROVE  IInv'
  <2>1. Shape' /\ Stage'
    BY <1>1, <1>2, <1>6 DEF IInv, Shape, Stage
  <2> QED
    BY <1>6, <2>1 DEF IInv
<1>7. CASE denials = <<>> /\ ~(config.filter /\ isJson)
  <2>1. reply' = [status |-> answer.status, shape |-> plain, items |-> answer.items]
    BY <1>1, <1>7 DEF Reply
  <2>2. answer.type = "json" => plain = shape
    BY DEF plain
  <2>3. answer.type = "json" => (reply'.shape = "object" <=> ~payload.batch)
    BY <2>1, <2>2
  <2> QED
    BY <1>1, <1>5, <1>6, <1>7, <2>1, <2>3, PassedOn
<1>8. CASE ~(denials = <<>> /\ ~(config.filter /\ isJson)) /\ ~isJson
  <2>1. reply' = [status |-> answer.status, shape |-> "array", items |-> denials]
    BY <1>1, <1>8 DEF Reply
  <2> QED
    BY <1>1, <1>5, <1>6, <1>8, <2>1, DenialsAlone
<1>9. CASE isJson /\ answer.type = "malformed" /\ ~(denials = <<>> /\ ~(config.filter /\ isJson))
  <2>1. reply' = [status |-> 502, shape |-> "array", items |-> denials \o <<malformed>>]
    BY <1>1, <1>9 DEF Reply
  <2>2. PICK error \in Item : error = malformed /\ error.what # "all_tools"
    <3>1. malformed \in Item /\ malformed.what # "all_tools"
      BY DEF malformed, Error, Item, Whats, NoId
    <3> QED
      BY <3>1
  <2>3. PICK tail \in Seq(Item) : tail = <<malformed>> /\ DOMAIN tail = {1} /\ tail[1] = error
    BY <2>2, OneItem
  <2> DEFINE items == denials \o tail
  <2>4. Joins(items, denials, tail)
    BY <1>3, ConcatJoins DEF Split
  <2>5. reply'.items = items /\ reply'.status = 502
    BY <2>1, <2>3
  <2> HIDE DEF items
  <2>6. DOMAIN tail = {1} /\ tail[1] = error /\ error.what # "all_tools"
    BY <2>2, <2>3
  <2>7. EveryIdOnce' /\ DenialStands' /\ AdminToolsHidden'
    BY <1>1, <2>4, <2>5, <2>6, DenialsAndError
  <2> QED
    BY <1>6, <2>5, <2>7
<1>10. CASE answer.type = "json" /\ ~(denials = <<>> /\ ~(config.filter /\ isJson))
  <2> DEFINE items == kept \o denials
  <2>1. reply' = [status |-> answer.status, shape |-> IF denials = <<>> THEN shape ELSE "array", items |-> items]
    BY <1>1, <1>10 DEF Reply
  <2>2. /\ kept \in Seq(Item)
        /\ OnceEach(kept, Requests \ Blocked)
        /\ config.filter /\ role # "admin" => \A k \in DOMAIN kept : kept[k].what # "all_tools"
    BY <1>1, <1>10, KeptFacts DEF kept
  <2>3. Joins(items, kept, denials)
    BY <1>3, <2>2, ConcatJoins DEF Split
  <2>4. reply'.shape = "object" <=> ~payload.batch
    BY <1>4, <2>1
  <2>5. reply'.items = items /\ reply'.status # 0
    BY <1>5, <2>1
  <2> HIDE DEF items
  <2>6. EveryIdOnce' /\ DenialStands' /\ AdminToolsHidden'
    BY <1>1, <1>10, <2>2, <2>3, <2>4, <2>5, Merged
  <2> QED
    BY <1>6, <2>5, <2>6
<1> QED
  BY <1>7, <1>8, <1>9, <1>10

LEMMA InvStep == IInv /\ [Next]_vars => IInv'
<1> SUFFICES ASSUME IInv, [Next]_vars
             PROVE  IInv'
  OBVIOUS
<1>1. CASE AnswersJson
  <2>1. Answers("json", 200, Responses)
    BY <1>1 DEF AnswersJson
  <2> QED
    BY <2>1, AnswersKeeps
<1>2. CASE AnswersStream
  <2>1. Answers("stream", 200, Responses)
    BY <1>2 DEF AnswersStream
  <2> QED
    BY <2>1, AnswersKeeps
<1>3. CASE AnswersNothing
  <2>1. PICK status \in {202, 204} : Answers("none", status, <<>>) /\ Responses = <<>>
    BY <1>3 DEF AnswersNothing
  <2> QED
    BY <2>1, AnswersKeeps
<1>4. CASE AnswersGarbage
  <2>1. Answers("malformed", 200, <<>>) \/ Answers("html", 500, <<>>)
    BY <1>4 DEF AnswersGarbage
  <2> QED
    BY <2>1, AnswersKeeps
<1>5. CASE UNCHANGED vars
  <2>1. UNCHANGED <<config, role, payload, pc, allowed, denials, received, answer, reply>>
    BY <1>5 DEF vars
  <2>2. Shape'
    BY <2>1 DEF IInv, Shape
  <2>3. Stage'
    BY <2>1, DecidedStays
    DEF IInv, Stage, Untouched, AnswerIsPossible, Responses, Where
  <2>4. EveryIdOnce' /\ DenialStands' /\ AdminToolsHidden'
    BY <2>1 DEF IInv, EveryIdOnce, DenialStands, AdminToolsHidden, Delivered, Times, Requests, Ids
  <2> QED
    BY <2>2, <2>3, <2>4 DEF IInv
<1> QED
  BY <1>1, <1>2, <1>3, <1>4, <1>5, RefuseWholeKeeps, DecideKeeps, ForwardFailsKeeps, BuildKeeps,
     ReceiveKeeps DEF Next

LEMMA Invariant == Spec => []IInv
BY InvInitially, InvStep, PTL DEF Spec

-----------------------------------------------------------------------------
(* The theorems.                                                           *)

\* An exchange is well formed throughout handle_mcp_post: what goes
\* downstream are messages of the payload, denials carry ids of it, a single
\* message is not both forwarded and denied, and a reply is made once.
THEOREM TypeCorrect == Spec => []TypeOK
<1>1. IInv => TypeOK
  <2> SUFFICES ASSUME IInv
               PROVE  TypeOK
    OBVIOUS
  <2>1. ~payload.batch => Len(payload.messages) = 1
    BY MessagesAre DEF IInv, Shape
  <2>2. CASE Untouched
    <3>1. ToSet(allowed) = {} /\ Ids(denials) = {}
      BY <2>2 DEF Untouched, ToSet, Ids
    <3> QED
      BY <2>1, <2>2, <3>1 DEF IInv, Shape, Stage, Untouched, TypeOK
  <2>3. CASE ~Untouched
    <3>1. Decided /\ received \in {<<>>, allowed}
      BY <2>3 DEF IInv, Shape, Stage
    <3>2. ToSet(allowed) \subseteq ToSet(payload.messages)
      <4>1. \A k \in DOMAIN allowed : \E i \in DOMAIN payload.messages : allowed[k] = payload.messages[i]
        BY <3>1, AllowedFacts DEF IInv
      <4> QED
        BY <4>1 DEF ToSet
    <3>3. Ids(denials) \subseteq 1 .. MaxBatch
      <4>1. \A k \in DOMAIN denials : denials[k].id \in DOMAIN payload.messages
        BY <3>1, DenialsFacts, RequestIds DEF IInv, Blocked, OnceEach
      <4>2. DOMAIN payload.messages \subseteq 1 .. MaxBatch
        BY MessagesAre, GatewayAssumption DEF IInv, Shape
      <4> QED
        BY <4>1, <4>2 DEF Ids
    <3>4. ~payload.batch => denials = <<>> \/ allowed = <<>>
      BY <3>1, SingleMessage DEF IInv
    <3> QED
      BY <2>1, <3>1, <3>2, <3>3, <3>4 DEF IInv, Shape, Stage, TypeOK
  <2> QED
    BY <2>2, <2>3
<1> QED
  BY <1>1, Invariant, PTL

\* However the downstream server folds names or resolves repeated
\* keys, policy.evaluate and the envelope checks keep every privileged call of a
\* caller who is not an admin from it.
THEOREM NoPrivilegedCallEscapes == Spec => []NoEscalation
<1>1. IInv => NoEscalation
  <2> SUFFICES ASSUME IInv, role # "admin", NEW k \in DOMAIN received
               PROVE  /\ received[k].form = "sound"
                      /\ Folded(received[k].method) = "tools/call" => ~Privileged(received[k].tool)
    BY DEF NoEscalation
  <2>1. Decided /\ received = allowed
    BY DEF IInv, Shape, Stage, Untouched
  <2>2. PICK i \in DOMAIN payload.messages :
           Allowed(payload.messages[i]) /\ received[k] = payload.messages[i]
    BY <2>1, AllowedFacts DEF IInv
  <2>3. received[k].form = "sound"
    BY <2>1, <2>2 DEF Decided, Sound, Forms
  <2>4. Folded(received[k].method) = "tools/call" => ~Privileged(received[k].tool)
    BY <2>2 DEF Allowed, Denial
  <2> QED
    BY <2>3, <2>4
<1> QED
  BY <1>1, Invariant, PTL

\* _build_client_response merges the server's responses and the
\* denials so that each request of the payload is answered once and each
\* notification by nothing.
THEOREM EveryRequestAnsweredOnce == Spec => []EveryIdOnce
BY Invariant, PTL DEF IInv

\* No outcome of the forward, not its failure either, takes a denial
\* out of the reply.
THEOREM DenialsStand == Spec => []DenialStands
BY Invariant, PTL DEF IInv

\* _filter_tools_list leaves no admin tool in a reply that it can read.
THEOREM AdminToolsStayHidden == Spec => []AdminToolsHidden
BY Invariant, PTL DEF IInv
=============================================================================
