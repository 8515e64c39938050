------------------------ MODULE StdioTransportProofs ------------------------
(***************************************************************************)
(* Proofs about StdioTransport, for every set of lines, number of lines    *)
(* and size of the rejection queue: its type invariant, that every line    *)
(* that is owed an answer has exactly one, and that an answer carries the  *)
(* id of its own line.                                                     *)
(***************************************************************************)
EXTENDS StdioTransport, TLAPS

\* The id an answer to the n-th line must carry.
OwnId(n) == IF input[n].shape = "object" /\ input[n].id = "usable" THEN n ELSE Null

Kinds == {PARSE_ERROR, INVALID_REQUEST, INVALID_PARAMS, Answered}
OwnAnswers ==
    {a \in [line : 1 .. Len(input), id : Nat, kind : Kinds] : a.id = OwnId(a.line)}

\* No line is answered twice in a sequence of answers.
Once(answers) == \A i, j \in DOMAIN answers : i # j => answers[i].line # answers[j].line

\* The lines read so far that are owed an answer.
OwedSoFar == {n \in 1 .. next : Owed(n)}

\* EveryOwedLineHasOne, without the tuple.
Partition ==
    /\ LinesOf(wire) \cup LinesOf(pumped) \cup LinesOf(queue) \cup LinesOf(waiting) \cup serving
         = OwedSoFar
    /\ LinesOf(wire) \cap LinesOf(pumped) = {}
    /\ LinesOf(wire) \cap LinesOf(queue) = {}
    /\ LinesOf(wire) \cap LinesOf(waiting) = {}
    /\ LinesOf(wire) \cap serving = {}
    /\ LinesOf(pumped) \cap LinesOf(queue) = {}
    /\ LinesOf(pumped) \cap LinesOf(waiting) = {}
    /\ LinesOf(pumped) \cap serving = {}
    /\ LinesOf(queue) \cap LinesOf(waiting) = {}
    /\ LinesOf(queue) \cap serving = {}
    /\ LinesOf(waiting) \cap serving = {}

OnceEach == Once(wire) /\ Once(pumped) /\ Once(queue) /\ Once(waiting)

\* What is in flight is an answer under its own id, and the server has only
\* requests with a usable one.
Typed ==
    /\ input \in Seq(LineType)
    /\ wire \in Seq(OwnAnswers) /\ pumped \in Seq(OwnAnswers)
    /\ queue \in Seq(OwnAnswers) /\ waiting \in Seq(OwnAnswers)
    /\ Len(waiting) <= 1
    /\ \A n \in serving : input[n].shape = "object" /\ input[n].id = "usable"

IInv == TypeOK /\ Typed /\ Partition /\ OnceEach
-----------------------------------------------------------------------------
(***************************************************************************)
(* Sequences of answers                                                    *)
(***************************************************************************)
\* One more answer is to one more line.
LEMMA Appended ==
    ASSUME NEW S, NEW answers \in Seq(S), NEW a \in S
    PROVE  /\ Append(answers, a) \in Seq(S)
           /\ LinesOf(Append(answers, a)) = LinesOf(answers) \cup {a.line}
           /\ Once(answers) /\ a.line \notin LinesOf(answers) => Once(Append(answers, a))
<1> DEFINE longer == Append(answers, a)
<1>1. /\ longer \in Seq(S)
      /\ DOMAIN longer = 1 .. Len(answers) + 1
      /\ \A i \in 1 .. Len(answers) : longer[i] = answers[i]
      /\ longer[Len(answers) + 1] = a
      /\ DOMAIN answers = 1 .. Len(answers)
      /\ Len(answers) \in Nat
    OBVIOUS
<1> HIDE DEF longer
<1>2. LinesOf(longer) = LinesOf(answers) \cup {a.line}
    <2>1. ASSUME NEW i \in DOMAIN longer
          PROVE  longer[i].line \in LinesOf(answers) \cup {a.line}
        BY <1>1 DEF LinesOf
    <2>2. ASSUME NEW i \in DOMAIN answers
          PROVE  answers[i].line \in LinesOf(longer)
        <3>1. i \in DOMAIN longer /\ longer[i] = answers[i]
            BY <1>1
        <3> QED BY <3>1 DEF LinesOf
    <2>3. a.line \in LinesOf(longer)
        <3>1. Len(answers) + 1 \in DOMAIN longer
            BY <1>1
        <3> QED BY <1>1, <3>1 DEF LinesOf
    <2> QED BY <2>1, <2>2, <2>3 DEF LinesOf
<1>3. ASSUME Once(answers), a.line \notin LinesOf(answers)
      PROVE  Once(longer)
    <2> SUFFICES ASSUME NEW i \in DOMAIN longer, NEW j \in DOMAIN longer, i # j
                 PROVE  longer[i].line # longer[j].line
        BY DEF Once
    <2>1. \A k \in 1 .. Len(answers) : longer[k].line \in LinesOf(answers)
        BY <1>1 DEF LinesOf
    <2>2. CASE i \in 1 .. Len(answers) /\ j \in 1 .. Len(answers)
        BY <1>1, <1>3, <2>2 DEF Once
    <2>3. CASE i = Len(answers) + 1
        BY <1>1, <1>3, <2>1, <2>3
    <2>4. CASE j = Len(answers) + 1
        BY <1>1, <1>3, <2>1, <2>4
    <2> QED BY <1>1, <2>2, <2>3, <2>4
<1> QED BY <1>1, <1>2, <1>3 DEF longer

\* The first answer taken off a sequence, and the rest.
LEMMA Taken ==
    ASSUME NEW S, NEW answers \in Seq(S), answers # <<>>
    PROVE  /\ Head(answers) \in S
           /\ Tail(answers) \in Seq(S)
           /\ Len(Tail(answers)) < Len(answers)
           /\ LinesOf(answers) = LinesOf(Tail(answers)) \cup {Head(answers).line}
           /\ Once(answers) =>
                 Once(Tail(answers)) /\ Head(answers).line \notin LinesOf(Tail(answers))
<1> DEFINE rest == Tail(answers)
<1>1. /\ Head(answers) = answers[1] /\ answers[1] \in S
      /\ rest \in Seq(S)
      /\ Len(rest) = Len(answers) - 1
      /\ DOMAIN rest = 1 .. Len(answers) - 1
      /\ \A i \in 1 .. Len(answers) - 1 : rest[i] = answers[i + 1]
      /\ DOMAIN answers = 1 .. Len(answers)
      /\ Len(answers) \in Nat \ {0}
    OBVIOUS
<1> HIDE DEF rest
<1>2. ASSUME NEW i \in DOMAIN rest
      PROVE  i + 1 \in DOMAIN answers /\ i + 1 # 1 /\ rest[i] = answers[i + 1]
    BY <1>1
<1>3. LinesOf(answers) = LinesOf(rest) \cup {answers[1].line}
    <2>1. ASSUME NEW i \in DOMAIN answers
          PROVE  answers[i].line \in LinesOf(rest) \cup {answers[1].line}
        <3>1. CASE i = 1
            BY <3>1
        <3>2. CASE i # 1
            <4>1. i - 1 \in DOMAIN rest /\ rest[i - 1] = answers[i]
                BY <1>1, <3>2
            <4> QED BY <4>1 DEF LinesOf
        <3> QED BY <3>1, <3>2
    <2>2. 1 \in DOMAIN answers
        BY <1>1
    <2>3. LinesOf(rest) \subseteq LinesOf(answers)
        BY <1>2 DEF LinesOf
    <2> QED BY <2>1, <2>2, <2>3 DEF LinesOf
<1>4. ASSUME Once(answers)
      PROVE  Once(rest) /\ answers[1].line \notin LinesOf(rest)
    <2>1. Once(rest)
        <3> SUFFICES ASSUME NEW i \in DOMAIN rest, NEW j \in DOMAIN rest, i # j
                     PROVE  rest[i].line # rest[j].line
            BY DEF Once
        <3>1. i + 1 # j + 1
            BY <1>1
        <3> QED BY <1>2, <1>4, <3>1 DEF Once
    <2>2. answers[1].line \notin LinesOf(rest)
        <3>1. 1 \in DOMAIN answers
            BY <1>1
        <3> QED BY <1>2, <1>4, <3>1 DEF Once, LinesOf
    <2> QED BY <2>1, <2>2
<1> QED BY <1>1, <1>3, <1>4 DEF rest

\* A sequence of one element, joined to another.
LEMMA Single ==
    ASSUME NEW S, NEW s \in Seq(S), s # <<>>, Len(s) <= 1
    PROVE  s = <<s[1]>> /\ s[1] \in S
<1>1. Len(s) = 1 /\ DOMAIN s = 1 .. 1
    <2>1. Len(s) \in Nat \ {0} /\ DOMAIN s = 1 .. Len(s)
        OBVIOUS
    <2> QED BY <2>1
<1>2. s[1] \in S
    BY <1>1
<1>3. <<s[1]>> \in Seq(S) /\ Len(<<s[1]>>) = 1 /\ <<s[1]>>[1] = s[1]
    BY <1>2
<1> QED BY <1>1, <1>2, <1>3

LEMMA Joined ==
    ASSUME NEW S, NEW s \in Seq(S), NEW a \in S
    PROVE  s \o <<a>> = Append(s, a)
<1> DEFINE left  == s \o <<a>>
           right == Append(s, a)
<1>1. <<a>> \in Seq(S) /\ Len(<<a>>) = 1
    OBVIOUS
<1>2. left \in Seq(S) /\ right \in Seq(S) /\ Len(left) = Len(s) + 1 /\ Len(right) = Len(s) + 1
    BY <1>1
<1>3. \A i \in 1 .. Len(s) + 1 : left[i] = right[i]
    BY <1>1
<1> HIDE DEF left, right
<1>4. left = right
    BY <1>2, <1>3
<1> QED BY <1>4 DEF left, right

\* A sequence of one answer, and of none.
LEMMA Short ==
    ASSUME NEW a
    PROVE  /\ LinesOf(<<>>) = {} /\ Once(<<>>)
           /\ LinesOf(<<a>>) = {a.line} /\ Once(<<a>>)
    BY DEF LinesOf, Once
-----------------------------------------------------------------------------
(***************************************************************************)
(* One line                                                                *)
(***************************************************************************)
\* classify_line answers exactly the lines that are owed an answer and that the
\* server will not answer itself, each under its own id.
LEMMA Classified ==
    ASSUME input \in Seq(LineType), NEW n \in 1 .. Len(input)
    PROVE  /\ ClassifyLine(n) = Pass =>
                 /\ input[n].shape = "object"
                 /\ Owed(n) <=> input[n].id = "usable" /\ input[n].method = "named"
           /\ ClassifyLine(n) = Drop => ~Owed(n)
           /\ ClassifyLine(n) \notin {Pass, Drop} =>
                 ClassifyLine(n) \in OwnAnswers /\ ClassifyLine(n).line = n /\ Owed(n)
<1> DEFINE line == input[n]
<1>1. line \in LineType
    OBVIOUS
<1>2. n \in Nat \ {0}
    OBVIOUS
<1>3. \A code \in {PARSE_ERROR, INVALID_REQUEST, INVALID_PARAMS}, id \in Nat :
         Error(n, code, id) \notin {Pass, Drop}
    BY DEF Error, Pass, Drop, PARSE_ERROR, INVALID_REQUEST, INVALID_PARAMS
<1>4. Pass # Drop
    BY DEF Error, Pass, Drop
<1>5. \A code \in {PARSE_ERROR, INVALID_REQUEST, INVALID_PARAMS} :
         Error(n, code, OwnId(n)) \in OwnAnswers /\ Error(n, code, OwnId(n)).line = n
    BY <1>2 DEF Error, OwnAnswers, Kinds, OwnId, Null
<1>6. CASE line.shape = "blank"
    <2>1. ClassifyLine(n) = Drop
        BY <1>6 DEF ClassifyLine
    <2> QED BY <1>4, <1>6, <2>1 DEF Owed
<1>7. CASE line.shape \in {"not json", "list", "scalar"}
    <2>1. PICK code \in {PARSE_ERROR, INVALID_REQUEST} : ClassifyLine(n) = Error(n, code, Null)
        BY <1>7 DEF ClassifyLine
    <2>2. OwnId(n) = Null
        BY <1>7 DEF OwnId
    <2>3. ClassifyLine(n) = Error(n, code, OwnId(n)) /\ Null \in Nat
        BY <2>1, <2>2 DEF Null
    <2>4. ClassifyLine(n) \notin {Pass, Drop}
        BY <1>3, <2>1, <2>3
    <2>5. Owed(n)
        BY <1>7 DEF Owed
    <2> QED BY <1>5, <2>3, <2>4, <2>5
<1>8. CASE line.shape = "object" /\ line.method = "absent" /\ line.answer
    <2>1. ClassifyLine(n) = Pass
        BY <1>8 DEF ClassifyLine
    <2> QED BY <1>4, <1>8, <2>1 DEF Owed, IsResponse
<1>9. CASE line.shape = "object" /\ ~(line.method = "absent" /\ line.answer)
    <2>1. Owed(n) <=> line.id # "absent"
        BY <1>9 DEF Owed, IsResponse
    <2>2. OwnId(n) = RecoverableId(n)
        BY <1>9 DEF OwnId, RecoverableId
    <2>3. ASSUME NEW code \in {PARSE_ERROR, INVALID_REQUEST, INVALID_PARAMS}
          PROVE  IF Owed(n) THEN Reject(n, code) = Error(n, code, OwnId(n))
                            ELSE Reject(n, code) = Drop
        BY <2>1, <2>2 DEF Reject
    <2>4. ClassifyLine(n) =
             IF ~line.version             THEN Reject(n, INVALID_REQUEST)
             ELSE IF line.method # "named" THEN Reject(n, INVALID_REQUEST)
             ELSE IF ~line.params          THEN Reject(n, INVALID_PARAMS)
             ELSE IF line.id # "absent" /\ RecoverableId(n) = Null
                                           THEN Error(n, INVALID_REQUEST, Null)
             ELSE Pass
        BY <1>9 DEF ClassifyLine
    <2>5. CASE \/ ClassifyLine(n) = Reject(n, INVALID_REQUEST)
               \/ ClassifyLine(n) = Reject(n, INVALID_PARAMS)
        <3>1. PICK code \in {PARSE_ERROR, INVALID_REQUEST, INVALID_PARAMS} :
                 ClassifyLine(n) = Reject(n, code)
            BY <2>5
        <3>2. OwnId(n) \in Nat
            BY <1>2 DEF OwnId, Null
        <3> QED BY <1>3, <1>4, <1>5, <2>3, <3>1, <3>2
    <2>6. CASE /\ line.id # "absent" /\ RecoverableId(n) = Null
               /\ ClassifyLine(n) = Error(n, INVALID_REQUEST, Null)
        BY <1>3, <1>5, <2>1, <2>2, <2>6 DEF Null
    <2>7. CASE /\ line.method = "named"
               /\ ~(line.id # "absent" /\ RecoverableId(n) = Null)
               /\ ClassifyLine(n) = Pass
        <3>1. line.id # "absent" <=> line.id = "usable"
            BY <1>1, <2>7 DEF RecoverableId, LineType
        <3> QED BY <1>4, <1>9, <2>1, <2>7, <3>1
    <2> QED BY <2>4, <2>5, <2>6, <2>7
<1> QED BY <1>1, <1>6, <1>7, <1>8, <1>9 DEF LineType
-----------------------------------------------------------------------------
(***************************************************************************)
(* The invariant                                                           *)
(***************************************************************************)
LEMMA InitInvariant == Init => IInv
<1> SUFFICES ASSUME Init
             PROVE  IInv
    OBVIOUS
<1>1. PICK m \in 0 .. MaxLines : input \in [1 .. m -> Lines]
    BY DEF Init, BoundedSeq, SeqOf
<1>2. input \in Seq(LineType)
    BY <1>1, BoundsAssumption, LinesAssumption
<1>3. Len(input) \in Nat
    BY <1>2
<1>4. OwedSoFar = {}
    BY DEF Init, OwedSoFar
<1>5. LinesOf(<<>>) = {} /\ Once(<<>>)
    BY DEF LinesOf, Once
<1> QED
    BY <1>2, <1>3, <1>4, <1>5, BoundsAssumption
    DEF Init, IInv, TypeOK, Typed, Partition, OnceEach

\* A line is read: it goes to one place, or to none if nothing is owed to it.
LEMMA ReadLineKeeps == IInv /\ ReadLine => IInv'
<1> SUFFICES ASSUME IInv, ReadLine
             PROVE  IInv'
    OBVIOUS
<1> DEFINE n == next + 1
           v == ClassifyLine(n)
<1>1. /\ next \in Nat /\ n \in Nat /\ n \in 1 .. Len(input) /\ n \notin 1 .. next
      /\ next' = n
      /\ input' = input /\ wire' = wire /\ pumped' = pumped /\ server' = server
      /\ reader = "reading" /\ waiting = <<>>
    BY DEF IInv, TypeOK, Typed, ReadLine
<1>2. /\ v = Pass =>
            /\ input[n].shape = "object"
            /\ Owed(n) <=> input[n].id = "usable" /\ input[n].method = "named"
      /\ v = Drop => ~Owed(n)
      /\ v \notin {Pass, Drop} => v \in OwnAnswers /\ v.line = n /\ Owed(n)
    BY <1>1, Classified DEF IInv, Typed
<1>3. OwnAnswers' = OwnAnswers
    BY <1>1 DEF OwnAnswers, OwnId
<1>4. OwedSoFar' = OwedSoFar \cup (IF Owed(n) THEN {n} ELSE {})
    <2>1. 1 .. n = 1 .. next \cup {n}
        BY <1>1
    <2> QED BY <1>1, <2>1 DEF OwedSoFar, Owed, IsResponse
<1>5. n \notin OwedSoFar
    BY <1>1 DEF OwedSoFar
<1>6. LinesOf(<<>>) = {} /\ Once(<<>>)
    BY DEF LinesOf, Once
<1>7. 1 .. next \subseteq 1 .. next'
    BY <1>1
<1>8. LinesOf(wire)' = LinesOf(wire) /\ LinesOf(pumped)' = LinesOf(pumped)
    BY <1>1 DEF LinesOf
<1> HIDE DEF v, n
<1>9. CASE v = Pass
    <2>1. Forward(n)
        <3>1. Pass # Drop
            BY DEF Pass, Drop, Error
        <3> QED BY <1>9, <3>1 DEF ReadLine, v, n
    <2>2. serving' = serving \cup (IF Owed(n) THEN {n} ELSE {})
        BY <1>2, <1>9, <2>1 DEF Forward
    <2>3. reader' = reader /\ waiting' = waiting /\ queue' = queue
        BY <2>1 DEF Forward
    <2>4. TypeOK'
        <3>1. serving' \subseteq 1 .. next'
            BY <1>1, <1>7, <2>2 DEF IInv, TypeOK
        <3> QED BY <1>1, <2>3, <3>1 DEF IInv, TypeOK
    <2>5. Typed'
        BY <1>1, <1>2, <1>3, <1>9, <2>2, <2>3 DEF IInv, Typed
    <2>6. Partition'
        <3>1. LinesOf(queue)' = LinesOf(queue) /\ LinesOf(waiting)' = LinesOf(waiting)
            BY <2>3 DEF LinesOf
        <3> QED BY <1>4, <1>5, <1>8, <2>2, <3>1 DEF IInv, Partition
    <2>7. OnceEach'
        BY <1>1, <2>3 DEF IInv, OnceEach, Once
    <2> QED BY <2>4, <2>5, <2>6, <2>7 DEF IInv
<1>10. CASE v = Drop
    <2>1. reader' = reader /\ waiting' = waiting /\ queue' = queue /\ serving' = serving
        BY <1>10 DEF ReadLine, v, n, Pass, Drop, Error
    <2>2. TypeOK'
        BY <1>1, <1>7, <2>1 DEF IInv, TypeOK
    <2>3. Typed'
        BY <1>1, <1>3, <2>1 DEF IInv, Typed
    <2>4. Partition'
        <3>1. LinesOf(queue)' = LinesOf(queue) /\ LinesOf(waiting)' = LinesOf(waiting)
            BY <2>1 DEF LinesOf
        <3> QED BY <1>2, <1>4, <1>8, <1>10, <2>1, <3>1 DEF IInv, Partition
    <2>5. OnceEach'
        BY <1>1, <2>1 DEF IInv, OnceEach, Once
    <2> QED BY <2>2, <2>3, <2>4, <2>5 DEF IInv
<1>11. CASE v \notin {Pass, Drop}
    <2>1. Enqueue(v)
        BY <1>11 DEF ReadLine, v, n
    <2>2. v \in OwnAnswers /\ v.line = n /\ Owed(n)
        BY <1>2, <1>11
    <2>3. serving' = serving
        BY <2>1 DEF Enqueue
    <2>4. queue \in Seq(OwnAnswers) /\ Len(queue) \in Nat /\ n \notin LinesOf(queue)
        BY <1>5 DEF IInv, Typed, Partition
    <2>5. CASE Len(queue) < RejectionBuffer
        <3>1. queue' = Append(queue, v) /\ reader' = reader /\ waiting' = waiting
            BY <2>1, <2>5 DEF Enqueue
        <3>2. /\ queue' \in Seq(OwnAnswers)
              /\ LinesOf(queue)' = LinesOf(queue) \cup {n}
              /\ Once(queue)'
            BY <2>2, <2>4, <3>1, Appended DEF IInv, OnceEach, LinesOf, Once
        <3>3. Len(queue') <= RejectionBuffer
            BY <2>4, <2>5, <3>1, BoundsAssumption
        <3>4. TypeOK'
            BY <1>1, <1>7, <2>3, <3>1, <3>3 DEF IInv, TypeOK
        <3>5. Typed'
            BY <1>1, <1>3, <2>3, <3>1, <3>2 DEF IInv, Typed
        <3>6. LinesOf(waiting)' = LinesOf(waiting)
            BY <3>1 DEF LinesOf
        <3>7. Partition'
            BY <1>4, <1>5, <1>8, <2>2, <2>3, <3>2, <3>6 DEF IInv, Partition
        <3>8. OnceEach'
            BY <1>1, <3>1, <3>2 DEF IInv, OnceEach, Once
        <3> QED BY <3>4, <3>5, <3>7, <3>8 DEF IInv
    <2>6. CASE ~(Len(queue) < RejectionBuffer)
        <3>1. queue' = queue /\ reader' = "blocked" /\ waiting' = <<v>>
            BY <2>1, <2>6 DEF Enqueue
        <3>2. /\ waiting' \in Seq(OwnAnswers) /\ Len(waiting') = 1 /\ waiting' # <<>>
              /\ LinesOf(waiting)' = {n}
              /\ Once(waiting)'
            BY <2>2, <3>1, Short DEF LinesOf, Once
        <3>3. LinesOf(queue)' = LinesOf(queue)
            BY <3>1 DEF LinesOf
        <3>4. TypeOK'
            BY <1>1, <1>7, <2>3, <3>1, <3>2 DEF IInv, TypeOK
        <3>5. Typed'
            BY <1>1, <1>3, <2>3, <3>1, <3>2 DEF IInv, Typed
        <3>6. LinesOf(waiting) = {}
            BY <1>1, <1>6
        <3>7. Partition'
            BY <1>4, <1>5, <1>8, <2>2, <2>3, <3>2, <3>3, <3>6 DEF IInv, Partition
        <3>8. OnceEach'
            BY <1>1, <3>1, <3>2 DEF IInv, OnceEach, Once
        <3> QED BY <3>4, <3>5, <3>7, <3>8 DEF IInv
    <2> QED BY <2>5, <2>6
<1> QED BY <1>9, <1>10, <1>11

\* An answer moves from one place to the next, or comes from the server.
LEMMA OthersKeep ==
    IInv /\ (Resume \/ EndOfInput \/ Pump \/ ServerAnswers \/ Stop) => IInv'
<1> SUFFICES ASSUME IInv, Resume \/ EndOfInput \/ Pump \/ ServerAnswers \/ Stop
             PROVE  IInv'
    OBVIOUS
<1>1. input' = input /\ next' = next
    BY DEF Resume, EndOfInput, Pump, PumpReceives, PumpWrites, ServerAnswers, Stop
<1>2. OwnAnswers' = OwnAnswers /\ OwedSoFar' = OwedSoFar
    BY <1>1 DEF OwnAnswers, OwnId, OwedSoFar, Owed, IsResponse
<1>3. /\ wire \in Seq(OwnAnswers) /\ pumped \in Seq(OwnAnswers)
      /\ queue \in Seq(OwnAnswers) /\ waiting \in Seq(OwnAnswers)
      /\ Once(wire) /\ Once(pumped) /\ Once(queue) /\ Once(waiting)
      /\ Len(queue) \in Nat /\ Len(pumped) \in Nat /\ Len(waiting) \in Nat
    BY DEF IInv, Typed, OnceEach
<1>4. LinesOf(<<>>) = {} /\ Once(<<>>)
    BY DEF LinesOf, Once
<1>6. CASE Resume
    <2>1. /\ queue' = queue \o waiting /\ waiting' = <<>> /\ reader' = "reading"
          /\ Len(queue) < RejectionBuffer
          /\ wire' = wire /\ pumped' = pumped /\ serving' = serving /\ server' = server
        BY <1>6 DEF Resume
    <2>2. waiting # <<>> /\ Len(waiting) <= 1
        BY <1>6 DEF Resume, IInv, TypeOK, Typed
    <2>3. waiting = <<waiting[1]>> /\ waiting[1] \in OwnAnswers
        BY <1>3, <2>2, Single
    <2>4. queue' = Append(queue, waiting[1])
        <3>1. queue \o <<waiting[1]>> = Append(queue, waiting[1])
            BY <1>3, <2>3, Joined
        <3> QED BY <2>1, <2>3, <3>1
    <2>5. LinesOf(waiting) = {waiting[1].line}
        BY <2>3, Short
    <2>6. waiting[1].line \notin LinesOf(queue)
        BY <2>5 DEF IInv, Partition
    <2>7. /\ queue' \in Seq(OwnAnswers)
          /\ LinesOf(queue') = LinesOf(queue) \cup LinesOf(waiting)
          /\ Once(queue')
        BY <1>3, <2>3, <2>4, <2>5, <2>6, Appended
    <2>8. TypeOK'
        <3>1. Len(queue') = Len(queue) + 1
            BY <1>3, <2>4
        <3>2. Len(queue') <= RejectionBuffer
            BY <1>3, <2>1, <3>1, BoundsAssumption
        <3> QED BY <1>1, <2>1, <3>2 DEF IInv, TypeOK
    <2>9. Typed'
        BY <1>1, <1>2, <2>1, <2>7 DEF IInv, Typed
    <2>10. Partition'
        <3>1. /\ LinesOf(queue)' = LinesOf(queue) \cup LinesOf(waiting)
              /\ LinesOf(waiting)' = {}
            BY <1>4, <2>1, <2>7 DEF LinesOf
        <3>2. LinesOf(wire)' = LinesOf(wire) /\ LinesOf(pumped)' = LinesOf(pumped)
            BY <2>1 DEF LinesOf
        <3> QED BY <1>2, <2>1, <3>1, <3>2 DEF IInv, Partition
    <2>11. OnceEach'
        BY <1>3, <1>4, <2>1, <2>7 DEF OnceEach, Once
    <2> QED BY <2>8, <2>9, <2>10, <2>11 DEF IInv
<1>7. CASE EndOfInput \/ Stop
    <2>1. /\ wire' = wire /\ pumped' = pumped /\ queue' = queue /\ waiting' = waiting
          /\ serving' = serving
          /\ reader' \in {"reading", "ended"} \/ reader' = reader
          /\ reader = "blocked" <=> reader' = "blocked"
          /\ reader' \in {"reading", "blocked", "ended"}
          /\ server' \in {"running", "stopped"}
        BY <1>7 DEF EndOfInput, Stop, IInv, TypeOK
    <2>2. TypeOK'
        BY <1>1, <2>1 DEF IInv, TypeOK
    <2>3. Typed'
        BY <1>1, <1>2, <2>1 DEF IInv, Typed
    <2>4. Partition'
        <3>1. /\ LinesOf(wire)' = LinesOf(wire) /\ LinesOf(pumped)' = LinesOf(pumped)
              /\ LinesOf(queue)' = LinesOf(queue) /\ LinesOf(waiting)' = LinesOf(waiting)
            BY <2>1 DEF LinesOf
        <3> QED BY <1>2, <2>1, <3>1 DEF IInv, Partition
    <2>5. OnceEach'
        BY <2>1 DEF IInv, OnceEach, Once
    <2> QED BY <2>2, <2>3, <2>4, <2>5 DEF IInv
<1>8. CASE PumpReceives
    <2>1. /\ pumped = <<>> /\ queue # <<>>
          /\ pumped' = <<Head(queue)>> /\ queue' = Tail(queue)
          /\ wire' = wire /\ waiting' = waiting /\ serving' = serving
          /\ reader' = reader /\ server' = server
        BY <1>8 DEF PumpReceives
    <2>2. /\ Head(queue) \in OwnAnswers /\ queue' \in Seq(OwnAnswers)
          /\ Len(queue') < Len(queue)
          /\ LinesOf(queue) = LinesOf(queue') \cup {Head(queue).line}
          /\ Once(queue') /\ Head(queue).line \notin LinesOf(queue')
        BY <1>3, <2>1, Taken
    <2>3. /\ pumped' \in Seq(OwnAnswers) /\ Len(pumped') = 1
          /\ LinesOf(pumped') = {Head(queue).line} /\ Once(pumped')
        BY <2>1, <2>2, Short
    <2>4. TypeOK'
        <3>1. Len(queue') <= RejectionBuffer
            <4>1. Len(queue') \in Nat /\ Len(queue) <= RejectionBuffer
                BY <2>2 DEF IInv, TypeOK
            <4> QED BY <1>3, <2>2, <4>1, BoundsAssumption
        <3> QED BY <1>1, <2>1, <2>3, <3>1 DEF IInv, TypeOK
    <2>5. Typed'
        BY <1>1, <1>2, <2>1, <2>2, <2>3 DEF IInv, Typed
    <2>6. Partition'
        <3>1. /\ LinesOf(queue)' = LinesOf(queue') /\ LinesOf(pumped)' = LinesOf(pumped')
              /\ LinesOf(wire)' = LinesOf(wire) /\ LinesOf(waiting)' = LinesOf(waiting)
            BY <2>1 DEF LinesOf
        <3>2. LinesOf(pumped) = {}
            BY <1>4, <2>1
        <3> QED BY <1>2, <2>1, <2>2, <2>3, <3>1, <3>2 DEF IInv, Partition
    <2>7. OnceEach'
        BY <1>3, <2>1, <2>2, <2>3 DEF OnceEach, Once
    <2> QED BY <2>4, <2>5, <2>6, <2>7 DEF IInv
<1>9. CASE PumpWrites
    <2>1. /\ pumped # <<>> /\ wire' = wire \o pumped /\ pumped' = <<>>
          /\ queue' = queue /\ waiting' = waiting /\ serving' = serving
          /\ reader' = reader /\ server' = server
        BY <1>9 DEF PumpWrites
    <2>2. pumped = <<pumped[1]>> /\ pumped[1] \in OwnAnswers
        <3>1. Len(pumped) <= 1
            BY DEF IInv, TypeOK
        <3> QED BY <1>3, <2>1, <3>1, Single
    <2>3. wire' = Append(wire, pumped[1])
        <3>1. wire \o <<pumped[1]>> = Append(wire, pumped[1])
            BY <1>3, <2>2, Joined
        <3> QED BY <2>1, <2>2, <3>1
    <2>4. LinesOf(pumped) = {pumped[1].line}
        BY <2>2, Short
    <2>5. pumped[1].line \notin LinesOf(wire)
        BY <2>4 DEF IInv, Partition
    <2>6. /\ wire' \in Seq(OwnAnswers)
          /\ LinesOf(wire') = LinesOf(wire) \cup LinesOf(pumped)
          /\ Once(wire')
        BY <1>3, <2>2, <2>3, <2>4, <2>5, Appended
    <2>7. TypeOK'
        BY <1>1, <2>1 DEF IInv, TypeOK
    <2>8. Typed'
        BY <1>1, <1>2, <2>1, <2>6 DEF IInv, Typed
    <2>9. Partition'
        <3>1. LinesOf(wire)' = LinesOf(wire) \cup LinesOf(pumped) /\ LinesOf(pumped)' = {}
            BY <1>4, <2>1, <2>6 DEF LinesOf
        <3>2. LinesOf(queue)' = LinesOf(queue) /\ LinesOf(waiting)' = LinesOf(waiting)
            BY <2>1 DEF LinesOf
        <3> QED BY <1>2, <2>1, <3>1, <3>2 DEF IInv, Partition
    <2>10. OnceEach'
        BY <1>3, <1>4, <2>1, <2>6 DEF OnceEach, Once
    <2> QED BY <2>7, <2>8, <2>9, <2>10 DEF IInv
<1>10. CASE ServerAnswers
    <2>1. PICK n \in serving : /\ wire' = Append(wire, Error(n, Answered, n))
                               /\ serving' = serving \ {n}
        BY <1>10 DEF ServerAnswers
    <2>2. /\ queue' = queue /\ waiting' = waiting /\ pumped' = pumped
          /\ reader' = reader /\ server' = server
        BY <1>10 DEF ServerAnswers
    <2>3. n \in 1 .. Len(input) /\ n \in Nat /\ OwnId(n) = n
        BY DEF IInv, TypeOK, Typed, OwnId
    <2>4. Error(n, Answered, n) \in OwnAnswers /\ Error(n, Answered, n).line = n
        BY <2>3 DEF Error, OwnAnswers, Kinds
    <2>5. n \notin LinesOf(wire)
        BY DEF IInv, Partition
    <2>6. /\ wire' \in Seq(OwnAnswers)
          /\ LinesOf(wire') = LinesOf(wire) \cup {n}
          /\ Once(wire')
        BY <1>3, <2>1, <2>4, <2>5, Appended
    <2>7. TypeOK'
        BY <1>1, <2>1, <2>2 DEF IInv, TypeOK
    <2>8. Typed'
        BY <1>1, <1>2, <2>1, <2>2, <2>6 DEF IInv, Typed
    <2>9. Partition'
        <3>1. LinesOf(wire)' = LinesOf(wire) \cup {n}
            BY <2>6 DEF LinesOf
        <3>2. /\ LinesOf(queue)' = LinesOf(queue) /\ LinesOf(waiting)' = LinesOf(waiting)
              /\ LinesOf(pumped)' = LinesOf(pumped)
            BY <2>2 DEF LinesOf
        <3> QED BY <1>2, <2>1, <3>1, <3>2 DEF IInv, Partition
    <2>10. OnceEach'
        BY <1>3, <2>2, <2>6 DEF OnceEach, Once
    <2> QED BY <2>7, <2>8, <2>9, <2>10 DEF IInv
<1> QED BY <1>6, <1>7, <1>8, <1>9, <1>10 DEF Pump

LEMMA StepInvariant == IInv /\ [Next]_vars => IInv'
<1> SUFFICES ASSUME IInv, [Next]_vars
             PROVE  IInv'
    OBVIOUS
<1>1. CASE ReadLine
    BY <1>1, ReadLineKeeps
<1>2. CASE Resume \/ EndOfInput \/ Pump \/ ServerAnswers \/ Stop
    BY <1>2, OthersKeep
<1>3. CASE UNCHANGED vars
    <2>1. /\ OwnAnswers' = OwnAnswers /\ OwedSoFar' = OwedSoFar
          /\ LinesOf(wire)' = LinesOf(wire) /\ LinesOf(pumped)' = LinesOf(pumped)
          /\ LinesOf(queue)' = LinesOf(queue) /\ LinesOf(waiting)' = LinesOf(waiting)
        BY <1>3 DEF vars, OwnAnswers, OwnId, OwedSoFar, Owed, IsResponse, LinesOf
    <2> QED BY <1>3, <2>1 DEF vars, IInv, TypeOK, Typed, Partition, OnceEach, Once
<1> QED BY <1>1, <1>2, <1>3 DEF Next

\* What the invariant says of the formulas that are checked.
LEMMA InvariantImplies == IInv => TypeOK /\ EveryOwedLineHasOne /\ IdsAreTheirOwn
<1> SUFFICES ASSUME IInv
             PROVE  EveryOwedLineHasOne /\ IdsAreTheirOwn
    BY DEF IInv
<1>1. IdsAreTheirOwn
    <2> SUFFICES ASSUME NEW i \in DOMAIN wire
                 PROVE  wire[i].id = OwnId(wire[i].line)
        BY DEF IdsAreTheirOwn, OwnId
    <2>1. wire[i] \in OwnAnswers
        BY DEF IInv, Typed
    <2> QED BY <2>1 DEF OwnAnswers
<1>2. UNION ToSet(Places) = OwedSoFar
    <2>1. ToSet(Places) = {LinesOf(wire), LinesOf(pumped), LinesOf(queue), LinesOf(waiting), serving}
        BY DEF ToSet, Places
    <2> QED BY <2>1 DEF IInv, Partition
<1>3. ASSUME NEW a \in DOMAIN Places, NEW b \in DOMAIN Places, a # b
      PROVE  Places[a] \cap Places[b] = {}
    <2>1. a \in {1, 2, 3, 4, 5} /\ b \in {1, 2, 3, 4, 5}
        BY DEF Places
    <2> QED BY <1>3, <2>1 DEF IInv, Partition, Places
<1>4. ASSUME NEW answers \in {wire, pumped, queue, waiting}
      PROVE  Once(answers)
    BY <1>4 DEF IInv, OnceEach
<1> QED BY <1>1, <1>2, <1>3, <1>4 DEF EveryOwedLineHasOne, OwedSoFar, Once

LEMMA Invariant == Spec => []IInv
<1> QED BY InitInvariant, StepInvariant, PTL DEF Spec

\* The queue keeps its bound, and the reader is blocked exactly while it holds a
\* rejection, for every bound and every input (transport.py:185, 195-197).
THEOREM TypeCorrect == Spec => []TypeOK
<1> QED BY Invariant, InvariantImplies, PTL

\* No answer is lost or given twice before the transport stops, however long the
\* input and however small the queue (transport.py:95-164, 179-185, 205-208).
THEOREM NothingLostOrTwice == Spec => []EveryOwedLineHasOne
<1> QED BY Invariant, InvariantImplies, PTL

\* A client is never given an error under another call's id
\* (transport.py:71-82).
THEOREM IdsCorrect == Spec => []IdsAreTheirOwn
<1> QED BY Invariant, InvariantImplies, PTL
=============================================================================
