------------------------------ MODULE Redactor ------------------------------
(***************************************************************************)
(* The detectors of patterns.py and the StreamRedactor of redactor.py, as  *)
(* operators on sequences of characters.                                   *)
(*                                                                         *)
(* A character is a pair <<class, tag>>: the class is what a detector can  *)
(* tell apart, the tag is where the character stood in the stream, so that *)
(* an emitted character can be traced to its origin.  The detectors keep   *)
(* their structure (what may repeat, what is optional, what may stand      *)
(* before and after, where a validator decides) with their counts scaled   *)
(* down: a key needs two characters after its prefix and not twenty, a     *)
(* card has three or four digits and not thirteen to nineteen.  PHONE and  *)
(* the other two key shapes are left out: they add no new structure.       *)
(***************************************************************************)
EXTENDS Integers, Sequences, FiniteSets, SequencesExt, FiniteSetsExt

CONSTANT MaxHoldback        \* the ceiling on retained text

Digit  == {"0", "1"}
Letter == {"a", "k"}
Alnum  == Digit \cup Letter
Local  == Alnum \cup {".", "-"}
Separator == {" ", "-"}

Placeholder == <<"redacted", 0>>
Class(char) == char[1]

\* A detector: a sequence of repeated classes, the classes that may not stand
\* just before or just after a match, and the validator of the matched text.
Item(of, least, most) == [of |-> of, least |-> least, most |-> most]
One(of)  == Item(of, 1, 1)
Many(of) == Item(of, 1, 99)

\* luhn_valid, as a checksum that has nothing to do with the match's length.
luhn_valid(match) ==
    Cardinality({i \in DOMAIN match : Class(match[i]) = "1"}) % 2 = 0

EMAIL ==
    [items   |-> <<Many(Local), One({"@"}), Many(Local), One({"."}), Many(Letter)>>,
     before  |-> Local, after |-> {}, luhn |-> FALSE]
SSN ==
    [items   |-> <<One(Digit), One({"-"}), One(Digit)>>,
     before  |-> {}, after |-> {}, luhn |-> FALSE]
CREDIT_CARD ==
    [items   |-> <<One(Digit), Item(Separator, 0, 1), One(Digit), Item(Separator, 0, 1),
                   Item(Digit, 1, 2)>>,
     before  |-> Digit, after |-> Digit, luhn |-> TRUE]
\* Mutant: a key may hold a space.
API_KEY_SPACED ==
    [items   |-> <<One({"k"}), One({"-"}), Item(Alnum \cup {" "}, 2, 99)>>,
     before  |-> Alnum, after |-> Alnum, luhn |-> FALSE]
API_KEY ==
    [items   |-> <<One({"k"}), One({"-"}), Item(Alnum, 2, 99)>>,
     before  |-> Alnum, after |-> Alnum, luhn |-> FALSE]

DEFAULT_PATTERNS == <<EMAIL, SSN, CREDIT_CARD, API_KEY>>

\* What a run that outgrew the ceiling consists of.
OVERLONG_RUN == Local \cup {"@"}

\* The longest match of a detector that has one, and so the least ceiling that
\* cannot cut one in two.
ASSUME CeilingAboveBounded == MaxHoldback \in Nat /\ MaxHoldback >= 6
-----------------------------------------------------------------------------
(***************************************************************************)
(* Matching one detector at one position                                   *)
(***************************************************************************)
\* How many characters after position e the item may take.
Counts(item, s, e) ==
    LET run == {n \in 0 .. Len(s) - e : \A j \in e + 1 .. e + n : Class(s[j]) \in item.of}
    IN  {n \in run : n >= item.least /\ n <= item.most}

\* The last positions of what the first k items match from position i on.
Reach(p, k, s, i) ==
    LET ends[m \in 0 .. Len(p.items)] ==
            IF m = 0 THEN {i - 1}
            ELSE UNION {{e + n : n \in Counts(p.items[m], s, e)} : e \in ends[m - 1]}
    IN  ends[k]

MayStart(p, s, i) == i = 1 \/ Class(s[i - 1]) \notin p.before

\* Ends of the matches that start at i, and the one the greedy quantifiers find:
\* for each of these detectors the longest.
Ends(p, s, i) ==
    IF MayStart(p, s, i)
      THEN {e \in Reach(p, Len(p.items), s, i) :
               e = Len(s) \/ Class(s[e + 1]) \notin p.after}
      ELSE {}
Greedy(p, s, i) == Max(Ends(p, s, i))

\* The text ran out inside a match that starts at i.
IsPartial(p, s, i) ==
    /\ MayStart(p, s, i)
    /\ \E k \in DOMAIN p.items : \E e \in Reach(p, k - 1, s, i) :
          /\ Len(s) - e <= p.items[k].most
          /\ \A j \in e + 1 .. Len(s) : Class(s[j]) \in p.items[k].of

accepts(p, match) == p.luhn => luhn_valid(match)

\* The longest accepted candidate at i, or 0.  A candidate shorter than the
\* greedy match is found with an endpos, which hides what follows it: its
\* right guard is not looked at.
ValidatedEnd(p, s, i) ==
    IF Ends(p, s, i) = {}
      THEN 0
      ELSE LET greedy     == Greedy(p, s, i)
               candidates == {e \in Reach(p, Len(p.items), s, i) : e < greedy} \cup {greedy}
           IN  Max({e \in candidates : accepts(p, SubSeq(s, i, e))} \cup {0})
-----------------------------------------------------------------------------
(***************************************************************************)
(* StreamRedactor                                                          *)
(***************************************************************************)
\* A text from position i on: leftmost matches first, each replaced.
Stays(p, s, protect_tail, i) ==
    \/ ValidatedEnd(p, s, i) = 0
    \/ protect_tail /\ ValidatedEnd(p, s, i) = Len(s)
RedactFrom(p, s, protect_tail, i) ==
    LET from[j \in 1 .. Len(s) + 1] ==
            IF j > Len(s) THEN <<>>
            ELSE IF Stays(p, s, protect_tail, j)
              THEN <<s[j]>> \o from[j + 1]
              ELSE <<Placeholder>> \o from[ValidatedEnd(p, s, j) + 1]
    IN  from[i]

\* Mutant: a match that ends with the text is replaced at once.
RedactOneEager(p, s, protect_tail) == RedactFrom(p, s, FALSE, 1)

RedactOne(p, s, protect_tail) == RedactFrom(p, s, protect_tail, 1)

\* The detectors in order, each on what the one before left.
Redact(s, protect_tail) ==
    LET after[n \in 0 .. Len(DEFAULT_PATTERNS)] ==
            IF n = 0 THEN s
            ELSE RedactOne(DEFAULT_PATTERNS[n], after[n - 1], protect_tail)
    IN  after[Len(DEFAULT_PATTERNS)]

\* Where the first match of a detector from i on starts that input to come could
\* change: one the text ran out in, or one that ends with the text.
UnsafeFrom(p, s, i) ==
    LET from[j \in 1 .. Len(s) + 1] ==
            IF j > Len(s) THEN j
            ELSE IF Ends(p, s, j) # {}
              THEN IF Greedy(p, s, j) = Len(s) THEN j ELSE from[Greedy(p, s, j) + 1]
            ELSE IF IsPartial(p, s, j) THEN j ELSE from[j + 1]
    IN  from[i]

\* The first position to hold back, Len(s) + 1 when there is none.
HoldbackIndex(s) == Min({UnsafeFrom(DEFAULT_PATTERNS[n], s, 1) : n \in DOMAIN DEFAULT_PATTERNS})

\* Mutant: the whole piece is dropped.
DropAll(s) == <<>>

\* What is left of a text whose head continues a suppressed run.
DropSuppressedPrefix(s) ==
    SubSeq(s, Min({i \in DOMAIN s : Class(s[i]) \notin OVERLONG_RUN} \cup {Len(s) + 1}), Len(s))

Fresh == [buffer |-> <<>>, suppressing |-> FALSE]

\* What a redactor says to a call: its next state and the text it releases.
Says(buffer, suppressing, out) ==
    [next |-> [buffer |-> buffer, suppressing |-> suppressing], out |-> out]

\* Mutant: nothing is put in the place of what outgrew the ceiling.
FailClosedSilently(safe) == Says(<<>>, TRUE, safe)

\* The held candidate outgrew the ceiling: a placeholder for it, and the rest of
\* its run is dropped.
FailClosed(safe) == Says(<<>>, TRUE, Append(safe, Placeholder))

\* Mutants: the text is cut first and redacted then; the ceiling is not enforced.
FeedSplitsFirst(r, text) ==
    LET seen == r.buffer \o (IF r.suppressing THEN DropSuppressedPrefix(text) ELSE text)
        cut  == HoldbackIndex(seen)
    IN  Says(SubSeq(seen, cut, Len(seen)), FALSE, Redact(SubSeq(seen, 1, cut - 1), FALSE))
FeedUnbounded(r, text) ==
    LET seen == Redact(r.buffer \o text, TRUE)
        cut  == HoldbackIndex(seen)
    IN  Says(SubSeq(seen, cut, Len(seen)), FALSE, SubSeq(seen, 1, cut - 1))

\* The text is cut in two: what is let out, and what is held unless it outgrew
\* the ceiling.
HoldFrom(seen, cut) ==
    LET safe == SubSeq(seen, 1, cut - 1)
    IN  IF Len(seen) - cut + 1 > MaxHoldback
          THEN FailClosed(safe)
          ELSE Says(SubSeq(seen, cut, Len(seen)), FALSE, safe)

\* The settled matches are replaced before the cut is made.
SplitAndHold(seen) == HoldFrom(seen, HoldbackIndex(seen))

Keep(r, kept) ==
    IF kept = <<>>
      THEN Says(r.buffer, r.suppressing, <<>>)
      ELSE SplitAndHold(Redact(r.buffer \o kept, TRUE))

Feed(r, text) == Keep(r, IF r.suppressing THEN DropSuppressedPrefix(text) ELSE text)

Flush(r) == Says(<<>>, FALSE, Redact(r.buffer, FALSE))

\* The non-streaming path: one feed, one flush.
FlushAfter(fed) == fed.out \o Flush(fed.next).out
redact_text(s)  == FlushAfter(Feed(Fresh, s))
-----------------------------------------------------------------------------
(***************************************************************************)
(* What the properties say of a text                                       *)
(***************************************************************************)
IsRunOf(t, from, to) == \A j \in from .. to : Class(t[j]) \in OVERLONG_RUN

\* The character at i of a text belongs to a candidate of a detector, or to a run
\* that is longer than the ceiling.
InCandidate(t, i) ==
    \E p \in ToSet(DEFAULT_PATTERNS), from \in 1 .. i :
        \E e \in Reach(p, Len(p.items), t, from) : i <= e
InLongRun(t, i) ==
    \E from \in 1 .. i :
        /\ from + MaxHoldback <= Len(t)
        /\ IsRunOf(t, from, from + MaxHoldback)
        /\ IsRunOf(t, from, i)

\* No run of the text is longer than the ceiling.
NoRunOutgrows(t) == \A i \in 1 .. Len(t) - MaxHoldback : ~IsRunOf(t, i, i + MaxHoldback)

\* No prefix of the text shows a detector a candidate that more text takes back.
\* For a candidate seen in a prefix, one of three holds:
\*  - it reaches the end of the prefix, and so is held until more has come;
\*  - it is what the whole text has there too (an address settled at a dot, that
\*    one more label makes longer, is excluded), and no match that begins by its
\*    end is held for ending with the prefix (a detector that comes first would
\*    lose the beginning of its match to this one);
\*  - its validator rejected it, and no match of the whole text begins within it
\*    (a failing number whose later digits begin a card is excluded).
NothingTakenBack(t) ==
    \A p \in ToSet(DEFAULT_PATTERNS), n \in DOMAIN t :
        LET seen == SubSeq(t, 1, n)
        IN  \A i \in 1 .. n :
                Ends(p, seen, i) # {} =>
                    LET end == ValidatedEnd(p, seen, i)
                    IN  \/ end = n
                        \/ /\ end # 0 /\ end = ValidatedEnd(p, t, i)
                           /\ \A q \in ToSet(DEFAULT_PATTERNS), j \in 1 .. end :
                                 n \notin Ends(q, seen, j)
                        \/ /\ end = 0
                           /\ \A j \in i .. Greedy(p, seen, i) : ValidatedEnd(p, t, j) = 0
=============================================================================
