--------------------------- MODULE RedactedStream ---------------------------
(***************************************************************************)
(* One text through one StreamRedactor: the stream cuts it anywhere, each  *)
(* piece is fed, and the end of the stream flushes.                        *)
(***************************************************************************)
EXTENDS Redactor

CONSTANTS
    Alphabet,               \* the classes of characters
    Texts                   \* sequences of them

ASSUME TextsAssumption == \A s \in Texts : s \in Seq(Alphabet)

VARIABLES
    text,                   \* the whole text, each character tagged with its place
    fed,                    \* how many of its characters have been fed
    redactor,               \* StreamRedactor._buffer and ._suppressing
    out,                    \* all that feed and flush returned
    done                    \* the stream was flushed

vars == <<text, fed, redactor, out, done>>

Tagged(s) == [i \in DOMAIN s |-> <<s[i], i>>]

Init ==
    /\ text \in {Tagged(s) : s \in Texts}
    /\ fed = 0
    /\ redactor = Fresh
    /\ out = <<>>
    /\ done = FALSE

\* feed with a piece of any length, the empty one included.
FeedPiece ==
    /\ ~done
    /\ \E n \in fed .. Len(text) :
          LET said == Feed(redactor, SubSeq(text, fed + 1, n))
          IN  /\ redactor' = said.next
              /\ out' = out \o said.out
              /\ fed' = n
    /\ UNCHANGED <<text, done>>

FlushEnd ==
    /\ ~done
    /\ fed = Len(text)
    /\ LET said == Flush(redactor)
       IN  /\ redactor' = said.next
           /\ out' = out \o said.out
    /\ done' = TRUE
    /\ UNCHANGED <<text, fed>>

Next == FeedPiece \/ FlushEnd

Spec == Init /\ [][Next]_vars
-----------------------------------------------------------------------------
\* What came out and what is held, and which of it is text.
Seen == out \o redactor.buffer
IsText(char) == char # Placeholder

Emitted == {char[2] : char \in ToSet(out)} \ {0}
IsRun(from, to) == IsRunOf(text, from, to)

\* What redaction of the whole text takes out.
Hidden == LET shown == ToSet(redact_text(text)) IN {i \in DOMAIN text : text[i] \notin shown}

RunsFit == NoRunOutgrows(text)
Settled == NothingTakenBack(text)

\* TYPE INVARIANT: what is emitted and held was fed, once, in order; no more is
\* held than the ceiling, and nothing while a run is suppressed.
TypeOK ==
    /\ fed \in 0 .. Len(text)
    /\ redactor.suppressing \in BOOLEAN
    /\ Len(redactor.buffer) <= IF redactor.suppressing THEN 0 ELSE MaxHoldback
    /\ done => fed = Len(text) /\ redactor = Fresh
    /\ \A i \in DOMAIN Seen :
          IsText(Seen[i]) =>
              /\ Seen[i][2] \in 1 .. fed /\ Seen[i] = text[Seen[i][2]]
              /\ \A j \in 1 .. i - 1 : IsText(Seen[j]) => Seen[j][2] < Seen[i][2]

\* INVARIANT: whatever is taken out leaves a placeholder where it stood: two
\* characters that come out side by side stood side by side in the text, and
\* nothing is missing before the first one or, so far, after the last.
NoUnmarkedGap ==
    /\ Seen = <<>> => fed = 0
    /\ \A i \in DOMAIN Seen : IsText(Seen[i]) =>
          /\ i = 1 => Seen[i][2] = 1
          /\ i > 1 /\ IsText(Seen[i - 1]) => Seen[i][2] = Seen[i - 1][2] + 1
          /\ i = Len(Seen) => Seen[i][2] = fed

\* INVARIANT: however the text was cut, the stream comes out as the whole text
\* does (README.md, "Correctness testing"), when no candidate is taken back and no
\* run outgrows the ceiling.
ChunkingIsInvisible ==
    done /\ out # redact_text(text) => ~RunsFit \/ ~Settled

\* INVARIANT: no character of what redaction of the whole text hides is ever
\* emitted, when no candidate is taken back.  Runs may outgrow the ceiling here:
\* neither the head nor the rest of an over-long secret comes out.
NoSecretLeaves ==
    Emitted \cap Hidden # {} => ~Settled

\* INVARIANT: what never comes out belongs to some candidate of a detector or to
\* an over-long run: suppression ends with its run, and flush releases the rest.
OnlyCandidatesVanish ==
    done => \A i \in DOMAIN text \ Emitted : InCandidate(text, i) \/ InLongRun(text, i)

\* INVARIANT: a text that outgrew the ceiling is one unbroken run, which is how
\* suppression knows where it ends (patterns.py:188-193).
OverflowIsOneRun ==
    redactor.suppressing =>
        /\ fed > MaxHoldback
        /\ IsRun(fed - MaxHoldback, fed)

\* INVARIANT (refuted): the stream equals the whole text "for every possible
\* chunking" (README.md of the guardrail, "Correctness testing").
EveryChunking == done => Emitted \cap Hidden = {}
=============================================================================
