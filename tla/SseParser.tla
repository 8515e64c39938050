------------------------------ MODULE SseParser ------------------------------
(***************************************************************************)
(* SSEParser of the guardrail (sse.py), as operators.                      *)
(*                                                                         *)
(* A wire is a sequence of symbols: the terminators CR and LF, and the     *)
(* contents of lines, each a record [field, value].  A symbol is never     *)
(* cut: what is between two cuts inside one line is only joined again.     *)
(***************************************************************************)
EXTENDS Integers, Sequences, SequencesExt, FiniteSetsExt

CR == [field |-> "cr", value |-> <<>>]
LF == [field |-> "lf", value |-> <<>>]

NoName == "unnamed"

\* _buffer, _event and _data of the parser.
NewParser == [buffer |-> <<>>, event |-> NoName, data |-> <<>>]

\* Where a terminator is first found, and the cut it makes: <<end of the line,
\* start of the next>>.
Finds(buffer, terminator) ==
    {i \in 1 .. Len(buffer) + 1 - Len(terminator) :
        SubSeq(buffer, i, i + Len(terminator) - 1) = terminator}
CutAt(buffer, terminator) ==
    LET i == Min(Finds(buffer, terminator)) IN <<i, i + Len(terminator)>>
NoLine == <<0, 0>>

\* Mutant: a CR at the end of the buffer is taken for a whole terminator.
FindLineEndEager(buffer) ==
    IF Finds(buffer, <<CR, LF>>) # {} THEN CutAt(buffer, <<CR, LF>>)
    ELSE IF Finds(buffer, <<LF>>) # {} THEN CutAt(buffer, <<LF>>)
    ELSE IF Finds(buffer, <<CR>>) # {} THEN CutAt(buffer, <<CR>>)
    ELSE NoLine

\* A CRLF anywhere in the buffer is found before an LF, and that before a CR; a
\* CR at the end of the buffer may be half of a CRLF.
FindLineEnd(buffer) ==
    IF Finds(buffer, <<CR, LF>>) # {} THEN CutAt(buffer, <<CR, LF>>)
    ELSE IF Finds(buffer, <<LF>>) # {} THEN CutAt(buffer, <<LF>>)
    ELSE IF Finds(buffer, <<CR>>) \ {Len(buffer)} # {} THEN CutAt(buffer, <<CR>>)
    ELSE NoLine

\* One line: an event name, one more line of data, or something to skip.  Only
\* the first symbol of a line has a field before its colon.
HandleLine(parser, line) ==
    CASE line[1].field = "event" -> [parser EXCEPT !.event = line[1].value]
      [] line[1].field = "data"  -> [parser EXCEPT !.data = Append(@, line[1].value)]
      [] OTHER                   -> parser

\* The event that a blank line ends: none if nothing was said since the last.
Dispatch(parser) ==
    IF parser.data = <<>> /\ parser.event = NoName
      THEN <<>>
      ELSE <<[event |-> parser.event, data |-> parser.data]>>
Cleared(parser) == [parser EXCEPT !.event = NoName, !.data = <<>>]

\* One complete line of the buffer is handled, if there is one.
TakeLine(got) ==
    LET end  == FindLineEnd(got.parser.buffer)
        line == SubSeq(got.parser.buffer, 1, end[1] - 1)
        rest == [got.parser EXCEPT !.buffer = SubSeq(@, end[2], Len(@))]
    IN  IF end = NoLine THEN got
        ELSE IF line = <<>>
          THEN [parser |-> Cleared(rest), events |-> got.events \o Dispatch(rest)]
          ELSE [parser |-> HandleLine(rest, line), events |-> got.events]

\* All of them are, one after the other; there are no more than symbols.
TakeLines(parser) ==
    LET after[n \in 0 .. Len(parser.buffer)] ==
            IF n = 0 THEN [parser |-> parser, events |-> <<>>] ELSE TakeLine(after[n - 1])
    IN  after[Len(parser.buffer)]

ParserFeed(parser, chunk) == TakeLines([parser EXCEPT !.buffer = @ \o chunk])

\* A stream that ended without a blank line still has its last event.
ParserFlush(parser) ==
    Dispatch(IF parser.buffer = <<>> THEN parser ELSE HandleLine(parser, parser.buffer))

\* What a wire says, read at once.
EventsOf(wire) ==
    LET read == ParserFeed(NewParser, wire)
    IN  read.events \o ParserFlush(read.parser)

\* The terminators of a wire are of one kind; it may break off within a CRLF.
OneTerminator(wire) ==
    \/ \A i \in 1 .. Len(wire) : wire[i] # CR
    \/ \A i \in 1 .. Len(wire) : wire[i] # LF
    \/ \A i \in 1 .. Len(wire) :
          /\ wire[i] = CR /\ i < Len(wire) => wire[i + 1] = LF
          /\ wire[i] = LF => i > 1 /\ wire[i - 1] = CR
=============================================================================
