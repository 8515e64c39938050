--------------------------- MODULE StreamGuardrail ---------------------------
(***************************************************************************)
(* One exchange of the guardrail: handle_messages of app.py and            *)
(* redact_sse_stream of stream.py, over the SSE parser and one redactor    *)
(* per channel of text.                                                    *)
(*                                                                         *)
(* A payload is a record: whether it is JSON at all, whether that is an    *)
(* object, the type of its delta or block, the block's index, and its      *)
(* string leaves, by path.  What the client is sent is a sequence of such  *)
(* payloads with their leaves rewritten.                                   *)
(***************************************************************************)
EXTENDS Redactor, SseParser

CONSTANT Cases   \* exchanges: a request, a wire of the provider, a policy

\* What wires consist of.
Symbols == UNION {ToSet(c.wire) : c \in Cases}
ASSUME WiresAssumption == \A c \in Cases : c.wire \in Seq(Symbols)

VARIABLES
    case,        \* the exchange
    phase,       \* "asked", "opened", "relaying", "over"; "gone": hung up on;
                 \* "dropped": the relay was never begun
    upstream,    \* the provider's response: "none", "open" or "closed"
    read,        \* how many symbols of the wire have come
    parser,      \* the SSEParser
    relay        \* redactors, rebuild templates, what was sent; the events
                 \* handled (history), and whether one of them raised

vars == <<case, phase, upstream, read, parser, relay>>

\* The payloads, in the shape _locate_texts and the policies tell apart.
Payload(json, dict, type, index, texts) ==
    [json |-> json, dict |-> dict, type |-> type, index |-> index, texts |-> texts]
NotJson(text) == Payload(FALSE, FALSE, "none", 0, [leaf |-> text])
ErrorPayload  == Payload(TRUE, TRUE, "error", 0, [leaf |-> <<>>])

\* SSEEvent.json: the lines of data are joined, and two documents are not one.
PayloadOf(event) ==
    IF Len(event.data) = 1 THEN event.data[1]
    ELSE NotJson(FlattenSeq([n \in DOMAIN event.data |->
                                IF "leaf" \in DOMAIN event.data[n].texts
                                  THEN event.data[n].texts.leaf ELSE <<>>]))

BLOCK_STOP == "content_block_stop"
MAIN_TEXT  == "main"
TextKey    == [i \in {0, 1} |-> IF i = 0 THEN MAIN_TEXT ELSE "text:1"]
JsonKey    == [i \in {0, 1} |-> IF i = 0 THEN "json:0" ELSE "json:1"]

\* The order in which the channels are flushed: the main one, then by name.
FlushOrder == <<MAIN_TEXT, "json:0", "json:1", "openai:0", "openai:1", "text:1">>
Channels   == ToSet(FlushOrder)

Located(key, path) == [key |-> key, path |-> path]

\* Every text field of a payload and the channel it belongs to.
LocateTexts(p) ==
    LET Has(path) == path \in DOMAIN p.texts
        delta == IF Has("delta") /\ p.type = "text_delta"
                   THEN <<Located(TextKey[p.index], "delta")>>
                 ELSE IF Has("delta") /\ p.type = "input_json_delta"
                   THEN <<Located(JsonKey[p.index], "delta")>>
                 ELSE <<>>
        first == IF Has("choice0")
                   THEN <<Located(IF delta = <<>> THEN MAIN_TEXT ELSE "openai:0", "choice0")>>
                   ELSE <<>>
        other == IF Has("choice1") THEN <<Located("openai:1", "choice1")>> ELSE <<>>
    IN  IF p.dict THEN delta \o first \o other ELSE <<>>

IsThinking(p) == p.dict /\ p.type = "thinking"

RedactLeaves(p) == [p EXCEPT !.texts = [path \in DOMAIN @ |-> redact_text(@[path])]]
-----------------------------------------------------------------------------
(***************************************************************************)
(* redact_sse_stream: what one event does to the relay                     *)
(***************************************************************************)
NewRelay ==
    [redactor |-> [key \in Channels |-> Fresh],
     rebuild  |-> [key \in Channels |-> <<>>],
     sent     |-> <<>>,
     handled  |-> <<>>,
     raised   |-> FALSE]

Send(r, p) == [r EXCEPT !.sent = Append(@, p)]

\* The last payload of a channel with one leaf replaced; its other leaves are
\* the ones that came from the provider.
Rebuilt(template, text) == [template.payload EXCEPT !.texts[template.path] = text]

Flushed(r, key, text) ==
    IF text = <<>> THEN r ELSE Send(r, Rebuilt(r.rebuild[key], text))
FlushOne(r, key) ==
    Flushed([r EXCEPT !.redactor[key] = Fresh], key, Flush(r.redactor[key]).out)

\* Mutant: only the main channel is flushed.
FlushMain(r) == FlushOne(r, MAIN_TEXT)

\* Release every held tail.
FlushAll(r) ==
    LET after[n \in 0 .. Len(FlushOrder)] ==
            IF n = 0 THEN r ELSE FlushOne(after[n - 1], FlushOrder[n])
    IN  after[Len(FlushOrder)]

Thinking(r, p) ==
    CASE case.policy.thinking = "drop"   -> r
      [] case.policy.thinking = "redact" -> Send(r, RedactLeaves(p))
      [] OTHER                           -> Send(r, p)

\* One located text: its channel remembers the payload and is fed, and the leaf
\* is rewritten with what is safe now.
Rewritten(all, text, p, said) ==
    [relay    |-> [all.relay EXCEPT
                      !.redactor[text.key] = said.next,
                      !.rebuild[text.key]  = [payload |-> p, path |-> text.path]],
     updated  |-> [all.updated EXCEPT !.texts[text.path] = said.out],
     released |-> all.released \/ said.out # <<>>]
FeedLocated(all, text, p) ==
    Rewritten(all, text, p, Feed(all.relay.redactor[text.key], p.texts[text.path]))

\* Every located text in turn; a payload that releases nothing is not sent.
SendReleased(all) == IF all.released THEN Send(all.relay, all.updated) ELSE all.relay
TextDelta(r, p) ==
    LET after[n \in 0 .. Len(LocateTexts(p))] ==
            IF n = 0 THEN [relay |-> r, updated |-> p, released |-> FALSE]
            ELSE FeedLocated(after[n - 1], LocateTexts(p)[n], p)
    IN  SendReleased(after[Len(LocateTexts(p))])

SendUnrecognised(r, p) ==
    CASE case.policy.unknown_schema = "block" -> r
      [] case.policy.unknown_schema = "pass"  -> Send(r, p)
      [] OTHER                                -> Send(r, RedactLeaves(p))
\* Mutant: a block stop releases nothing.
UnrecognisedHolding(r, p, stops) == SendUnrecognised(r, p)

\* A block stop flushes first; then the policy decides.
Unrecognised(r, p, stops) ==
    SendUnrecognised(IF stops THEN FlushAll(r) ELSE r, p)

IsStop(event) == event.event = BLOCK_STOP \/ PayloadOf(event).type = BLOCK_STOP

\* JSON that is not an object has no .get: the question for its type raises,
\* unless the event's name answers it first.
Raises(event) ==
    LET p == PayloadOf(event) IN p.json /\ ~p.dict /\ event.event # BLOCK_STOP

Handled(r, event) ==
    LET p == PayloadOf(event)
    IN  IF ~p.json THEN Send(r, RedactLeaves(p))
        ELSE IF IsThinking(p) THEN Thinking(r, p)
        ELSE IF LocateTexts(p) # <<>> THEN TextDelta(r, p)
        ELSE Unrecognised(r, p, IsStop(event))

\* The loop over events; nothing is handled after an exception.
HandleOne(r, event) ==
    IF r.raised \/ Raises(event)
      THEN [r EXCEPT !.raised = TRUE]
      ELSE [Handled(r, event) EXCEPT !.handled = Append(@, event)]
HandleAll(r, events) ==
    LET after[n \in 0 .. Len(events)] ==
            IF n = 0 THEN r ELSE HandleOne(after[n - 1], events[n])
    IN  after[Len(events)]

\* Mutant: the failure is not told.
FailedSilently(r) == FlushAll(r)

\* The held tails go out, then the failure, in band.
Failed(r) == Send(FlushAll(r), ErrorPayload)
-----------------------------------------------------------------------------
(***************************************************************************)
(* handle_messages                                                         *)
(***************************************************************************)
Init ==
    /\ case \in Cases
    /\ phase = "asked"
    /\ upstream = "none"
    /\ read = 0
    /\ parser = NewParser
    /\ relay = NewRelay

Answered(r, response) ==
    /\ relay' = r
    /\ phase' = "over"
    /\ upstream' = response

\* 401 or 413 before the provider is asked, 502 when it cannot be.
Refuse ==
    /\ phase = "asked"
    /\ Answered(Send(relay, ErrorPayload), "none")
    /\ UNCHANGED <<case, read, parser>>

Open ==
    /\ phase = "asked"
    /\ phase' = "opened"
    /\ upstream' = "open"
    /\ UNCHANGED <<case, read, parser, relay>>

\* Every leaf of a body is redacted; what is not JSON is sent as it came.
RedactMessageBody(p) == IF p.json THEN RedactLeaves(p) ELSE p

\* Not a stream: the body is read to its end and redacted.  The response is
\* closed also when reading raises.
ReadBody ==
    /\ phase = "opened" /\ ~case.stream
    /\ LET p == PayloadOf(EventsOf(case.wire)[1])
       IN  Answered(Send(relay, RedactMessageBody(p)), "closed")
    /\ UNCHANGED <<case, read, parser>>
ReadBodyRaises ==
    /\ phase = "opened" /\ ~case.stream
    /\ Answered(Send(relay, ErrorPayload), "closed")
    /\ UNCHANGED <<case, read, parser>>

\* The server iterates the relay, or drops the response before it does: the
\* relay's finally is then never reached.
Start ==
    /\ phase = "opened" /\ case.stream
    /\ phase' = "relaying"
    /\ UNCHANGED <<case, upstream, read, parser, relay>>
NeverStarts ==
    /\ phase = "opened" /\ case.stream
    /\ phase' = "dropped"
    /\ UNCHANGED <<case, upstream, read, parser, relay>>

\* The relay goes on, or ends because an event raised.
RelayOn(after) ==
    IF after.raised
      THEN Answered(Failed(after), "closed")
      ELSE relay' = after /\ UNCHANGED <<phase, upstream>>

\* A chunk of any size; each of its events is handled and sent on.
Receive ==
    /\ phase = "relaying"
    /\ \E n \in read + 1 .. Len(case.wire) :
          LET parsed == ParserFeed(parser, SubSeq(case.wire, read + 1, n))
          IN  /\ read' = n
              /\ parser' = parsed.parser
              /\ RelayOn(HandleAll(relay, parsed.events))
    /\ UNCHANGED case

\* The provider fails, or is silent for longer than the read timeout.
UpstreamBreaks ==
    /\ phase = "relaying"
    /\ Answered(Failed(relay), "closed")
    /\ UNCHANGED <<case, read, parser>>

LastWords(after) == IF after.raised THEN Failed(after) ELSE FlushAll(after)

\* The last event, then the held tails.
UpstreamEnds ==
    /\ phase = "relaying"
    /\ read = Len(case.wire)
    /\ Answered(LastWords(HandleAll(relay, ParserFlush(parser))), "closed")
    /\ UNCHANGED <<case, read, parser>>

\* Mutant: the relay has no finally around its reading.
HangUpUnclosed ==
    /\ phase = "relaying"
    /\ phase' = "gone"
    /\ UNCHANGED <<case, upstream, read, parser, relay>>

\* The client hangs up: the generator is closed where it stands.
HangUp ==
    /\ phase = "relaying"
    /\ phase' = "gone"
    /\ upstream' = "closed"
    /\ UNCHANGED <<case, read, parser, relay>>

Next ==
    \/ Refuse \/ Open \/ ReadBody \/ ReadBodyRaises
    \/ Start \/ NeverStarts
    \/ Receive \/ UpstreamBreaks \/ UpstreamEnds \/ HangUp

Spec == Init /\ [][Next]_vars
-----------------------------------------------------------------------------
\* What a payload says on a channel, and what the client was sent on it.
TextOn(p, key) ==
    FlattenSeq([n \in DOMAIN LocateTexts(p) |->
        IF LocateTexts(p)[n].key = key THEN p.texts[LocateTexts(p)[n].path] ELSE <<>>])
SentOn(key) == FlattenSeq([n \in DOMAIN relay.sent |-> TextOn(relay.sent[n], key)])

\* The event ends a block: the relay flushes at it.
EndsBlock(event) ==
    LET p == PayloadOf(event)
    IN  p.json /\ ~IsThinking(p) /\ LocateTexts(p) = <<>> /\ IsStop(event)

\* What events said on a channel, cut at the stops of some blocks.
Blocks == {0, 1}
PartsOf(events, key, blocks) ==
    FoldLeft(LAMBDA parts, event :
                IF EndsBlock(event) /\ PayloadOf(event).index \in blocks THEN Append(parts, <<>>)
                ELSE [parts EXCEPT ![Len(parts)] = @ \o TextOn(PayloadOf(event), key)],
             << <<>> >>, events)

\* The block whose text the channel carries; a choice of a completion has none.
BlockOf(key) ==
    CASE key \in {TextKey[0], JsonKey[0]} -> {0}
      [] key \in {TextKey[1], JsonKey[1]} -> {1}
      [] OTHER -> {}

\* Blocks follow one another: when one stops, nothing was said on the channels of
\* the others since their own last stop.
BlocksInTurn ==
    \A n \in DOMAIN relay.handled : EndsBlock(relay.handled[n]) =>
        \A key \in Channels :
            \/ PayloadOf(relay.handled[n]).index \in BlockOf(key)
            \/ Last(PartsOf(SubSeq(relay.handled, 1, n - 1), key, BlockOf(key))) = <<>>

\* Redaction of each of these parts at once.
WholeOf(parts) == FlattenSeq([n \in DOMAIN parts |-> redact_text(parts[n])])

\* The client has on the channel what redacting each part at once gives, unless a
\* part has a candidate that is taken back, or a run longer than the ceiling.
SentAsWhole(key, parts) ==
    SentOn(key) # WholeOf(parts) =>
        \E n \in DOMAIN parts : ~NothingTakenBack(parts[n]) \/ ~NoRunOutgrows(parts[n])

\* No payload has texts of two channels.
OneTextEach ==
    \A n \in DOMAIN relay.handled : Len(LocateTexts(PayloadOf(relay.handled[n]))) <= 1

Relayed == phase = "over" /\ case.stream /\ upstream = "closed"

\* TYPE INVARIANT: the provider's response is open from its first line until the
\* exchange ends, by an answer, a failure or a hang-up, and a relay dropped before
\* its first step is the one way to leave it open (app.py:168-174); nothing is
\* sent before reading begins, and a relay that raised reads no further.
TypeOK ==
    /\ phase \in {"asked", "opened", "relaying", "over", "gone", "dropped"}
    /\ upstream \in {"none", "open", "closed"}
    /\ upstream = "open" <=> phase \in {"opened", "relaying", "dropped"}
    /\ phase = "asked" => upstream = "none"
    /\ phase = "gone" => upstream = "closed"
    /\ read \in 0 .. Len(case.wire)
    /\ phase \in {"asked", "opened", "dropped"} => relay = NewRelay
    /\ ~(case.stream /\ phase = "relaying" /\ relay.raised)

\* INVARIANT: the events are the same however the bytes are cut into chunks.
CutsDoNotMatter ==
    case.stream => IsPrefix(relay.handled, EventsOf(case.wire))

\* INVARIANT: when the relay is over, normally or by a failure, and the blocks
\* came in turn, the client has on each channel what redacting the text of each of
\* its own blocks at once gives.  When they did not, a stop of any block ended the
\* text of all (stream.py:315-316), and the same holds of the pieces between two
\* stops only: a secret that another block's stop cuts in two is not hidden.
ChannelsAsWhole ==
    Relayed /\ OneTextEach =>
        \A key \in Channels :
            SentAsWhole(key, PartsOf(relay.handled, key,
                                     IF BlocksInTurn THEN BlockOf(key) ELSE Blocks))

\* INVARIANT: in every stream, whatever blocks it mixes and whatever a detector
\* takes back, the client has on each channel the text said on it, once and in
\* order, but for candidates and over-long runs; a placeholder stands wherever
\* characters are missing.
OnlyCandidatesAreMissing ==
    Relayed /\ OneTextEach =>
        \A key \in Channels :
            LET said == PartsOf(relay.handled, key, {})[1]
                sent == SentOn(key)
                \* Where the n-th character stood, or 0.
                from == [n \in DOMAIN sent |-> Max({0} \cup {i \in DOMAIN said : said[i] = sent[n]})]
            IN  /\ sent = <<>> => said = <<>>
                /\ \A n \in DOMAIN sent : sent[n] # Placeholder =>
                      /\ from[n] # 0 /\ \A m \in 1 .. n - 1 : from[m] < from[n]
                      /\ n = 1 => from[n] = 1
                      /\ n > 1 /\ sent[n - 1] # Placeholder => from[n] = from[n - 1] + 1
                      /\ n = Len(sent) => from[n] = Len(said)
                /\ \A i \in DOMAIN said :
                      said[i] \in ToSet(sent) \/ InCandidate(said, i) \/ InLongRun(said, i)

\* INVARIANT: a stream that was not relayed to its end says so.
EndIsHonest ==
    Relayed /\ relay.handled # EventsOf(case.wire) =>
        relay.sent # <<>> /\ Last(relay.sent) = ErrorPayload

\* INVARIANT (refuted): stream.py:301-304, "no original text survives into the
\* re-serialised event".
NoOriginalSurvives ==
    Relayed => \A key \in Channels :
        SentOn(key) = WholeOf(PartsOf(relay.handled, key, BlockOf(key)))
=============================================================================
