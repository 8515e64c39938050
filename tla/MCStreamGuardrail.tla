------------------------- MODULE MCStreamGuardrail -------------------------
(***************************************************************************)
(* Exchanges for StreamGuardrail: every sequence of up to three events of  *)
(* two small alphabets (what events there are; two blocks that interleave),*)
(* shorter ones in each of the three line endings, with and without their  *)
(* last blank line, and under each policy.                                 *)
(***************************************************************************)
EXTENDS StreamGuardrail

\* Events before their characters are tagged: name and payload.
Said(type, index, path, classes) ==
    [name |-> NoName, payload |-> Payload(TRUE, TRUE, type, index, path :> classes)]
Plain(name, payload) == [name |-> name, payload |-> payload]

Prose1   == Said("text_delta", 0, "delta", <<"1">>)
Prose2   == Said("text_delta", 0, "delta", <<"-", "1">>)
Prose3   == Said("text_delta", 0, "delta", <<"a", " ">>)
Tool1    == Said("input_json_delta", 1, "delta", <<"1">>)
Tool2    == Said("input_json_delta", 1, "delta", <<"-", "1", " ">>)
Choice   == Said("none", 0, "choice0", <<"1", "-">>)
Unknown  == Said("other", 0, "leaf", <<"1", "-", "1">>)
Thought  == Said("thinking", 0, "leaf", <<"1">>)
StopType == Said(BLOCK_STOP, 0, "leaf", <<>>)
StopName == Plain(BLOCK_STOP, Payload(TRUE, TRUE, "other", 0, "leaf" :> <<>>))
StopTool == Said(BLOCK_STOP, 1, "leaf", <<>>)
Sentinel == Plain(NoName, NotJson(<<"a">>))
Listed   == Plain(NoName, Payload(TRUE, FALSE, "none", 0, "leaf" :> <<"1">>))
Pair     == Plain(NoName, Payload(TRUE, TRUE, "none", 0,
                                  ("choice0" :> <<"1">>) @@ ("choice1" :> <<"1", "-", "1">>)))

Streamed == {Prose1, Prose2, Prose3, Tool1, Tool2, Choice, Unknown, StopType, StopName,
             Sentinel, Listed}

\* Two blocks at once: what one's stop does to the other, an address that one more
\* label takes back, a number that fails before a card, a run over the ceiling.
Mail   == Said("text_delta", 0, "delta", <<"a", "@", "a", ".", "a", ".">>)
Label  == Said("text_delta", 0, "delta", <<"a">>)
Number == Said("text_delta", 0, "delta", <<"1", "0", " ", "0", " ">>)
Card   == Said("text_delta", 0, "delta", <<"0", "0", " ">>)
Long   == Said("input_json_delta", 1, "delta", <<"a", "a", "a", "a", "a", "a", "a">>)
Mixed  == {Prose1, Prose2, Mail, Label, Number, Card, Tool1, Tool2, Long, StopType, StopTool}

\* The characters of the n-th event of a stream get tags of their own.
TagEvent(event, n) ==
    [event EXCEPT !.payload.texts =
        [path \in DOMAIN @ |->
            [j \in DOMAIN @[path] |->
                <<@[path][j], 10 * n + j + (IF path = "choice1" THEN 5 ELSE 0)>>]]]

\* The bytes of a stream; `whole` when its last event ends in a blank line.
Bytes(events, ending, whole) ==
    LET Line(field, value) == <<[field |-> field, value |-> value]>> \o ending
        Event(e) == (IF e.name = NoName THEN <<>> ELSE Line("event", e.name))
                        \o Line("data", e.payload) \o ending
        all == FlattenSeq([n \in DOMAIN events |-> Event(TagEvent(events[n], n))])
    IN  IF whole \/ all = <<>> THEN all ELSE SubSeq(all, 1, Len(all) - 2 * Len(ending))

Defaults == [thinking |-> "drop", unknown_schema |-> "redact"]
Policies == {Defaults, [thinking |-> "redact", unknown_schema |-> "block"],
             [thinking |-> "pass", unknown_schema |-> "pass"]}

Exchange(stream, wire, policy) == [stream |-> stream, wire |-> wire, policy |-> policy]
Endings == {<<LF>>, <<CR>>, <<CR, LF>>}

MCCases ==
    {Exchange(TRUE, Bytes(e, <<LF>>, TRUE), Defaults) : e \in BoundedSeq(Streamed, 3)}
    \cup {Exchange(TRUE, Bytes(x[1], x[2], x[3]), Defaults) :
            x \in BoundedSeq({Prose1, Prose2, Tool1, StopName, Sentinel}, 2) \X Endings \X BOOLEAN}
    \cup {Exchange(TRUE, Bytes(x[1], <<LF>>, TRUE), x[2]) :
            x \in BoundedSeq({Prose1, Tool1, Unknown, Thought, StopType, Pair}, 2) \X Policies}
    \cup {Exchange(TRUE, Bytes(e, <<LF>>, TRUE), Defaults) : e \in BoundedSeq(Mixed, 3)}
    \cup {Exchange(FALSE, Bytes(<<e>>, <<LF>>, TRUE), Defaults) : e \in Streamed}

\* What the theorems on chunks ask of a wire.
ASSUME WiresAreUniform == \A c \in Cases : OneTerminator(c.wire)

\* A completion with two choices, the first of which ends in held text.
TwoChoices == {Exchange(TRUE, Bytes(<<Pair>>, <<LF>>, TRUE), Defaults)}
=============================================================================
