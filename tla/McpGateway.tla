----------------------------- MODULE McpGateway -----------------------------
(***************************************************************************)
(* One POST to the MCP security gateway: mcp_gateway/app.py with the       *)
(* decisions of policy.py, the envelope checks of jsonrpc.py and the       *)
(* forwarding of proxy.py.  The gateway keeps no state between requests,   *)
(* so exchanges do not influence one another and one is enough.            *)
(*                                                                         *)
(* A message is abstracted to what the gateway tells apart: whether its    *)
(* envelope is sound, its method, its tool, and whether it has an id.  The *)
(* id of the i-th message is i.  What the downstream server does with the  *)
(* bytes it receives is external; mock_downstream/app.py is one instance.  *)
(***************************************************************************)
EXTENDS Integers, Sequences, SequencesExt

CONSTANTS
    Methods,    \* method names a client may send
    Tools,      \* tool names a client may put in a tools/call
    MaxBatch    \* bound: messages in a batch

ASSUME GatewayAssumption ==
    /\ Methods \subseteq {"tools/call", "Tools/Call", "tools/list", "x/unknown"}
    /\ Tools \subseteq {"get", "admin_reset", "Admin_reset", "unreadable"}
    /\ MaxBatch \in Nat \ {0}

VARIABLES
    config,     \* the two switches of Config that matter here
    role,       \* of the resolved principal, or "none"
    payload,    \* the request body
    pc,         \* where handle_mcp_post stands
    allowed,    \* messages that go downstream
    denials,    \* error objects for those that do not
    received,   \* what the downstream server was handed
    answer,     \* what it returned
    reply       \* what the client gets

vars == <<config, role, payload, pc, allowed, denials, received, answer, reply>>

\* normalize_method and is_privileged_tool fold what a lenient server may fold.
Folded(name) ==
    CASE name = "Tools/Call" -> "tools/call"
      [] name = "Admin_reset" -> "admin_reset"
      [] OTHER -> name

KnownMethods == {"tools/call", "tools/list"}
Privileged(tool) == Folded(tool) = "admin_reset"

\* A message: an "ambiguous" one repeats a key, so that another parser would
\* read "admin_reset" where json.loads reads its tool.
Kinds ==
    {[form |-> "sound", method |-> m, tool |-> t] :
        m \in {n \in Methods : Folded(n) = "tools/call"}, t \in Tools}
    \cup {[form |-> "sound", method |-> m, tool |-> "none"] :
        m \in {n \in Methods : Folded(n) # "tools/call"}}
    \cup {[form |-> f, method |-> "tools/call", tool |-> "get"] : f \in {"malformed", "ambiguous"}}

NoId == 0   \* of a notification; in an error object, a null id

Message(k, id) == [form |-> k.form, method |-> k.method, tool |-> k.tool, id |-> id]

Batches == UNION {{b \in [1 .. n -> UNION {{Message(k, id) : k \in Kinds} : id \in 0 .. MaxBatch}] :
                      \A i \in 1 .. n : b[i].id \in {i, NoId}} : n \in 1 .. MaxBatch}

Payloads ==
    {[batch |-> TRUE, messages |-> b] : b \in Batches}
    \cup {[batch |-> FALSE, messages |-> b] : b \in {c \in Batches : Len(c) = 1}}

NoAnswer == [type |-> "none", status |-> 0, items |-> <<>>]
NoReply == [status |-> 0, shape |-> "none", items |-> <<>>]

Init ==
    /\ config \in [allowlist : BOOLEAN, filter : BOOLEAN]
    /\ role \in {"admin", "viewer", "none"}
    /\ payload \in Payloads
    /\ pc = "read"
    /\ allowed = <<>> /\ denials = <<>> /\ received = <<>>
    /\ answer = NoAnswer /\ reply = NoReply

-----------------------------------------------------------------------------
\* The members of a sequence at the positions in I, in their order, and those
\* that pass a test: Sequences!SelectSeq, whose recursive definition is out of
\* the prover's reach; a rank is not.
At(s, I) ==
    [k \in 1 .. Cardinality(I) |-> s[CHOOSE i \in I : Cardinality({j \in I : j <= i}) = k]]

Where(s, Test(_)) == At(s, {i \in DOMAIN s : Test(s[i])})

IsRequest(m) == m.id # NoId

Error(id, code) == [id |-> id, what |-> code]

\* The client gets a response; a batch gets an array, anything else an object.
Reply(status, shape, items) ==
    /\ pc' = "done"
    /\ reply' = [status |-> status, shape |-> shape, items |-> items]

Forms == {payload.messages[i].form : i \in DOMAIN payload.messages}

\* The error for the first malformed message echoes its id where it has one
\* that can be recovered; a repeated key anywhere ends the parse before that.
Unusable ==
    \/ "ambiguous" \in Forms /\ Reply(400, "object", <<Error(NoId, "invalid")>>)
    \/ /\ "ambiguous" \notin Forms
       /\ \E i \in DOMAIN payload.messages :
             /\ payload.messages[i].form = "malformed"
             /\ \A j \in 1 .. i - 1 : payload.messages[j].form # "malformed"
             /\ \E id \in {payload.messages[i].id, NoId} :
                   Reply(400, "object", <<Error(id, "invalid")>>)

\* 401, 413 whatever the body holds, or 400 for one that cannot be used.
RefuseWhole ==
    /\ pc = "read"
    /\ \/ role = "none" /\ Reply(401, "object", <<Error(NoId, "unauthenticated")>>)
       \/ role # "none" /\ Reply(413, "object", <<Error(NoId, "too_large")>>)
       \/ role # "none" /\ Unusable
    /\ UNCHANGED <<config, role, payload, allowed, denials, received, answer>>

\* MUTANT of Denial: the method is compared as it was sent.
DenialUnfolded(m) ==
    CASE config.allowlist /\ m.method \notin KnownMethods -> "unknown_method"
      [] m.method # "tools/call" -> "none"
      [] m.tool = "unreadable" -> "invalid_params"
      [] Privileged(m.tool) /\ role # "admin" -> "unauthorized"
      [] OTHER -> "none"

\* policy.evaluate: the conditions are tried in this order.
Denial(m) ==
    IF config.allowlist /\ m.method \notin KnownMethods THEN "unknown_method"
    ELSE IF Folded(m.method) # "tools/call" THEN "none"
    ELSE IF m.tool = "unreadable" THEN "invalid_params"
    ELSE IF Privileged(m.tool) /\ role # "admin" THEN "unauthorized"
    ELSE "none"

Allowed(m) == Denial(m) = "none"

\* MUTANT of Denials: a blocked notification is answered as well.
DenialsAll(messages) ==
    LET blocked == Where(messages, LAMBDA m : ~Allowed(m))
    IN  [i \in DOMAIN blocked |-> Error(blocked[i].id, Denial(blocked[i]))]

\* An error object for each blocked request, none for a blocked notification.
Denials(messages) ==
    LET blocked == Where(messages, LAMBDA m : ~Allowed(m) /\ IsRequest(m))
    IN  [i \in DOMAIN blocked |-> Error(blocked[i].id, Denial(blocked[i]))]

Sound == Forms = {"sound"}

\* MUTANT of Decide: one allowed message lets the whole payload through.
DecideOnAny ==
    /\ pc = "read" /\ role # "none" /\ Sound
    /\ denials' = Denials(payload.messages)
    /\ LET kept == Where(payload.messages, Allowed)
       IN  IF kept # <<>>
           THEN /\ pc' = "forward" /\ allowed' = payload.messages
                /\ UNCHANGED reply
           ELSE /\ Reply(200, "array", denials')
                /\ UNCHANGED allowed
    /\ UNCHANGED <<config, role, payload, received, answer>>

\* Every message is evaluated on its own.  What is allowed is forwarded; when
\* nothing is, the denials are the response, or 204 when there are none.
Decide ==
    /\ pc = "read" /\ role # "none" /\ Sound
    /\ denials' = Denials(payload.messages)
    /\ allowed' = Where(payload.messages, Allowed)
    /\ IF allowed' # <<>> THEN pc' = "forward" /\ UNCHANGED reply
       ELSE IF denials' = <<>> THEN Reply(204, "empty", <<>>)
       ELSE Reply(200, IF payload.batch THEN "array" ELSE "object", denials')
    /\ UNCHANGED <<config, role, payload, received, answer>>

-----------------------------------------------------------------------------
(* The downstream server, external.                                        *)

\* It is handed the forwarded messages; it may also never be reached.
Receive ==
    /\ pc = "forward" /\ received = <<>>
    /\ received' = allowed
    /\ UNCHANGED <<config, role, payload, pc, allowed, denials, answer, reply>>

\* One response for each request; those to tools/list name every tool.
Responses ==
    LET requests == Where(received, IsRequest)
    IN  [i \in DOMAIN requests |->
            [id |-> requests[i].id,
             what |-> IF requests[i].method = "tools/list" THEN "all_tools" ELSE "result"]]

Answers(type, status, items) ==
    /\ pc = "forward" /\ received # <<>>
    /\ pc' = "build"
    /\ answer' = [type |-> type, status |-> status, items |-> items]
    /\ UNCHANGED <<config, role, payload, allowed, denials, received, reply>>

AnswersJson == Responses # <<>> /\ Answers("json", 200, Responses)
AnswersStream == Responses # <<>> /\ Answers("stream", 200, Responses)
AnswersNothing == Responses = <<>> /\ \E status \in {202, 204} : Answers("none", status, <<>>)
AnswersGarbage == \/ Answers("malformed", 200, <<>>)    \* application/json, cut short
                  \/ Answers("html", 500, <<>>)         \* an error page

-----------------------------------------------------------------------------
\* MUTANT of ForwardFails: the denials are lost with the forward.
ForwardFailsAlone ==
    /\ pc = "forward"
    /\ Reply(502, IF payload.batch THEN "array" ELSE "object",
             <<Error(Head(allowed).id, "upstream_unavailable")>>)
    /\ UNCHANGED <<config, role, payload, allowed, denials, received, answer>>

\* proxy.forward raises, whether or not the server acted on the request.
ForwardFails ==
    /\ pc = "forward"
    /\ LET error == Error(Head(allowed).id, "upstream_unavailable")
       IN  IF payload.batch THEN Reply(502, "array", denials \o <<error>>)
           ELSE Reply(502, "object", <<error>>)
    /\ UNCHANGED <<config, role, payload, allowed, denials, received, answer>>

\* MUTANT of Filtered: only a single response is filtered.
FilteredSingle(items) ==
    [i \in DOMAIN items |->
        IF role # "admin" /\ ~payload.batch /\ items[i].what = "all_tools"
        THEN [items[i] EXCEPT !.what = "open_tools"] ELSE items[i]]

\* _filter_tools_list, over an array or an object.
Filtered(items) ==
    [i \in DOMAIN items |->
        IF role # "admin" /\ items[i].what = "all_tools"
        THEN [items[i] EXCEPT !.what = "open_tools"] ELSE items[i]]

\* _build_client_response
Build ==
    LET isJson == answer.type \in {"json", "malformed"}
        kept == IF config.filter THEN Filtered(answer.items) ELSE answer.items
        shape == IF payload.batch THEN "array" ELSE "object"
        malformed == Error(NoId, "upstream_unavailable")
    IN  /\ pc = "build"
        /\ IF denials = <<>> /\ ~(config.filter /\ isJson)
           THEN Reply(answer.status,
                      CASE answer.type = "json" -> shape
                        [] answer.type = "none" -> "empty"
                        [] OTHER -> answer.type,
                      answer.items)
           ELSE IF ~isJson
           THEN Reply(answer.status, "array", denials)
           ELSE IF answer.type = "malformed"
           THEN Reply(502, "array", denials \o <<malformed>>)
           ELSE Reply(answer.status, IF denials = <<>> THEN shape ELSE "array", kept \o denials)
        /\ UNCHANGED <<config, role, payload, allowed, denials, received, answer>>

Next ==
    \/ RefuseWhole \/ Decide \/ ForwardFails \/ Build
    \/ Receive \/ AnswersJson \/ AnswersStream \/ AnswersNothing \/ AnswersGarbage

Spec == Init /\ [][Next]_vars

-----------------------------------------------------------------------------
\* What reaches the client: a 204 carries no body, whatever was put in it.
Delivered == IF reply.status = 204 THEN <<>> ELSE reply.items
Ids(items) == {items[i].id : i \in DOMAIN items}
Requests == {i \in DOMAIN payload.messages : IsRequest(payload.messages[i])}
Times(id) == Cardinality({i \in DOMAIN Delivered : Delivered[i].id = id})

\* TYPE INVARIANT.
TypeOK ==
    /\ role \in {"admin", "viewer", "none"}
    /\ ~payload.batch => Len(payload.messages) = 1 /\ (denials = <<>> \/ allowed = <<>>)
    /\ pc \in {"read", "forward", "build", "done"}
    /\ ToSet(allowed) \subseteq ToSet(payload.messages) /\ received \in {<<>>, allowed}
    /\ Ids(denials) \subseteq 1 .. MaxBatch
    /\ pc = "done" <=> reply.status # 0

\* SAFETY: no privileged tool runs for a caller who is not an admin, however the
\* server parses the bytes it is handed: exactly, with methods and names folded,
\* or taking the first of two equal keys.  "Blocked calls never leave the
\* gateway", whatever travels beside them (README.md:43, jsonrpc.py:65-80).
NoEscalation ==
    role # "admin" =>
        \A i \in DOMAIN received :
            /\ received[i].form = "sound"
            /\ Folded(received[i].method) = "tools/call" => ~Privileged(received[i].tool)

\* SAFETY: when the server answers in JSON every request is answered exactly
\* once, by the server or by its denial, no notification is, and a client that
\* sent one message does not get an array (README.md:69-70, jsonrpc.py:149-155).
EveryIdOnce ==
    pc = "done" /\ answer.type \in {"json", "none"} /\ reply.status \in {200, 202} =>
        /\ Ids(Delivered) = Requests
        /\ \A id \in Requests : Times(id) = 1
        /\ Requests # {} => (reply.shape = "object" <=> ~payload.batch)

\* SAFETY: a denial stands whatever happens to the rest of its batch: the server
\* is down, answers with a stream, an error page or half an object
\* (app.py:225, 256-257).  Only a 204, whose body is empty, carries none: there
\* app.py:259 gives the denials the server's own status.
DenialStands ==
    pc = "done" /\ reply.status # 204 =>
        \A i \in DOMAIN denials : \E j \in DOMAIN Delivered : Delivered[j] = denials[i]

\* SAFETY: with the filter on, a caller who is not an admin is not shown the
\* admin tools in any response the gateway can parse (app.py:140-155).
AdminToolsHidden ==
    pc = "done" /\ config.filter /\ role # "admin" /\ answer.type # "stream" =>
        \A i \in DOMAIN Delivered : Delivered[i].what # "all_tools"

=============================================================================
