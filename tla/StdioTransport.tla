--------------------------- MODULE StdioTransport ---------------------------
(***************************************************************************)
(* The stdio transport of the MCP server (transport.py) between a client's *)
(* lines and the SDK: lines the SDK would discard are answered by a pump   *)
(* task, from a bounded queue; the others reach the server.                *)
(***************************************************************************)
EXTENDS Integers, Sequences, SequencesExt

CONSTANTS
    Lines,              \* the lines a client may write
    MaxLines,           \* bound: how many it writes
    RejectionBuffer     \* _REJECTION_BUFFER, 256 in the code

ASSUME BoundsAssumption == MaxLines \in Nat /\ RejectionBuffer \in Nat \ {0}

\* A line, in what classify_line tells apart: what it is, its id ("usable" for an
\* integer or a string, "bool" for anything else that is there), whether jsonrpc
\* is "2.0", its method, whether params are an object or none, and whether it
\* has a result or an error.
LineType == [shape   : {"blank", "not json", "list", "scalar", "object"},
             id      : {"absent", "usable", "bool"},
             version : BOOLEAN,
             method  : {"absent", "unusable", "named"},
             params  : BOOLEAN,
             answer  : BOOLEAN]

ASSUME LinesAssumption == Lines \subseteq LineType

VARIABLES
    input,              \* all the client writes; a line's place is its usable id
    next,               \* how many lines were taken from stdin
    reader,             \* "reading", "blocked" on a full queue, or "ended"
    waiting,            \* the rejection a blocked reader holds, in a sequence
    queue,              \* the rejections sent and not yet received
    pumped,             \* the rejection the pump has received and not written
    serving,            \* requests the server is working on
    server,             \* "running" or "stopped"
    wire                \* what was written to stdout

vars == <<input, next, reader, waiting, queue, pumped, serving, server, wire>>

PARSE_ERROR     == "parse error"
INVALID_REQUEST == "invalid request"
INVALID_PARAMS  == "invalid params"
Answered        == "answered"

Line(shape, id, version, method, params, answer) ==
    [shape |-> shape, id |-> id, version |-> version, method |-> method,
     params |-> params, answer |-> answer]

Null == 0
\* Mutant: True is an int.
RecoverableIdOfBool(n) == IF input[n].id = "absent" THEN Null ELSE IF input[n].id = "bool" THEN 1 ELSE n
RecoverableId(n) == IF input[n].id = "usable" THEN n ELSE Null

\* An answer: to which line, under which id, of which kind.
Error(n, code, id) == [line |-> n, id |-> id, kind |-> code]

\* The two verdicts that answer nothing: hand the line to the SDK, or skip it.
Pass == Error(0, "pass", Null)
Drop == Error(0, "drop", Null)

\* Mutant: a malformed notification is answered.
RejectAlways(n, code) == Error(n, code, RecoverableId(n))

\* A malformed notification draws no response.
Reject(n, code) ==
    IF input[n].id = "absent" THEN Drop ELSE Error(n, code, RecoverableId(n))

\* What becomes of the n-th line.
ClassifyLine(n) ==
    LET line == input[n]
    IN  CASE line.shape = "blank"    -> Drop
          [] line.shape = "not json" -> Error(n, PARSE_ERROR, Null)
          [] line.shape = "list"     -> Error(n, INVALID_REQUEST, Null)
          [] line.shape = "scalar"   -> Error(n, INVALID_REQUEST, Null)
          [] line.shape = "object" /\ line.method = "absent" /\ line.answer -> Pass
          [] OTHER ->
               IF ~line.version              THEN Reject(n, INVALID_REQUEST)
               ELSE IF line.method # "named" THEN Reject(n, INVALID_REQUEST)
               ELSE IF ~line.params          THEN Reject(n, INVALID_PARAMS)
               ELSE IF line.id # "absent" /\ RecoverableId(n) = Null
                                             THEN Error(n, INVALID_REQUEST, Null)
               ELSE Pass
-----------------------------------------------------------------------------
Init ==
    /\ input \in BoundedSeq(Lines, MaxLines)
    /\ next = 0
    /\ reader = "reading"
    /\ waiting = <<>>
    /\ queue = <<>>
    /\ pumped = <<>>
    /\ serving = {}
    /\ server = "running"
    /\ wire = <<>>

\* A request goes to the server; a notification or a response draws no answer.
Forward(n) ==
    /\ serving' = IF input[n].id = "usable" /\ input[n].method = "named"
                    THEN serving \cup {n} ELSE serving
    /\ UNCHANGED <<reader, waiting, queue>>

\* Mutant: a rejection is dropped when the queue is full.
EnqueueOrDrop(rejection) ==
    /\ queue' = IF Len(queue) < RejectionBuffer THEN Append(queue, rejection) ELSE queue
    /\ UNCHANGED <<reader, waiting, serving>>

\* Mutant: the queue has no bound.
EnqueueUnbounded(rejection) ==
    /\ queue' = Append(queue, rejection)
    /\ UNCHANGED <<reader, waiting, serving>>

\* rejections.send waits for room.
Enqueue(rejection) ==
    /\ IF Len(queue) < RejectionBuffer
         THEN queue' = Append(queue, rejection) /\ UNCHANGED <<reader, waiting>>
         ELSE /\ reader' = "blocked"
              /\ waiting' = <<rejection>>
              /\ UNCHANGED queue
    /\ UNCHANGED serving

\* One line from stdin, while the SDK iterates it.
ReadLine ==
    /\ reader = "reading" /\ server = "running"
    /\ next < Len(input)
    /\ next' = next + 1
    /\ LET verdict == ClassifyLine(next + 1)
       IN  CASE verdict = Pass -> Forward(next + 1)
             [] verdict = Drop -> UNCHANGED <<reader, waiting, queue, serving>>
             [] OTHER          -> Enqueue(verdict)
    /\ UNCHANGED <<input, pumped, server, wire>>

\* The queue has room again and the blocked send returns.
Resume ==
    /\ reader = "blocked" /\ server = "running"
    /\ Len(queue) < RejectionBuffer
    /\ queue' = queue \o waiting
    /\ waiting' = <<>>
    /\ reader' = "reading"
    /\ UNCHANGED <<input, next, pumped, serving, server, wire>>

\* The client closes stdin: the SDK's loop over it ends.
EndOfInput ==
    /\ reader = "reading" /\ server = "running"
    /\ next = Len(input)
    /\ reader' = "ended"
    /\ UNCHANGED <<input, next, waiting, queue, pumped, serving, server, wire>>

\* pump_rejections: receive one, then write it.
PumpReceives ==
    /\ server = "running"
    /\ pumped = <<>> /\ queue # <<>>
    /\ pumped' = <<Head(queue)>>
    /\ queue' = Tail(queue)
    /\ UNCHANGED <<input, next, reader, waiting, serving, server, wire>>
PumpWrites ==
    /\ server = "running"
    /\ pumped # <<>>
    /\ wire' = wire \o pumped
    /\ pumped' = <<>>
    /\ UNCHANGED <<input, next, reader, waiting, queue, serving, server>>

\* The server answers what it was given, in any order.
ServerAnswers ==
    /\ server = "running"
    /\ \E n \in serving :
          /\ wire' = Append(wire, Error(n, Answered, n))
          /\ serving' = serving \ {n}
    /\ UNCHANGED <<input, next, reader, waiting, queue, pumped, server>>

\* server.run returns once its input ended; the transport's finally cancels the
\* pump, whatever is still queued.
Stop ==
    /\ server = "running" /\ reader = "ended"
    /\ server' = "stopped"
    /\ UNCHANGED <<input, next, reader, waiting, queue, pumped, serving, wire>>

Pump == PumpReceives \/ PumpWrites

Next == ReadLine \/ Resume \/ EndOfInput \/ Pump \/ ServerAnswers \/ Stop

Spec == Init /\ [][Next]_vars

\* The event loop runs every task that can run; when the client closes its end
\* is its own affair.
FairSpec ==
    Spec /\ WF_vars(ReadLine) /\ WF_vars(Resume) /\ WF_vars(Pump) /\ WF_vars(ServerAnswers)
-----------------------------------------------------------------------------
\* Whether JSON-RPC owes a line an answer, told from the line alone: an object
\* that is no response and carries an id, or what is not an object at all.
IsResponse(line) == line.shape = "object" /\ line.method = "absent" /\ line.answer
Owed(n) ==
    \/ input[n].shape \in {"not json", "list", "scalar"}
    \/ input[n].shape = "object" /\ input[n].id # "absent" /\ ~IsResponse(input[n])

\* The lines that answers are to.
LinesOf(answers) == {answers[i].line : i \in DOMAIN answers}

\* Where the answer to a line can be.
Places == <<LinesOf(wire), LinesOf(pumped), LinesOf(queue), LinesOf(waiting), serving>>

\* TYPE INVARIANT: the queue keeps its bound, and the reader is blocked exactly
\* while it holds a rejection.
TypeOK ==
    /\ next \in 0 .. Len(input)
    /\ reader \in {"reading", "blocked", "ended"}
    /\ Len(queue) <= RejectionBuffer /\ Len(pumped) <= 1
    /\ waiting # <<>> <=> reader = "blocked"
    /\ serving \subseteq 1 .. next
    /\ server \in {"running", "stopped"}

\* INVARIANT: every line that is owed an answer and was read has exactly one, on
\* the wire, on its way there or in the hands of the server; no other has any.
EveryOwedLineHasOne ==
    /\ UNION ToSet(Places) = {n \in 1 .. next : Owed(n)}
    /\ \A a, b \in DOMAIN Places : a # b => Places[a] \cap Places[b] = {}
    /\ \A answers \in {wire, pumped, queue, waiting} :
          \A i, j \in DOMAIN answers : i # j => answers[i].line # answers[j].line

\* INVARIANT: an answer carries the id of its own line, or null when that has
\* none to echo: a client never takes it for the answer to another call.
IdsAreTheirOwn ==
    \A i \in DOMAIN wire :
        LET n == wire[i].line
        IN  wire[i].id = IF input[n].shape = "object" /\ input[n].id = "usable" THEN n ELSE Null

\* LIVENESS: every line that is owed an answer gets it, unless the client closed
\* its end and the server stopped.
EveryOwedLineIsAnswered ==
    \A n \in 1 .. MaxLines :
        (n <= Len(input) /\ Owed(n)) ~>
            (server = "stopped" \/ \E i \in DOMAIN wire : wire[i].line = n)
=============================================================================
