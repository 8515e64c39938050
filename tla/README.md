# A TLA+ verification of QuilrAI_MCP

The repository holds four services that sit between AI agents and the models and
tools they call: an LLM router (rate limiting and failover), an LLM guardrail
(streaming redaction), an MCP gateway (authorisation of tool calls) and an MCP
server (customer lookup and refunds). This directory models the parts of them
whose correctness depends on order, concurrency or failure, checks the models
with TLC, and proves with TLAPS, for every value of the constants, the safety
properties of the rate limiter, the router, the refund ledger, the MCP gateway,
the stdio transport, the guardrail's redactor and its stream.

File names below are short: `ratelimit.py` is
`llm-gateway-router/src/llm_router/ratelimit.py`, and so on.

## 1. Inventory

| Component | State it keeps | Operations | What is hard |
| --- | --- | --- | --- |
| Rate limiter and store (`ratelimit.py`, `store.py`) | table `token_usage`; one connection and one `asyncio.Lock` per process; open transaction | `check_and_reserve`, `settle`, `release`, reads `usage`, `row_count` | coroutines, pool threads and processes interleave; `BEGIN IMMEDIATE` may time out; an await can be cancelled while its thread runs on; stamps are read early; process death |
| Router (`router.py`, `providers.py`) | per request: attempts, reservation, open stream | `route`, `_route_stream`, `relay`, `_exhausted` | timeouts and failover, settlement on every path, streams that break off, exceptions out of the limiter |
| Token accounting (`tokens.py`) | stream collector: buffer, counts | `reservation_size`, `actual_tokens`, `feed`, `total` | usage that is missing, zero, or arrives last |
| Router app, auth, config | none between requests | `/v1/messages`, `/v1/usage` | stateless; refuses before anything is reserved |
| Refund ledger (`idempotency.py`, `store.py` of the MCP server) | table `refund_operations`; balances in memory | `create_refund` = `run_once` + `_issue_refund` | retries, two processes, a crash between moving money and recording it |
| MCP server tools, schemas | none | `handle_call_tool` | validation only |
| MCP stdio transport (`transport.py`) | queue of rejections; what reader and pump hold | read and classify a line, pump, stop | a full queue blocks the reader, two tasks write, shutdown with queued rejections |
| MCP gateway (`app.py`, `policy.py`, `jsonrpc.py`, `proxy.py`) | none between requests | POST, GET/DELETE passthrough | batches that mix allowed and blocked messages, downstream failure, merging |
| Guardrail redactor (`redactor.py`, `patterns.py`) | held-back text, suppression flag | `feed`, `flush`, `redact_text` | chunk boundaries, matches that may grow or be taken back, the ceiling |
| Guardrail stream (`stream.py`, `sse.py`) | one redactor per channel, parser buffer | `redact_sse_stream` | order of flushes and events, terminators split over chunks, failures after the status line |
| Guardrail app (`app.py`) | the provider's open response | `handle_messages` | closing that response on every path |
| Demo console, mock upstreams, scripts, compose | – | – | not part of the services |

How they interact. The router calls the limiter before its first attempt
and exactly once more to close the reservation; the limiter runs each call as
one transaction of SQLite on a pool thread. Processes of the router meet only in
the database file. A process of the MCP server answers one call at a time and
meets other processes in the ledger file. The MCP gateway sits in front of any
MCP server and shares nothing with the other three. A guardrail exchange owns its
parser and its redactors; nothing is shared between exchanges. In the MCP server
the reader of stdin, the pump and the server are tasks of one event loop, joined
by a bounded queue and by the writing end of stdout.

What makes each correct:

* limiter: a tenant's admissions never exceed the limit in any window; no call
  undoes another's effect; every call ends; the advertised wait is the least.
* router: the reservation stands while a provider may work; nothing served is
  free; failures report what happened; each request is answered and closed.
* refunds: an operation moves money at most once per replay window; a replay
  names the original; a client's answer is on disk.
* gateway: a blocked call never leaves it; each request id is answered once;
  denials stand.
* guardrail: output does not depend on chunking; held text is bounded; nothing is
  emitted before it is settled; nothing is lost; a broken stream says so.
* stdio transport: every line that is owed an answer gets one, once, under its own
  id.

## 2. Modules

```
SlidingWindow            sums over a window, eviction, least wait     ratelimit.py:87-135
  QuotaLedger            abstract: one atomic step per limiter call   ratelimit.py:137-204
    MCQuotaLedger        instance for TLC
    QuotaLedgerProofs    TLAPS; begins with the lemmas on sums
    Router               routing over the ledger (INSTANCE)           router.py, providers.py, tokens.py
      RouterProofs       TLAPS; INSTANCEs QuotaLedgerProofs
  RateLimiter            the code: locks, threads, transactions       ratelimit.py, store.py
    MCRateLimiter        instance for TLC; implements QuotaLedger
    RateLimiterProofs    TLAPS; INSTANCEs QuotaLedgerProofs
RefundLedger             refunds and replays                          idempotency.py, store.py
  MCRefundLedger         instance for TLC
  RefundLedgerProofs     TLAPS
McpGateway               one POST exchange                            app.py, policy.py, jsonrpc.py, proxy.py
  McpGatewayProofs       TLAPS
Redactor                 detectors and StreamRedactor, as operators   redactor.py, patterns.py
  RedactedStream         one text, cut anywhere, through one redactor redactor.py
    MCRedactedStream     texts for TLC
    RedactedStreamProofs TLAPS
  StreamGuardrail        one exchange (EXTENDS Redactor, SseParser)   stream.py, app.py
    MCStreamGuardrail    wires and policies for TLC
    StreamGuardrailProofs  TLAPS
SseParser                lines and events, as operators               sse.py
StdioTransport           reader, queue, pump, server                  transport.py
  MCStdioTransport       lines for TLC
  StdioTransportProofs   TLAPS
```

**SlidingWindow.** A table is a function from request ids to rows. A sum is the
cardinality of a set of token units (`Units`, `Total`), which the prover can
reason about where it could not about a recursive sum. `RetryAfter` says what the
walk of `_retry_after` computes: the least stamp such that the rows stamped up
to it cover the shortfall.

**QuotaLedger.** `Admit`, `Refuse`, `Settle`, `Release`, `Tick` on a book that
never evicts. An entry keeps its estimate beside its charge, because a provider
may report more than was reserved and no admission control can take that back:
what the limiter *vouches for* is the lesser of the two.

**RateLimiter.** `Reserve`, `Settle` and `Release` read the clock (reserve only)
and queue for the worker's lock (`line`); `Begin`, `Body` and `Commit` are the
thread's three steps of `transaction()`; `BeginFails` and `Fault` are its
exceptions; `Cancel` is a client that hangs up while `relay()` awaits `settle`:
the lock is freed and a thread that has started runs on (phase `orphan`).
Leaving the lock's queue removes the first occurrence of the request
(`RemoveFirst`): a request waits in one line, once.
`Crash` rolls the open transaction back and loses the worker's requests. `book`
is a history variable no action reads; `Ledger` is the refinement mapping to
`QuotaLedger`, with the phases of a request mapped to verdicts.

**Router.** One variable `pc` per request follows `route()`/`_route_stream()`:
`try` (the loop over providers), `call` (a limiter call before the answer),
`rescue` (`except BaseException`), `relay` and `finally` (the stream generator).
It takes the steps of `QuotaLedger` as its limiter; with `Faults`, any
call of the limiter may raise with no effect. Providers are external: each
attempt has any outcome of `Outcome`, a stream reports usage at its start and
its end or not at all. `NeverStarts` is a generator whose first chunk was never
asked for: its `finally` never runs.

**RefundLedger.** A process serves one call: `Ask`, `Begin`, `LookUp`, then
`Commit` of a replay, or `IssueRefuses`, or `Issue`, `Record`, `Commit`. Balances
are in memory and start again from the seed after `Crash`; records are on disk.
`moved` is the history of money moved. A refund issued but not committed when
its process dies was only ever in that memory, so `Crash` takes it off `moved`;
one whose transaction the disk failed stays there, marked `undone`, since its
balance does not come back. Calls are numbered as they arrive, because they
differ in nothing else.

**McpGateway.** One exchange, because the gateway keeps nothing between them:
`RefuseWhole` (401, 413, 400), `Decide` (policy on every message, partition),
the external server (`Receive` and four kinds of answer), `ForwardFails`, and
`Build`, which is `_build_client_response`. Names are members of a small set on
which `Folded` is the normalisation the policy applies. `Where` builds the lists
that the loop of `handle_mcp_post` appends to, by the rank of a position rather
than by recursion, which the provers can follow.

**Redactor.** A character is a class and the place it came from, so that an
emitted character can be traced. A detector is a sequence of repeated classes
with guards and a validator; `Reach`, `Ends` and `Greedy` are what the regular
expression engine finds, `IsPartial` what it reports as a match cut off by the
end of the text. The loops of the code are recursive functions over positions
(`Reach` over a detector's items, `RedactFrom` and the search for what is unsafe
over the places of a text). `Feed` is `feed`: drop what continues a suppressed run, replace
settled matches, find where a match could still change, hold from there, and
fail closed above the ceiling. Counts are scaled down (a card has three or four
digits and its checksum is a parity; a key two characters after its prefix), and
the ceiling with them: at least 6, the length of the longest bounded match (a card
with its separators), and 7 in `RedactedStream`. `PHONE` (bounded, guarded, no validator) and the two other key shapes
are left out, and so are the numbers an SSN may not contain. A match with an
`endpos` does not see the text behind it, so the right guard of a shortened
candidate is not evaluated (`ValidatedEnd`), as the engine documents.

**RedactedStream.** `FeedPiece` feeds any number of the remaining characters,
`FlushEnd` flushes. Its behaviours are all chunkings of a text over `Alphabet`, the
classes of characters. Each character carries its place, so `NoUnmarkedGap` can say
that two characters that come out side by side stood side by side.

**SseParser, StreamGuardrail.** A wire is a sequence of terminators and line
contents; `Receive` takes a chunk of any length, parses it and handles each event
(`Handled` is `handle`: not JSON, thinking, located text, unrecognised). `TakeLine`
is one pass of the parser's loop over the complete lines of its buffer, `HandleOne`
one of the relay's over the events of a chunk. `OneTerminator` is not code: it says
of a wire that its lines end all in LF, all in CR or all in CRLF, and is a
hypothesis of two theorems (section 4). The
provider's response is opened by `Open` and closed by every way an exchange
can end but one: `NeverStarts` is a relay the server drops before its first step,
whose `finally` never runs, and leaves it open (phase `dropped`).
`relay.handled` is a history of the events handled. `PartsOf` cuts what they said on
a channel at the stops of given blocks, which is what `ChannelsAsWhole` compares the
output with: the channel's own block when blocks come in turn (`BlocksInTurn`), all
of them when not. It excepts parts with a candidate that more text takes back and
parts with a run over the ceiling, the hypotheses of `ChunkingIsInvisible`.
`OnlyCandidatesAreMissing` has neither exception: in every stream what is said and
not sent belongs to a candidate or an over-long run, and a placeholder stands for
it. Both leave out payloads with texts of two channels, where `NoOriginalSurvives`
shows what happens.

**StdioTransport.** `ReadLine` classifies a line and forwards, drops or enqueues;
a full queue blocks the reader (`Resume`); `PumpReceives` and `PumpWrites` are the
pump; `ServerAnswers` is the SDK's server, in any order; `EndOfInput` and `Stop`
are the client closing stdin and the transport's `finally`. A line is a record of
what `classify_line` looks at, and its usable id is its place in the input.

## 3. Runs

Passing runs (TLC, two workers, at most about a minute and a half each):

| Run | Module, cfg | Checks | Shows |
| --- | --- | --- | --- |
| quota_ledger | MCQuotaLedger | TypeOK, EveryInstant | the promise itself, before proving it |
| limiter_one_worker | MCRateLimiter, RateLimiterOneWorker | TypeOK, TransactionHasThread, RetryIsLeast, LedgerSpec, CallsEnd | one process implements the ledger, with hang-ups and disk faults; no call waits for good |
| limiter_two_workers | MCRateLimiter, RateLimiterTwoWorkers | TableIsBook, LiveBound | two processes and a crash: the table is the history minus what expired; live admissions fit |
| router | Router | TypeOK, HeldInFlight, NothingServedIsFree, FailureIsHonest, StatusIsFinal, Answered | settlement on every path; requests are answered and reservations closed |
| refunds | MCRefundLedger | TypeOK, PaidOnce, ReplayIsOriginal, MovedIsOnRecord | once per window across processes, supplied keys, disk faults and a crash |
| gateway | McpGateway | TypeOK, NoEscalation, EveryIdOnce, DenialStands, AdminToolsHidden | every payload of up to three messages |
| redacted_stream | MCRedactedStream, RedactedStream | TypeOK, ChunkingIsInvisible, NoSecretLeaves, NoUnmarkedGap, OnlyCandidatesVanish, OverflowIsOneRun | every chunking of some thousand texts against redaction of the whole text; no gap goes unmarked |
| guardrail | MCStreamGuardrail, StreamGuardrail | TypeOK, CutsDoNotMatter, ChannelsAsWhole, OnlyCandidatesAreMissing, EndIsHonest | every cut of every stream of up to three events, with interleaved blocks, failures and hang-ups |
| stdio | MCStdioTransport, StdioTransport | TypeOK, EveryOwedLineHasOne, IdsAreTheirOwn, EveryOwedLineIsAnswered | every input of up to four lines through a queue of one |

Deadlock is not checked: every bounded model stops when its requests are closed
and its clock has reached `MaxTime`.

Runs that TLC must find violated; each states a sentence of the repository that
the code does not keep:

| Run | The sentence | What the code does |
| --- | --- | --- |
| limiter_stale_stamp (EveryInstant) | "the constraint holds at every instant" (ratelimit.py:8-9) | With two workers a stamp read at ratelimit.py:139 can be older than another worker's eviction. With one worker the lock is first-come first-served, stamps reach the table in order, and the sentence holds (`LedgerSpec`, `LimitHolds`). |
| redactor_taken_back (EveryChunking) | "for every possible chunking" (README.md:100 of llm-gateway-guardrail) | `_holdback_index` searches for partial matches with `finditer`, which goes on behind a complete match. A number that fails Luhn (`1234 5678 4111 1111 1111`) is a complete match that hides the partial card inside it, and the card is let out; an address followed by a dot (`a@mail.example.`, then `com`) is redacted before it is whole. |
| guardrail_two_choices (NoOriginalSurvives) | "no original text survives into the re-serialised event" (stream.py:301-304) | The payload rebuilt to flush one choice still has the original text of the others. |

Other places where a sentence says more than the code does. The models contain
them, and the properties are stated so as not to claim them:

* "A client that disconnects mid-stream is still charged for what the provider
  generated" (router.py:237-239): output tokens are reported last, so a stream
  broken off after its `message_start` is charged its prompt alone.
* "At most once per logical operation" (store.py:142): the balance moves before the
  INSERT and COMMIT that may fail; a retry finds no record and pays again.
  `PaidOnce` excepts a transaction undone by a fault.
* "Rather than silently dropping the denials" (app.py:256-257): when the forwarded
  rest of a batch is notifications, the denials are given the server's status 204,
  which has no body. `DenialStands` excepts it.
* "Answers malformed requests instead of dropping them" (transport.py:1): the pump
  is cancelled when the server stops, with whatever is still queued.
  `EveryOwedLineIsAnswered` excepts a stopped server.
* `redact_sse_stream` redacts every string leaf of what it does not recognise
  (stream.py:25-40): JSON that is not an object has no `.get` (stream.py:315), and
  ends the stream with an in-band error. `EndIsHonest` covers that it says so.
* A block stop flushes the channels of all blocks (stream.py:315-316), so a secret
  in a block that is still open is cut there and leaves in two halves.
  `ChannelsAsWhole` therefore promises a block's text as a whole only for streams
  whose blocks come one after the other, and otherwise no more than the pieces
  between two stops.
* Any value of `GUARDRAIL_THINKING_POLICY` but "drop" and "redact" relays thinking
  as it came (stream.py:286); the comment there speaks of an explicit choice.
* A cancelled `to_thread` frees the lock of a writer that store.py:13-15 calls
  "provably-serialised"; the next BEGIN of that worker meets the orphan's
  transaction and raises (`BeginFails`).
* A timeout is charged the estimate (providers.py:138-140) only when no provider
  succeeds; otherwise the fallback's usage is all that is charged.
* "Nothing was billed for a request that blew up" (router.py:165) also meets a
  completion whose settle raised.
* "Every id is accounted for" (README.md:69-70 of mcp-gateway): a failed forward
  is answered for its first message only.
* A forwarded batch that is answered with a stream while others of its calls were
  denied: the denials are returned alone, and the server's answers are dropped
  (app.py:255-259). `EveryIdOnce` is about answers in JSON.
* "Echoing the id" (jsonrpc.py:103-104): with the filter on, malformed JSON from
  downstream turns a single call's error into an array with a null id.

### Bounds, and why they are enough

* `MaxTime` 2 or 3 with `Window` 2: a row can be live, expire and be evicted while
  another call holds an old stamp. The router's run has the same clock.
* `Limit` 3 with estimates 1, 2 and 4: one request fits, two do not, and 4 never
  fits. Usages below, at and above the estimate, and 0.
* Three requests: one holds quota, one is refused or waits, one evicts. In
  the limiter two of them stream, so one can be an orphan while another queues.
  Two tenants in `MCQuotaLedger`; one elsewhere, where rows of other tenants
  are only evicted, which the same rows show.
* One crash: its effect is to lose volatile state at any point; a second would
  do it again.
* Two providers: the primary and a fallback, so failover happens and ends.
* Refunds: three calls (original, retry, retry of the retry, or another
  customer's in between) on two processes, and a replay window of 2 that lapses at
  tick 2.
* Redactor: texts of up to four or five fragments of a family. The families are
  chosen so that each hazard occurs: addresses that go on after a dot, digits for
  which cards and numbers compete, keys and runs longer than the ceiling. A text
  of a family reaches every state of `feed`: holding, releasing, overflowing,
  suppressing. `RedactedStreamProofs` lifts the bounds on texts and ceiling for what
  it proves.
* Guardrail: three events are enough to hold a tail on one channel, feed another
  and stop a block. A second family mixes the texts of two blocks with the stops of
  both, and has an address that a further label takes back, a number that fails
  before a card, and a run over the ceiling, so that streams in turn and out of turn,
  with and without such texts, all occur. Two events with all terminators,
  since a terminator is cut in one place. Policies on two events, since an event
  under a policy reads nothing of earlier ones but the held tails. `StreamGuardrailProofs` lifts the bounds on
  wires, policies and chunks for what it proves.
* Stdio: a queue of one is full as soon as the pump lags by one line; four lines put
  one on the wire, one with the pump, one in the queue and one in a blocked reader.
  `StdioTransportProofs` lifts the bounds.
* Gateway: batches of three, so an allowed, a blocked and a silent message meet
  in any order.
* Symmetry (of requests, streams, workers, tenants, server processes) is used in
  runs that check invariants and the refinement of safety, where no identifier is
  compared with another by order, and in none that checks liveness.

### Fairness

`RateLimiter!FairSpec`: weak fairness of each request's thread steps (`Begin`,
`BeginFails`, `Body`, `Commit`). A pool thread runs, and SQLite either takes the
write lock or gives up after `busy_timeout` (store.py:89). No fairness of faults,
crashes, cancellation or the clock. `Router!FairSpec`: weak fairness of attempts,
which end by `asyncio.timeout` (providers.py:151, 235), and of the limiter's
calls, which `CallsEnd` shows to end. The relay is not fair: its reads carry no
timeout (providers.py:224-230), so nothing is claimed of how long a stream
lasts. `StdioTransport!FairSpec`: weak fairness of reading a line that is there, of
the blocked send, the pump and the server, all tasks of one event loop, none of
which waits for another but through the queue; no fairness of the client closing
its end. The redactor and the guardrail claim no liveness: a stream may be silent.

## 4. Proofs

Each proof module extends the module it is about, so its theorems are about the
specification TLC checks and not about a copy. The inductive invariants were
checked by TLC on the instances of their runs before they were proved, with one
exception: the redactor's says that an *account* of the text exists, which TLC would
have to search for among all functions, so TLC checks only the four properties that
follow from it.

| Module | Theorems (property) |
| --- | --- |
| QuotaLedgerProofs | TypeCorrect (TypeOK), LimitHolds (EveryInstant) |
| RateLimiterProofs | TypeCorrect (TypeOK), NothingIsWedged (TransactionHasThread), NoUpdateIsLost (TableIsBook), LimitHolds (LiveBound), WaitIsLeast (RetryIsLeast); with one worker ImplementsLedger (LedgerSpec), EveryInstantHolds (EveryInstant) |
| RouterProofs | TypeCorrect (TypeOK), ReservationHeld (HeldInFlight), NothingFree (NothingServedIsFree), FailureHonest (FailureIsHonest), StatusNeverChanges (StatusIsFinal), ImplementsLedger, RoutingKeepsLimit |
| RefundLedgerProofs | TypeCorrect (TypeOK), OperationPaysOnce (PaidOnce), ReplayNamesItsRefund (ReplayIsOriginal), MovedStaysOnRecord (MovedIsOnRecord) |
| McpGatewayProofs | TypeCorrect (TypeOK), NoPrivilegedCallEscapes (NoEscalation), EveryRequestAnsweredOnce (EveryIdOnce), DenialsStand (DenialStands), AdminToolsStayHidden (AdminToolsHidden) |
| StdioTransportProofs | TypeCorrect (TypeOK), NothingLostOrTwice (EveryOwedLineHasOne), IdsCorrect (IdsAreTheirOwn) |
| RedactedStreamProofs | TypeCorrect (TypeOK), GapsAreMarked (NoUnmarkedGap), OverflowRun (OverflowIsOneRun), OnlyCandidatesAreTaken (OnlyCandidatesVanish) |
| StreamGuardrailProofs | TypeCorrect (TypeOK); for wires of one terminator ChunksDoNotMatter (CutsDoNotMatter), FailureIsTold (EndIsHonest) |

### The ledger

`QuotaLedgerProofs` begins with the facts about sums: `Units` is finite, `Total` is
a natural number, monotone, and additive over disjoint sets (`TotalSplit`,
`TotalAdd`). It proves, for every value of the constants:

* `TypeCorrect`: `Spec => []TypeOK`.
* `LimitHolds`: `Spec => []EveryInstant`: in the window that ends at any past or
  present instant a tenant's admissions vouch for at most the limit.

The argument. `EveryInstant` quantifies over *all* instants up to now and is
inductive together with `TypeOK`; the bound at the present instant alone would
not be, since `Admit` may carry an older stamp. `Admit` at stamp `s` adds a row
to the windows that end at `s` or later and contain `s`; every admission in such
a window either is still in the window the check summed (`CheckSeesWindow`), which
has room, so the sum stays within the limit (`AdmitKeepsWindows`). `Settle`,
`Release` and `Refuse` only shrink what a window vouches for (`WindowShrinks`): a
settlement above the estimate leaves the lesser of the two as it was. `Tick` adds
an instant whose window is contained in one already bounded. The type invariant
is needed for two facts: an admitted entry is still charged its estimate, and no
entry is stamped in the future.

Assumptions: `Window` is a positive natural number, `Limit` a natural number,
`Requests` finite, estimates and usages natural numbers. Time is discrete; the
code only compares and subtracts stamps. The clock never goes back: the code
reads `time.time()`, and a clock that is set back is outside the model.

### The limiter

`RateLimiterProofs` is about the code itself, with any number of workers, requests
and tenants, disk faults, hang-ups and crashes. `IInv` has five parts:

* `Shape`: types; a request that was asked keeps its question.
* `Queues`: a request stands in the line of its own worker exactly while it waits
  or is served there, and once. `Cancel` and `Leave` would break this if a line
  could hold a request twice.
* `Entries`: what the history says of a request agrees with its phase; until it is
  settled it is charged its estimate.
* `Transactions`: at most one is open in the database, it belongs to a request
  whose thread runs, and its rows are the committed table or what that thread's
  body (`Work`) makes of it. This is the part that is not a property of its own:
  without it a commit could write anything.
* `TableIsBook`: the committed table is the history minus rows that left the window.

`TransactionHasThread`, `TableIsBook` and `TypeOK` follow. `LiveBound` is inductive
relative to `IInv`: an admission was checked in the open transaction against the
committed table, which is the live history, so what the check summed is what is
live; stamps may be old, and then the check counts more than is live, not less.
`RetryIsLeast` says of every body that refuses that `RetryAfter` is least, which is
the lemma `RetryAfterIsLeast` on a table of rows. It rests on `LeastNat` and
`GreatestNat`, which give every set of numbers its least and, if bounded, its
greatest member and take the place of an induction. The facts about sums are those
of `QuotaLedgerProofs`, by INSTANCE.

The refinement needs one worker (`OneWorker`), and two more invariants that hold
only then. `Ordered`: checks stand in line in the order of their stamps, since a
worker's coroutines read the clock and queue without an await between. `Fresh`:
whatever was evicted is out of the window of every check that is still to run.
Together they say that eviction never hides an entry a check should count, so a
`ReserveBody` decides as the ledger does on a book that never evicts. `Commit` maps
to the ledger's `Admit`, `Refuse`, `Settle` or `Release`, the clock to `Tick`, and
every other action to a stutter. With two workers `Fresh` fails: a worker reads
its stamp, waits for the other's transaction, and finds rows gone that its own
window still contains. TLC's counterexample is the run `limiter_stale_stamp`, and
the theorem that holds for any number of workers is the weaker `LiveBound`.

Assumptions: `Requests` finite, streams among them, estimates and usages natural
numbers. `OneWorker` is the hypothesis of the two theorems that need it: compose.yaml
starts one `python -m llm_router`, which is one process.

### The router

`IInv` is a `Shape` and one conjunct per request, `Local(r)`, which says what must
be true at each place `route()` can stand: in `try` every attempt so far failed
over and another provider is left; in `call` the pending limiter call and the
pending answer fit what the attempts came to (`CallIsRight`), which is what makes a
failure honest after an await; in `relay` and `finally` the status is out and a
charge of at least a token is on its way; and an answered client's books are right
(`AnswerIsRight`). No conjunct relates two requests: they meet only in the ledger,
whose steps touch one entry (`Same`), so a step of one request leaves the others'
conjuncts alone. `HeldInFlight`, `NothingServedIsFree` and `FailureIsHonest` follow
from it, and `StatusIsFinal` from it and each step.

`ImplementsLedger` shows that every step of the router is a step of the ledger for
some usage, or leaves it alone; the ledger is instantiated with `Nat` for usages,
since what a provider reports is at least the input and otherwise any number. So
`QuotaLedgerProofs!LimitHolds` carries over (`RoutingKeepsLimit`). Assumptions: at
least one provider, prompts of at least a token, estimates of at least one
(tokens.py adds the answer's limit), and those of the ledger.

### Refunds

`IInv` says, with the properties `PaidOnce` and `MovedIsOnRecord` themselves, that
calls are numbered apart (`Numbered`), that a record on disk is of a refund that
was moved, under its key and the stamp of its call (`Committed`), and what the one
open transaction has read and written so far (`TransactionIsRight`): the table it
works on is the committed one minus what its stamp purges, and until it has issued
its key is not in it. The step that matters is `Commit`: the rows purged by a call
that waited for the lock with an old stamp are those older than *its* window, so a
refund still inside the window of any later call is on record, and the next
`LookUp` finds it. `PaidOnce` alone is not inductive, because it does not say that a
refund in the window is still on record when it is looked up. The crash is where
the proof has its cases: refunds not yet committed go, and with them the move they
stand for, which is the last of the history (`Pending`). Assumptions: positive
amounts and replay window; any number of processes, calls and crashes.

### The MCP gateway

`AtFacts` is the lemma about selection: `At(s, I)` has the members of `s` at the
positions in `I` and no others, each once, since ranking a finite set of positions
is a bijection (`NthBijection`). From it follow the three facts about the split:
the forwarded messages are the allowed ones (`AllowedFacts`), each denied request
has one error (`DenialsFacts`), and the server's answers are to the allowed
requests, once each (`ResponsesFacts`). `IInv` then says at each stage that the
split is the policy's (`Decided`), that the answer is one a server may give, and
that a reply that is out has the three properties. `BuildKeeps` is the case
analysis of `_build_client_response`: passed on (`PassedOn`), denials alone
(`DenialsAlone`), denials with an error (`DenialsAndError`), merged (`Merged`), where
answers to the allowed and to the denied requests are answers to all of them
(`OnceConcat`). `NoEscalation` follows from `Decided` whatever the server does with
what it is handed. Assumptions: names come from the small sets on which `Folded` is
defined, and a batch has any positive length.

### The stdio transport

`StdioTransportProofs` proves, for every set of lines, every length of input and
every positive size of the queue:

* `TypeCorrect`: the queue keeps its bound and the reader is blocked exactly while
  it holds a rejection.
* `NothingLostOrTwice`: `Spec => []EveryOwedLineHasOne`: a line that was read and is
  owed an answer has exactly one, on the wire, with the pump, in the queue, with
  the blocked reader or with the server; no other line has any.
* `IdsCorrect`: `Spec => []IdsAreTheirOwn`.

The argument. `IInv` says that the lines answered at the five places partition the
lines owed so far (`Partition`), that no place names a line twice (`OnceEach`), and
that everything in flight is an answer under its own id (`Typed`). `Classified` is
the lemma about `classify_line`: it answers exactly the lines that are owed an
answer and that the server will not answer itself. `Appended`, `Taken`, `Single` and
`Joined` say what the queue operations do to the lines in a sequence; each action
then moves one line from one part to another. `TypeOK` alone is not inductive for
this: that a queued answer is to a line no longer expected elsewhere is what keeps
the places apart. Assumptions: lines are of `LineType`, the bounds are natural
numbers and the queue holds at least one.

### The redactor

`RedactedStreamProofs` is about any texts, any chunking and any ceiling of at least
6, with the detectors of `Redactor`. Its idea is an *account* of a stretch of text:
`Renders(t, lo, hi, z, b)` says that the characters `z` stand for the text from
`lo + 1` to `hi`, where `b[j]` is how far the text is accounted for after the `j`th
of them. A character of the text accounts for itself; a placeholder accounts for
any number of characters, each of them `Lost`: within a candidate of a detector or
within a run longer than the ceiling. `IInv` is then:

* the text is tagged with its places, and what was fed is a prefix of it;
* `Held`: what came out renders the text up to some `mid`, what is held renders it
  from there to what was fed; no more is held than the ceiling; and while a run is
  suppressed nothing is held, the last that came out is a placeholder, and the text
  fed so far ends in a run longer than the ceiling (`LongRunTo`).

What the code does to a text is shown to keep accounts: replacing a validated match
with a placeholder (`RendersRedact`), cutting a rendered text in two
(`RendersCut`), joining two (`RendersJoin`), extending the last placeholder over
characters that are dropped (`RendersLost`, `RendersMore`). `FeedKeeps` goes through
the branches of `feed`, `FlushKeeps` through those of `flush`. The one branch where
the detectors matter is the overflow: what is unsafe at a place is an unfinished
match there (`UnsafeIsOpen`), a bounded one is no longer than 6 (`BoundedHold`), so
what outgrows the ceiling belongs to an unbounded detector and is one run of the
characters that suppression drops, whatever was redacted before it in the same
buffer (`UnboundedHold`, `OpenSpan`). That is why a ceiling of at least 6 is assumed
(`CeilingAboveBounded`): the code's default is the largest `max_length` its patterns
declare, and 8 more (redactor.py:116). The other assumption is that texts are sequences over the
alphabet (`TextsAssumption`).

`TypeOK` and `NoUnmarkedGap` are read off the account: between two characters that
stand for themselves and have no placeholder between them nothing was left out
(`NoGap`). `OnlyCandidatesVanish` is what a placeholder may account for.
`NoUnmarkedGap` alone is not inductive: it does not say that while a run is
suppressed the last that came out is a placeholder, and without that the first
character after the run could follow one before it.

### The guardrail stream

`StreamGuardrailProofs` is about any set of exchanges: any wires, policies and
chunks.

*Chunks.* `ChunksJoin` says that feeding a parser two chunks, one after the other,
leaves it in the state, and yields the events, of feeding it both at once. The
parser's loop is not followed by induction over the data. `Leads(g, k)` says that
`k` belongs to every set that contains `g` and is closed under `TakeLine`; the
lemmas then only need that taking a line is a function (`LeadsToOne`) and that a
line that was complete stays the same line when text is appended (`GotLineLonger`,
`LeadsLonger`).

The latter is where the hypothesis comes from. `_find_line_end` looks for a CRLF
anywhere in the buffer before it looks for a LF or a CR (sse.py:78), so with mixed
terminators a CRLF that arrives later can swallow a line end before it, and the
split depends on the chunks. `ChunksDoNotMatter` and `FailureIsTold` are therefore
stated under `\A c \in Cases : OneTerminator(c.wire)`, which the run's wires satisfy
(`WiresAreUniform` in `MCStreamGuardrail`); a server that follows one convention
sends such a stream. `TypeCorrect` has no such hypothesis.

*Events.* `HandleAllIs` says that whatever the redactors do, handling events adds
to the history exactly these events up to the one that raises, if any. It needs of
the flushes and rewrites only that they keep the history (`FlushAllKeeps`,
`TextDeltaKeeps`, `HandledKeeps`).

`IInv` puts the two together: before the relay starts nothing is read; while it
runs, the parser and the history are what the prefix read so far gives when parsed
at once (`ReadSoFar`); when it is over, the history is a beginning of what the wire
says, and all of it unless the stream ends with the error event (`EndsWell`). The
properties are not inductive: the parser's buffer, which they do not mention, decides
what the next chunk says (`ReadOn`).

### Not proved

* Liveness (`CallsEnd`, `Answered`, `EveryOwedLineIsAnswered`): these provers do not
  reach `ENABLED` and fairness.
* `OnlyCandidatesAreMissing`: it would take the account of the redactor's proof for
  every channel at once, over the flushes between; for one text it is proved
  (`OnlyCandidatesAreTaken`, `GapsAreMarked`).
* `ChunkingIsInvisible`, `NoSecretLeaves` and `ChannelsAsWhole`: they compare a
  stream with what `redact_text` computes on the whole text. That is a statement
  about how the leftmost, longest matches of four detectors applied in turn on a
  prefix agree with those on the whole text, under `Settled`; an account of
  what was left out, as above, does not determine it. They are model-checked on
  every chunking of the texts in the runs.
* The refinement of the ledger by several workers: it does not hold, see above.

The check with old stamps in `QuotaLedger` is safe although the code's is not with
two workers, because the ledger never evicts: the eviction is the difference, and
it is in `RateLimiter`.

## 5. Not modelled, and why

* Bodies, headers, wording, logging, audit records: no property is about them.
* Detectors beyond their structure, the `PHONE` detector, statistics, comments and
  keep-alives of SSE, decoding of bytes chunk by chunk (`errors="replace"`), and
  streams that mix line terminators.
* With the scaled counts any two digits joined by a hyphen are an SSN, which comes
  before the card: a card with hyphens is held back as one but redacted as the other.
* One JSON document spread over several `data:` lines: `PayloadOf` takes what has
  more than one line not to be JSON, and redacts its leaves.
* A request whose id is an explicit null (jsonrpc.py:151-155): the id of a message of
  `McpGateway` is its place, and a message without one is a notification.
* `Folded` stands for both foldings of policy.py, of methods (`normalize_method`) and
  of tools (`_normalize_tool_name`, which also removes invisible characters and combining marks); a name
  on which they differ is not in the model.
* Headers, body caps and key lookup of the front doors, beyond that they refuse
  (`TurnedAway`, `RefuseWhole`, `Refuse`).
* The estimate of a request body and `Retry-After` rounding: arithmetic on data;
  planned as operators with a reference definition.
* `usage()`, `row_count()`: they only read.
* A COMMIT that fails is taken to leave no open transaction; SQLite rolls back on
  the errors the code can meet there (full disk, I/O error).
* Power loss under `synchronous=NORMAL`, which the code accepts in a comment.
* The GET/DELETE passthrough of the MCP gateway, health checks, and the demo
  console: no state and no decision.
* Several threads inside one MCP server process: `handle_call_tool` runs the store
  on the event loop, so there is one call at a time.

## 6. Plan

1. `usage()` in `RateLimiter`; estimate, status classification and `Retry-After`
   as operators; wires with mixed terminators and characters cut by
   chunks in `SseParser`.
2. Proofs: `ChunkingIsInvisible` under `RunsFit` and `Settled`, detector by detector
   (a match that is settled in a prefix is the match of the whole text), and
   `ChannelsAsWhole` from it; results about shutdown in `StdioTransport`.
