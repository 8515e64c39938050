------------------------------- MODULE Router -------------------------------
(***************************************************************************)
(* llm_router/router.py with the attempts of llm_router/providers.py and   *)
(* the usage accounting of llm_router/tokens.py: how one gateway process   *)
(* admits a request, tries its providers in order, relays a stream, and    *)
(* closes the reservation.  Requests run concurrently on one event loop;   *)
(* every await is a point where others run.                                *)
(*                                                                         *)
(* The limiter is the ledger of QuotaLedger, whose steps RateLimiter       *)
(* implements; any of its calls may raise instead, with no effect.  What   *)
(* a provider does is external and nondeterministic.                       *)
(***************************************************************************)
EXTENDS SlidingWindow, Sequences

CONSTANTS
    Requests, Tenants, Estimates, Usages, MaxTime,  \* as in QuotaLedger
    Streams,    \* requests with "stream": true
    Providers,  \* how many: the primary and its fallbacks
    Input,      \* prompt tokens a stream reports in its message_start
    MaxCrashes, \* bound: process crashes in a behaviour
    Faults      \* whether a call of the limiter, or of a client, may raise

ASSUME RouterAssumption ==
    /\ Streams \subseteq Requests
    /\ Providers \in Nat \ {0}
    /\ Input \in Nat \ {0}
    /\ MaxCrashes \in Nat
    /\ Faults \in BOOLEAN

\* A reservation is never empty: reservation_size adds at least one token for
\* the answer.  Reported usage is not negative.
ASSUME QuotaAssumption ==
    /\ IsFiniteSet(Requests)
    /\ Estimates \subseteq Nat \ {0}
    /\ Usages \subseteq Nat
    /\ MaxTime \in Nat

VARIABLES
    now, book, verdict, \* the ledger
    pc,         \* where route() or relay() stands
    tried,      \* attempts: the outcome of each provider tried
    todo,       \* the limiter call route() or relay() is about to make
    reply,      \* the status line sent to the client
    relayed,    \* a stream: what was generated, and what the collector saw
    crashes     \* process crashes so far

ledger == <<now, book, verdict>>
vars == <<now, book, verdict, pc, tried, todo, reply, relayed, crashes>>

Ledger == INSTANCE QuotaLedger

Failover == {"rate_limited", "timeout", "unavailable"}
Outcomes == Failover \cup {"success", "client_error"}

Unreported == -1    \* a usage of None
NoCall == [call |-> "none", amount |-> 0, answer |-> "none"]
NoStream == [generated |-> 0, seen |-> Unreported, ended |-> "no"]

Init ==
    /\ Ledger!Init
    /\ pc = [r \in Requests |-> "arrive"]
    /\ tried = [r \in Requests |-> <<>>]
    /\ todo = [r \in Requests |-> NoCall]
    /\ reply = [r \in Requests |-> "none"]
    /\ relayed = [r \in Requests |-> NoStream]
    /\ crashes = 0

Estimate(r) == book[r].estimate

\* tokens.actual_tokens and StreamUsageCollector.total: at least MINIMUM_CHARGE,
\* and the estimate where nothing was reported.
Charge(r, usage) ==
    IF usage = Unreported THEN Estimate(r) ELSE IF usage < 1 THEN 1 ELSE usage

Finish(r, status) ==
    /\ pc' = [pc EXCEPT ![r] = "done"]
    /\ reply' = [reply EXCEPT ![r] = status]

\* route() or relay() goes on to a call of the limiter, and answers after it.
Call(r, place, call, amount, answer) ==
    /\ pc' = [pc EXCEPT ![r] = place]
    /\ todo' = [todo EXCEPT ![r] = [call |-> call, amount |-> amount, answer |-> answer]]

-----------------------------------------------------------------------------
\* What handle_messages answers by itself: no usable key, a body over the cap,
\* or one that is no Messages request.
DoorStatuses == {"401", "413", "400"}
TurnedAway(r) ==
    /\ pc[r] = "arrive"
    /\ \E status \in DoorStatuses : Finish(r, status)
    /\ UNCHANGED <<ledger, tried, todo, relayed, crashes>>

\* check_and_reserve admits, refuses, or raises out of route().
Submit(r, t, n) ==
    /\ pc[r] = "arrive"
    /\ \/ /\ Ledger!Admit(r, t, n, now)
          /\ pc' = [pc EXCEPT ![r] = "try"]
          /\ UNCHANGED reply
       \/ Ledger!Refuse(r, t, n, now) /\ Finish(r, "429")
    /\ UNCHANGED <<tried, todo, relayed, crashes>>

SubmitRaises(r) ==
    /\ Faults /\ pc[r] = "arrive"
    /\ Finish(r, "500")
    /\ UNCHANGED <<ledger, tried, todo, relayed, crashes>>

-----------------------------------------------------------------------------
(* One attempt: call_provider or open_provider_stream returns.             *)

\* The next provider answers with outcome o.
Tries(r, o) ==
    /\ pc[r] = "try"
    /\ tried' = [tried EXCEPT ![r] = Append(@, o)]
    /\ UNCHANGED <<ledger, reply, crashes>>

\* A completion: settle at the usage its body reports, if it reports any.
Succeeds(r, usage) ==
    /\ r \notin Streams
    /\ Tries(r, "success")
    /\ Call(r, "call", "settle", Charge(r, usage), "200")
    /\ UNCHANGED relayed

\* A stream opens: the status line goes out and relay() takes over.
Opens(r) ==
    /\ r \in Streams /\ pc[r] = "try"
    /\ tried' = [tried EXCEPT ![r] = Append(@, "success")]
    /\ pc' = [pc EXCEPT ![r] = "relay"]
    /\ reply' = [reply EXCEPT ![r] = "200"]
    /\ UNCHANGED <<ledger, todo, relayed, crashes>>

\* MUTANT of Rejects: the 4xx goes out and nobody settles.
RejectsUnsettled(r, usage) ==
    /\ Tries(r, "client_error")
    /\ pc' = [pc EXCEPT ![r] = "done"]
    /\ UNCHANGED <<todo, relayed>>

\* A 4xx is the caller's fault: no failover, and a charge.  A body that
\* reports usage is believed; a stream was not read and costs the estimate.
Rejects(r, usage) ==
    /\ Tries(r, "client_error")
    /\ r \in Streams => usage = Unreported
    /\ Call(r, "call", "settle", Charge(r, usage), "4xx")
    /\ UNCHANGED relayed

\* MUTANT of Exhausted: only a request whose every attempt timed out is charged.
ExhaustedChargesAll(r, attempts) ==
    LET all == \A i \in DOMAIN attempts : attempts[i] = "timeout"
    IN  Call(r, "call", IF all THEN "settle" ELSE "release", Estimate(r),
             IF all THEN "504" ELSE "502")

\* _exhausted: a timeout is charged, for the provider may still be working.
Exhausted(r, attempts) ==
    LET TimedOut(i) == attempts[i] = "timeout"
        all == \A i \in DOMAIN attempts : TimedOut(i)
        some == \E i \in DOMAIN attempts : TimedOut(i)
    IN  Call(r, "call", IF some THEN "settle" ELSE "release", Estimate(r),
             IF all THEN "504" ELSE "502")

\* MUTANT of FailsOver: the providers are tried again from the first.
FailsOverForever(r, o) ==
    /\ Tries(r, o)
    /\ UNCHANGED <<pc, todo, relayed>>

\* MUTANT of FailsOver: the quota is given back between two providers.
FailsOverReleasing(r, o) ==
    /\ pc[r] = "try"
    /\ tried' = [tried EXCEPT ![r] = Append(@, o)]
    /\ Ledger!Release(r)
    /\ UNCHANGED <<pc, todo, reply, relayed, crashes>>

\* A capacity failure: the next provider is tried, if there is one.
FailsOver(r, o) ==
    /\ Tries(r, o)
    /\ IF Len(tried'[r]) < Providers
       THEN UNCHANGED <<pc, todo>>
       ELSE Exhausted(r, tried'[r])
    /\ UNCHANGED relayed

\* An exception that is no outcome, in the client or in reading its answer.
AttemptRaises(r) ==
    /\ Faults /\ pc[r] = "try"
    /\ pc' = [pc EXCEPT ![r] = "rescue"]
    /\ UNCHANGED <<ledger, tried, todo, reply, relayed, crashes>>

-----------------------------------------------------------------------------
(* The limiter's settle or release, as _settle, _exhausted and so on await *)
(* it, and route()'s `except BaseException`.                               *)

CallReturns(r) ==
    /\ pc[r] = "call"
    /\ \/ todo[r].call = "settle" /\ Ledger!Settle(r, todo[r].amount)
       \/ todo[r].call = "release" /\ Ledger!Release(r)
    /\ Finish(r, todo[r].answer)
    /\ UNCHANGED <<tried, todo, relayed, crashes>>

CallRaises(r) ==
    /\ Faults /\ pc[r] = "call"
    /\ pc' = [pc EXCEPT ![r] = "rescue"]
    /\ UNCHANGED <<ledger, tried, todo, reply, relayed, crashes>>

\* The handler releases the reservation and re-raises: the client gets a 500.
Rescue(r) ==
    /\ pc[r] = "rescue"
    /\ Ledger!Release(r)
    /\ Finish(r, "500")
    /\ UNCHANGED <<tried, todo, relayed, crashes>>

RescueRaises(r) ==
    /\ Faults /\ pc[r] = "rescue"
    /\ Finish(r, "500")
    /\ UNCHANGED <<ledger, tried, todo, relayed, crashes>>

-----------------------------------------------------------------------------
(* relay(): chunks pass, the collector reads usage off them, and the       *)
(* finally block settles however the stream ends.                          *)

Stream(r, s) ==
    /\ pc[r] = "relay"
    /\ relayed' = [relayed EXCEPT ![r] = s]
    /\ UNCHANGED <<ledger, pc, tried, todo, reply, crashes>>

\* message_start: the prompt is read, and its tokens may be reported.
Started(r) ==
    /\ relayed[r].generated = 0
    /\ \E seen \in {Input, Unreported} :
          Stream(r, [generated |-> Input, seen |-> seen, ended |-> "no"])

\* A content block delta: one more token is generated, and none reported.
Delta(r) ==
    /\ 0 < relayed[r].generated /\ relayed[r].generated < Estimate(r)
    /\ relayed[r].ended = "no"
    /\ Stream(r, [relayed[r] EXCEPT !.generated = @ + 1])

\* message_delta: the running total of output tokens, if the provider reports
\* it; the total of the collector is short of what was not reported.
Ended(r) ==
    LET s == relayed[r]
        output == s.generated - Input
        total == IF s.seen = Unreported THEN output ELSE s.seen + output
    IN  /\ s.generated > 0 /\ s.ended = "no"
        /\ \E seen \in {s.seen, total} : Stream(r, [s EXCEPT !.ended = "yes", !.seen = seen])

\* MUTANT of StreamEnds: a stream that breaks off is opened elsewhere.
StreamEndsRetries(r) ==
    /\ pc[r] = "relay"
    /\ pc' = [pc EXCEPT ![r] = "try"]
    /\ UNCHANGED <<ledger, tried, todo, reply, relayed, crashes>>

\* The generator ends: after its last chunk, or because the provider broke
\* off or the client hung up.
StreamEnds(r) ==
    /\ pc[r] = "relay"
    /\ Call(r, "finally", "settle", Charge(r, relayed[r].seen), "200")
    /\ UNCHANGED <<ledger, tried, reply, relayed, crashes>>

\* The client is gone before the first chunk is asked for: relay() never runs,
\* and a generator that never ran has no finally block.
NeverStarts(r) ==
    /\ pc[r] = "relay" /\ relayed[r].generated = 0
    /\ pc' = [pc EXCEPT ![r] = "done"]
    /\ UNCHANGED <<ledger, tried, todo, reply, relayed, crashes>>

FinallySettles(r) ==
    /\ pc[r] = "finally"
    /\ Ledger!Settle(r, todo[r].amount)
    /\ pc' = [pc EXCEPT ![r] = "done"]
    /\ UNCHANGED <<tried, todo, reply, relayed, crashes>>

\* MUTANT of FinallyRaises: relay() releases, as route() does.
FinallyReleases(r) ==
    /\ Faults /\ pc[r] = "finally"
    /\ Ledger!Release(r)
    /\ pc' = [pc EXCEPT ![r] = "done"]
    /\ UNCHANGED <<tried, todo, reply, relayed, crashes>>

\* settle raises, or is cancelled because the client is gone: no one retries.
FinallyRaises(r) ==
    /\ Faults /\ pc[r] = "finally"
    /\ pc' = [pc EXCEPT ![r] = "done"]
    /\ UNCHANGED <<ledger, tried, todo, reply, relayed, crashes>>

-----------------------------------------------------------------------------
\* The process dies with everything in flight; the ledger is on disk.
Crash ==
    /\ crashes < MaxCrashes
    /\ crashes' = crashes + 1
    /\ pc' = [r \in Requests |-> IF pc[r] \in {"arrive", "done"} THEN pc[r] ELSE "dead"]
    /\ UNCHANGED <<ledger, tried, todo, reply, relayed>>

Tick == Ledger!Tick /\ UNCHANGED <<pc, tried, todo, reply, relayed, crashes>>

Attempt(r) ==
    \/ \E u \in Usages \cup {Unreported} : Succeeds(r, u) \/ Rejects(r, u)
    \/ Opens(r)
    \/ \E o \in Failover : FailsOver(r, o)
    \/ AttemptRaises(r)

Limiter(r) ==
    \/ CallReturns(r) \/ CallRaises(r)
    \/ Rescue(r) \/ RescueRaises(r)
    \/ FinallySettles(r) \/ FinallyRaises(r)

Relay(r) == Started(r) \/ Delta(r) \/ Ended(r) \/ StreamEnds(r) \/ NeverStarts(r)

Next ==
    \/ Tick
    \/ Crash
    \/ \E r \in Requests :
          \/ \E t \in Tenants, n \in Estimates : Submit(r, t, n)
          \/ TurnedAway(r) \/ SubmitRaises(r)
          \/ Attempt(r)
          \/ Limiter(r)
          \/ Relay(r)

Spec == Init /\ [][Next]_vars

\* Every attempt ends, at the latest by its deadline (asyncio.timeout), and
\* the limiter's calls end (RateLimiter!CallsEnd).  Nothing is assumed of how
\* long a stream lasts: its reads carry no timeout.
FairSpec == Spec /\ \A r \in Requests : WF_vars(Attempt(r)) /\ WF_vars(Limiter(r))

-----------------------------------------------------------------------------
InFlight(r) == pc[r] \in {"try", "call", "rescue", "relay", "finally"}

\* TYPE INVARIANT.
TypeOK ==
    /\ Ledger!TypeOK
    /\ pc \in [Requests -> {"arrive", "try", "call", "rescue", "relay", "finally", "done", "dead"}]
    /\ reply \in [Requests -> DoorStatuses \cup {"none", "200", "429", "4xx", "500", "502", "504"}]
    /\ \A r \in Requests :
          /\ tried[r] \in Seq(Outcomes) /\ Len(tried[r]) <= Providers
          /\ todo[r].call \in {"none", "settle", "release"}
          /\ relayed[r].seen \in Nat \cup {Unreported}
          /\ pc[r] = "relay" => r \in Streams

\* SAFETY: while any provider may be working for a request its reservation
\* stands at the full estimate, through every failover, so that concurrent
\* requests cannot pass the check together (ratelimit.py:13-19).
HeldInFlight ==
    \A r \in Requests : InFlight(r) =>
        verdict[r] = "admitted" /\ book[r].tokens = book[r].estimate

\* SAFETY: nothing a client was given with a 200 is free, even when the limiter
\* raises, the stream breaks off or the process dies: it stays in the book at
\* its usage or at its estimate (router.py:237-244, 269-274).
NothingServedIsFree ==
    \A r \in Requests : reply[r] = "200" =>
        r \in DOMAIN book /\ book[r].tokens >= 1

\* SAFETY: what a failure tells the client is what happened and what was
\* charged: a request turned away at the door costs nothing and reaches no
\* provider; 429 before any attempt; 4xx ends the attempts; 504 and 502 only
\* after every provider failed over, 504 exactly when all timed out; a timeout
\* among them is charged the estimate, otherwise the quota is given back
\* (router.py:156-162, 293-310).
FailureIsHonest ==
    \A r \in Requests :
        LET last == Len(tried[r])
            timeouts == {i \in 1 .. last : tried[r][i] = "timeout"}
        IN  /\ reply[r] \in DoorStatuses => verdict[r] = "pending" /\ last = 0
            /\ reply[r] = "429" => verdict[r] = "refused" /\ last = 0
            /\ reply[r] = "4xx" =>
                  /\ tried[r][last] = "client_error"
                  /\ \A i \in 1 .. last - 1 : tried[r][i] \in Failover
                  /\ verdict[r] = "charged" /\ book[r].tokens >= 1
            /\ reply[r] \in {"502", "504"} =>
                  /\ last = Providers
                  /\ \A i \in 1 .. last : tried[r][i] \in Failover
                  /\ reply[r] = "504" <=> timeouts = 1 .. last
                  /\ IF timeouts = {} THEN verdict[r] = "returned"
                     ELSE verdict[r] = "charged" /\ book[r].tokens = book[r].estimate

\* ACTION PROPERTY: once the status line is out it cannot be retracted: no
\* step changes it, and none tries another provider (router.py:187-189).
StatusIsFinal ==
    [][\A r \in Requests : reply[r] # "none" =>
            reply'[r] = reply[r] /\ tried'[r] = tried[r]]_vars

\* LIVENESS: every admitted request gets its status line, and its reservation
\* is settled or released, unless the process dies, the limiter raises (the
\* client sees a 500) or a stream goes on for as long as its provider likes.
Answered ==
    \A r \in Requests :
        /\ pc[r] = "try" ~> reply[r] # "none" \/ pc[r] = "dead"
        /\ verdict[r] = "admitted" ~>
               \/ verdict[r] \in {"charged", "returned"}
               \/ pc[r] = "dead" \/ reply[r] = "500"
               \/ r \in Streams /\ reply[r] = "200"

=============================================================================
