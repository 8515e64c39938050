---------------------------- MODULE RouterProofs ----------------------------
(***************************************************************************)
(* Proofs about Router, for every number of requests, tenants, providers   *)
(* and crashes, with every call of the limiter free to raise: every step   *)
(* is a step of the ledger or none, so routing keeps the limit; a          *)
(* reservation stands while a provider may work; nothing served is free;   *)
(* a failure reports what happened; a status line is never taken back.     *)
(***************************************************************************)
EXTENDS Router, FiniteSetTheorems, TLAPS

\* The ledger for every usage a provider may report.
Book == INSTANCE QuotaLedgerProofs WITH Usages <- Nat

Places == {"arrive", "try", "call", "rescue", "relay", "finally", "done", "dead"}
Replies == DoorStatuses \cup {"none", "200", "429", "4xx", "500", "502", "504"}

\* The state of all requests has its types.
Shape ==
    /\ Book!TypeOK
    /\ pc \in [Requests -> Places]
    /\ tried \in [Requests -> Seq(Outcomes)]
    /\ todo \in [Requests -> [call : {"none", "settle", "release"}, amount : Nat,
                              answer : {"none", "200", "4xx", "502", "504"}]]
    /\ reply \in [Requests -> Replies]
    /\ relayed \in [Requests -> [generated : Nat, seen : Nat \cup {Unreported},
                                 ended : {"no", "yes"}]]
    /\ \A r \in DOMAIN book : book[r].estimate \in Nat \ {0}

AllFailedOver(r) == \A i \in 1 .. Len(tried[r]) : tried[r][i] \in Failover
TimedOut(r) == {i \in 1 .. Len(tried[r]) : tried[r][i] = "timeout"}

\* The attempts ended with an error of the client.
EndedBadly(r) ==
    /\ Len(tried[r]) >= 1
    /\ tried[r][Len(tried[r])] = "client_error"
    /\ \A i \in 1 .. Len(tried[r]) - 1 : tried[r][i] \in Failover

\* What the limiter is about to be asked agrees with what happened.
CallIsRight(r) ==
    LET t == todo[r]
    IN  /\ t.answer = "200" => t.call = "settle" /\ t.amount >= 1
        /\ t.answer = "4xx" => t.call = "settle" /\ t.amount >= 1 /\ EndedBadly(r)
        /\ t.answer \in {"502", "504"} =>
              /\ Len(tried[r]) = Providers /\ AllFailedOver(r)
              /\ t.answer = "504" <=> TimedOut(r) = 1 .. Len(tried[r])
              /\ t.call = IF TimedOut(r) = {} THEN "release" ELSE "settle"
              /\ t.call = "settle" => t.amount = book[r].estimate
        /\ t.answer # "none" /\ t.call # "none"

\* What a client that was answered can be sure of.
AnswerIsRight(r) ==
    /\ reply[r] = "200" => r \in DOMAIN book /\ book[r].tokens >= 1
    /\ reply[r] \in DoorStatuses => verdict[r] = "pending" /\ tried[r] = <<>>
    /\ reply[r] = "429" => verdict[r] = "refused" /\ tried[r] = <<>>
    /\ reply[r] = "4xx" =>
          EndedBadly(r) /\ verdict[r] = "charged" /\ book[r].tokens >= 1
    /\ reply[r] \in {"502", "504"} =>
          /\ Len(tried[r]) = Providers /\ AllFailedOver(r)
          /\ reply[r] = "504" <=> TimedOut(r) = 1 .. Len(tried[r])
          /\ IF TimedOut(r) = {} THEN verdict[r] = "returned"
             ELSE verdict[r] = "charged" /\ book[r].tokens = book[r].estimate

\* A request at each place of the code.
Local(r) ==
    /\ Len(tried[r]) <= Providers
    /\ relayed[r].generated = 0 \/ relayed[r].generated >= Input
    /\ InFlight(r) => verdict[r] = "admitted"
    /\ pc[r] = "arrive" => verdict[r] = "pending" /\ tried[r] = <<>>
    /\ pc[r] = "try" => Len(tried[r]) < Providers /\ AllFailedOver(r)
    /\ pc[r] = "call" => CallIsRight(r)
    /\ pc[r] = "relay" => r \in Streams
    /\ pc[r] = "finally" => todo[r].call = "settle" /\ todo[r].amount >= 1
    /\ pc[r] \in {"relay", "finally"} => reply[r] = "200"
    /\ pc[r] \in {"arrive", "try", "call", "rescue"} => reply[r] = "none"
    /\ AnswerIsRight(r)

IInv == Shape /\ \A r \in Requests : Local(r)

-----------------------------------------------------------------------------
\* Nothing of a request changes.
Same(r) ==
    /\ pc'[r] = pc[r] /\ tried'[r] = tried[r] /\ todo'[r] = todo[r]
    /\ reply'[r] = reply[r] /\ relayed'[r] = relayed[r] /\ verdict'[r] = verdict[r]
    /\ (r \in DOMAIN book') = (r \in DOMAIN book)
    /\ r \in DOMAIN book => book'[r] = book[r]

\* Where a request is untouched, what holds of it goes on holding.
LEMMA Untouched ==
    ASSUME NEW r \in Requests, Shape, Local(r), Same(r)
    PROVE  Local(r)'
BY DEF Local, Same, InFlight, CallIsRight, AnswerIsRight, AllFailedOver, TimedOut, EndedBadly,
       Shape, Book!TypeOK

-----------------------------------------------------------------------------
(***************************************************************************)
(* The limiter's calls, as steps of the ledger                             *)
(***************************************************************************)
\* The assumptions of the ledger hold for it.
LEMMA LedgerAssumptions ==
    /\ Book!IsFiniteSet(Requests)
    /\ Estimates \subseteq Nat
    /\ Nat \subseteq Nat
    /\ MaxTime \in Nat
BY QuotaAssumption DEF IsFiniteSet, Book!IsFiniteSet

\* So its types are kept.
LEMMA LedgerTypes == Book!TypeOK /\ [Book!Next]_Book!vars => Book!TypeOK'
BY Book!TypeStep, LedgerAssumptions, WindowAssumption, LimitAssumption

\* Both instances compute the same usage.
LEMMA SameTotal == ASSUME NEW f PROVE Ledger!Total(f) = Book!Total(f)
<1>1. ASSUME NEW S PROVE Ledger!Cardinality(S) = Book!Cardinality(S)
  BY DEF Ledger!Cardinality, Book!Cardinality
<1> QED
  BY <1>1 DEF Ledger!Total, Book!Total, Ledger!Units, Book!Units

LEMMA SameUsed == ASSUME NEW t, NEW s PROVE Ledger!Used(book, t, s) = Book!Used(book, t, s)
BY SameTotal DEF Ledger!Used, Book!Used, Ledger!Tokens, Book!Tokens, Ledger!Live, Book!Live

\* The ledger is as the router needs it after a step.
BookStep == Book!TypeOK' /\ [Book!Next]_Book!vars

\* An admission enters its estimate.
LEMMA Admits ==
    ASSUME Shape, NEW r \in Requests, NEW t \in Tenants, NEW n \in Estimates,
           Ledger!Admit(r, t, n, now)
    PROVE  /\ BookStep
           /\ verdict' = [verdict EXCEPT ![r] = "admitted"]
           /\ DOMAIN book' = DOMAIN book \cup {r}
           /\ book'[r].tokens = n /\ book'[r].estimate = n
           /\ \A q \in Requests \ {r} : q \in DOMAIN book => book'[q] = book[q]
<1>1. now \in 0 .. now
  BY DEF Shape, Book!TypeOK
<1>2. Book!Admit(r, t, n, now)
  BY SameUsed DEF Ledger!Admit, Book!Admit, Ledger!Insert, Book!Insert
<1>3. Book!Next
  BY <1>1, <1>2 DEF Book!Next
<1>4. book' = Ledger!Insert(book, r, [tenant |-> t, estimate |-> n, tokens |-> n, created |-> now])
  BY DEF Ledger!Admit
<1>5. verdict' = [verdict EXCEPT ![r] = "admitted"]
  BY DEF Ledger!Admit
<1>6. BookStep
  BY <1>3, LedgerTypes DEF Shape, BookStep
<1> QED
  BY <1>4, <1>5, <1>6 DEF Ledger!Insert

\* A refusal enters nothing.
LEMMA Refuses ==
    ASSUME Shape, NEW r \in Requests, NEW t \in Tenants, NEW n \in Estimates,
           Ledger!Refuse(r, t, n, now)
    PROVE  /\ BookStep
           /\ verdict' = [verdict EXCEPT ![r] = "refused"]
           /\ book' = book
<1>1. now \in 0 .. now
  BY DEF Shape, Book!TypeOK
<1>2. Book!Refuse(r, t, n, now)
  BY SameUsed DEF Ledger!Refuse, Book!Refuse
<1>3. BookStep
  BY <1>1, <1>2, LedgerTypes DEF Shape, BookStep, Book!Next
<1> QED
  BY <1>3 DEF Ledger!Refuse

\* A settlement changes the tokens of one entry.
LEMMA Settles ==
    ASSUME Shape, NEW r \in Requests, NEW u \in Nat, Ledger!Settle(r, u)
    PROVE  /\ BookStep
           /\ verdict' = [verdict EXCEPT ![r] = "charged"]
           /\ DOMAIN book' = DOMAIN book /\ r \in DOMAIN book
           /\ book'[r].tokens = u /\ book'[r].estimate = book[r].estimate
           /\ \A q \in Requests \ {r} : q \in DOMAIN book => book'[q] = book[q]
<1>1. Book!Settle(r, u)
  BY DEF Ledger!Settle, Book!Settle
<1>2. r \in DOMAIN book /\ book[r] \in Book!Entry
  BY DEF Ledger!Settle, Shape, Book!TypeOK
<1>3. book' = [book EXCEPT ![r].tokens = u] /\ verdict' = [verdict EXCEPT ![r] = "charged"]
  BY DEF Ledger!Settle
<1>4. BookStep
  BY <1>1, LedgerTypes DEF Shape, BookStep, Book!Next
<1> QED
  BY <1>2, <1>3, <1>4 DEF Book!Entry

\* A release takes one entry out.
LEMMA Releases ==
    ASSUME Shape, NEW r \in Requests, Ledger!Release(r)
    PROVE  /\ BookStep
           /\ verdict' = [verdict EXCEPT ![r] = "returned"]
           /\ DOMAIN book' = DOMAIN book \ {r}
           /\ \A q \in Requests \ {r} : q \in DOMAIN book => book'[q] = book[q]
<1>1. Book!Release(r)
  BY DEF Ledger!Release, Book!Release, Ledger!Delete, Book!Delete
<1>2. BookStep
  BY <1>1, LedgerTypes DEF Shape, BookStep, Book!Next
<1> QED
  BY <1>2, Shape DEF Ledger!Release, Ledger!Delete, Shape, Book!TypeOK

\* Without a call the ledger stands.
LEMMA Stands ==
    ASSUME Shape, UNCHANGED ledger
    PROVE  BookStep
BY DEF Shape, BookStep, Book!TypeOK, Book!vars, ledger

-----------------------------------------------------------------------------
(***************************************************************************)
(* The steps of one request                                                *)
(***************************************************************************)
\* An answer that is out stays, and nothing is tried after it.
Final(r) == reply[r] # "none" => reply'[r] = reply[r] /\ tried'[r] = tried[r]

\* A step of request r keeps the types and what holds of r, leaves the other
\* requests alone, and is a step of the ledger or none.
Keeps(r) ==
    /\ Shape' /\ Local(r)'
    /\ \A q \in Requests \ {r} : Same(q)
    /\ [Book!Next]_Book!vars
    /\ Final(r)

\* Answered at the door, or with a 500 because the limiter raised.
LEMMA DoorKeeps ==
    ASSUME IInv, NEW r \in Requests, TurnedAway(r) \/ SubmitRaises(r)
    PROVE  Keeps(r)
<1>1. UNCHANGED <<now, book, verdict, tried, todo, relayed>>
  BY DEF TurnedAway, SubmitRaises, ledger
<1>2. pc[r] = "arrive"
  BY DEF TurnedAway, SubmitRaises
<1>3. PICK status \in DoorStatuses \cup {"500"} : Finish(r, status)
  BY DEF TurnedAway, SubmitRaises
<1>4. BookStep
  BY <1>1, Stands DEF IInv, ledger
<1>5. Shape'
  BY <1>1, <1>3, <1>4 DEF IInv, Shape, BookStep, Finish, Places, Replies, DoorStatuses
<1>6. Local(r)'
  BY <1>1, <1>2, <1>3 DEF IInv, Shape, Finish, Local, AnswerIsRight, InFlight, DoorStatuses
<1>7. \A q \in Requests \ {r} : Same(q)
  BY <1>1, <1>3 DEF IInv, Shape, Finish, Same
<1>8. Final(r)
  BY <1>2 DEF IInv, Local, Final
<1> QED
  BY <1>4, <1>5, <1>6, <1>7, <1>8 DEF Keeps, BookStep

\* Admitted, or told to come back later.
LEMMA SubmitKeeps ==
    ASSUME IInv, NEW r \in Requests, NEW t \in Tenants, NEW n \in Estimates, Submit(r, t, n)
    PROVE  Keeps(r)
<1>1. UNCHANGED <<tried, todo, relayed>> /\ pc[r] = "arrive"
  BY DEF Submit
<1>2. Final(r)
  BY <1>1 DEF IInv, Local, Final
<1>3. CASE Ledger!Admit(r, t, n, now) /\ pc' = [pc EXCEPT ![r] = "try"] /\ UNCHANGED reply
  <2>1. /\ BookStep
        /\ verdict' = [verdict EXCEPT ![r] = "admitted"]
        /\ DOMAIN book' = DOMAIN book \cup {r}
        /\ book'[r].tokens = n /\ book'[r].estimate = n
        /\ \A q \in Requests \ {r} : q \in DOMAIN book => book'[q] = book[q]
    BY <1>3, Admits DEF IInv
  <2>2. n \in Nat \ {0}
    BY QuotaAssumption
  <2>3. DOMAIN book \subseteq Requests
    BY DEF IInv, Shape, Book!TypeOK
  <2>4. Shape'
    BY <1>1, <1>3, <2>1, <2>2, <2>3 DEF IInv, Shape, BookStep, Places
  <2>5. Local(r)'
    BY <1>1, <1>3, <2>1, RouterAssumption
       DEF IInv, Shape, Book!TypeOK, Local, AnswerIsRight, InFlight, AllFailedOver, DoorStatuses
  <2>6. \A q \in Requests \ {r} : Same(q)
    BY <1>1, <1>3, <2>1 DEF IInv, Shape, Same, Book!TypeOK
  <2> QED
    BY <1>2, <2>1, <2>4, <2>5, <2>6 DEF Keeps, BookStep
<1>4. CASE Ledger!Refuse(r, t, n, now) /\ Finish(r, "429")
  <2>1. BookStep /\ verdict' = [verdict EXCEPT ![r] = "refused"] /\ book' = book
    BY <1>4, Refuses DEF IInv
  <2>2. Shape'
    BY <1>1, <1>4, <2>1 DEF IInv, Shape, BookStep, Finish, Places, Replies
  <2>3. Local(r)'
    BY <1>1, <1>4, <2>1
       DEF IInv, Shape, Book!TypeOK, Finish, Local, AnswerIsRight, InFlight, DoorStatuses
  <2>4. \A q \in Requests \ {r} : Same(q)
    BY <1>1, <1>4, <2>1 DEF IInv, Shape, Finish, Same, Book!TypeOK
  <2> QED
    BY <1>2, <2>1, <2>2, <2>3, <2>4 DEF Keeps, BookStep
<1> QED
  BY <1>3, <1>4 DEF Submit

\* A reservation is at least a token, and so is every charge.
LEMMA ChargeIsPositive ==
    ASSUME IInv, NEW r \in Requests, verdict[r] = "admitted", NEW u \in Nat \cup {Unreported}
    PROVE  /\ r \in DOMAIN book
           /\ Estimate(r) \in Nat \ {0}
           /\ Charge(r, u) \in Nat \ {0}
BY DEF IInv, Shape, Book!TypeOK, Estimate, Charge, Unreported

\* One more attempt of request r, with outcome o.
LEMMA Attempted ==
    ASSUME IInv, NEW r \in Requests, NEW o \in Outcomes, pc[r] = "try",
           tried' = [tried EXCEPT ![r] = Append(@, o)]
    PROVE  /\ tried' \in [Requests -> Seq(Outcomes)]
           /\ tried[r] \in Seq(Outcomes)
           /\ tried'[r] = Append(tried[r], o)
           /\ Len(tried'[r]) = Len(tried[r]) + 1 /\ Len(tried'[r]) \in 1 .. Providers
           /\ tried'[r][Len(tried'[r])] = o
           /\ \A i \in 1 .. Len(tried'[r]) - 1 : tried'[r][i] \in Failover
           /\ \A q \in Requests \ {r} : tried'[q] = tried[q]
<1>1. tried \in [Requests -> Seq(Outcomes)]
  BY DEF IInv, Shape
<1>2. Len(tried[r]) < Providers /\ AllFailedOver(r)
  BY DEF IInv, Local
<1>3. tried'[r] = Append(tried[r], o) /\ tried[r] \in Seq(Outcomes)
  BY <1>1
<1>4. Len(tried'[r]) = Len(tried[r]) + 1 /\ Len(tried[r]) \in Nat
  BY <1>3
<1>5. \A i \in 1 .. Len(tried[r]) : tried'[r][i] = tried[r][i]
  BY <1>3
<1> QED
  BY <1>1, <1>2, <1>3, <1>4, <1>5, RouterAssumption DEF AllFailedOver

\* A completion, or a 4xx: the limiter is about to settle at what it cost.
LEMMA SettlesNext ==
    ASSUME IInv, NEW r \in Requests, NEW u \in Usages \cup {Unreported},
           Succeeds(r, u) \/ Rejects(r, u)
    PROVE  Keeps(r)
<1>1. PICK o \in {"success", "client_error"} :
         /\ Tries(r, o)
         /\ Call(r, "call", "settle", Charge(r, u), IF o = "success" THEN "200" ELSE "4xx")
  BY DEF Succeeds, Rejects
<1>2. UNCHANGED <<now, book, verdict, reply, relayed>> /\ pc[r] = "try"
  BY <1>1 DEF Succeeds, Rejects, Tries, ledger
<1>3. verdict[r] = "admitted"
  BY <1>2 DEF IInv, Local, InFlight
<1>4. Charge(r, u) \in Nat \ {0}
  BY <1>3, ChargeIsPositive, QuotaAssumption
<1>5. /\ tried' \in [Requests -> Seq(Outcomes)]
      /\ Len(tried'[r]) \in 1 .. Providers
      /\ tried'[r][Len(tried'[r])] = o
      /\ \A i \in 1 .. Len(tried'[r]) - 1 : tried'[r][i] \in Failover
      /\ \A q \in Requests \ {r} : tried'[q] = tried[q]
  BY <1>1, <1>2, Attempted DEF Tries, Outcomes
<1>6. BookStep
  BY <1>2, Stands DEF IInv, ledger
<1>7. Shape'
  BY <1>1, <1>2, <1>4, <1>5, <1>6 DEF IInv, Shape, BookStep, Call, Places
<1>8. Local(r)'
  <2>1. /\ pc'[r] = "call" /\ reply'[r] = "none" /\ verdict'[r] = "admitted"
        /\ todo'[r] = [call |-> "settle", amount |-> Charge(r, u),
                       answer |-> IF o = "success" THEN "200" ELSE "4xx"]
    BY <1>1, <1>2, <1>3 DEF IInv, Shape, Local, Call
  <2>2. EndedBadly(r)' \/ o = "success"
    BY <1>5 DEF EndedBadly
  <2>3. CallIsRight(r)'
    BY <1>4, <2>1, <2>2 DEF CallIsRight
  <2> QED
    BY <1>2, <1>5, <2>1, <2>3 DEF IInv, Local, AnswerIsRight, InFlight, DoorStatuses
<1>9. \A q \in Requests \ {r} : Same(q)
  BY <1>1, <1>2, <1>5 DEF IInv, Shape, Same, Call
<1>10. Final(r)
  BY <1>2 DEF IInv, Local, Final
<1> QED
  BY <1>6, <1>7, <1>8, <1>9, <1>10 DEF Keeps, BookStep

\* A stream opens under a reservation that is at least a token.
LEMMA OpensKeeps ==
    ASSUME IInv, NEW r \in Requests, Opens(r)
    PROVE  Keeps(r)
<1>1. UNCHANGED <<now, book, verdict, todo, relayed>> /\ pc[r] = "try" /\ r \in Streams
  BY DEF Opens, ledger
<1>2. verdict[r] = "admitted"
  BY <1>1 DEF IInv, Local, InFlight
<1>3. /\ tried' \in [Requests -> Seq(Outcomes)]
      /\ Len(tried'[r]) \in 1 .. Providers
      /\ \A q \in Requests \ {r} : tried'[q] = tried[q]
  BY <1>1, Attempted DEF Opens, Outcomes
<1>4. BookStep
  BY <1>1, Stands DEF IInv, ledger
<1>5. Shape'
  BY <1>1, <1>3, <1>4 DEF IInv, Shape, BookStep, Opens, Places, Replies
<1>6. Local(r)'
  <2>1. pc'[r] = "relay" /\ reply'[r] = "200" /\ verdict'[r] = "admitted"
    BY <1>1, <1>2 DEF IInv, Shape, Opens
  <2>2. r \in DOMAIN book /\ book[r].tokens = book[r].estimate /\ book[r].estimate \in Nat \ {0}
    BY <1>2 DEF IInv, Shape, Book!TypeOK
  <2> QED
    BY <1>1, <1>3, <2>1, <2>2 DEF IInv, Local, AnswerIsRight, InFlight, DoorStatuses
<1>7. \A q \in Requests \ {r} : Same(q)
  BY <1>1, <1>3 DEF IInv, Shape, Same, Opens
<1>8. Final(r)
  BY <1>1 DEF IInv, Local, Final
<1> QED
  BY <1>4, <1>5, <1>6, <1>7, <1>8 DEF Keeps, BookStep

\* A provider fails over: the next is tried, or the limiter is about to charge
\* a timeout or to give the reservation back.
LEMMA FailsOverKeeps ==
    ASSUME IInv, NEW r \in Requests, NEW o \in Failover, FailsOver(r, o)
    PROVE  Keeps(r)
<1>1. UNCHANGED <<now, book, verdict, reply, relayed>> /\ pc[r] = "try"
  BY DEF FailsOver, Tries, ledger
<1>2. verdict[r] = "admitted" /\ Estimate(r) \in Nat /\ Estimate(r) = book[r].estimate
  BY <1>1, ChargeIsPositive DEF IInv, Local, InFlight, Unreported, Estimate
<1>3. /\ tried' \in [Requests -> Seq(Outcomes)]
      /\ Len(tried'[r]) \in 1 .. Providers
      /\ \A q \in Requests \ {r} : tried'[q] = tried[q]
      /\ AllFailedOver(r)'
  <2>1. /\ tried' \in [Requests -> Seq(Outcomes)]
        /\ Len(tried'[r]) \in 1 .. Providers
        /\ tried'[r][Len(tried'[r])] = o
        /\ \A i \in 1 .. Len(tried'[r]) - 1 : tried'[r][i] \in Failover
        /\ \A q \in Requests \ {r} : tried'[q] = tried[q]
    BY <1>1, Attempted DEF FailsOver, Tries, Outcomes
  <2> QED
    BY <2>1, RouterAssumption DEF AllFailedOver
<1>4. BookStep
  BY <1>1, Stands DEF IInv, ledger
<1>5. Final(r)
  BY <1>1 DEF IInv, Local, Final
<1>6. CASE Len(tried'[r]) < Providers
  <2>1. UNCHANGED <<pc, todo>>
    BY <1>6 DEF FailsOver
  <2>2. Shape'
    BY <1>1, <1>3, <1>4, <2>1 DEF IInv, Shape, BookStep
  <2>3. Local(r)'
    BY <1>1, <1>2, <1>3, <1>6, <2>1, RouterAssumption
       DEF IInv, Local, AnswerIsRight, InFlight, DoorStatuses
  <2>4. \A q \in Requests \ {r} : Same(q)
    BY <1>1, <1>3, <2>1 DEF IInv, Shape, Same
  <2> QED
    BY <1>4, <1>5, <2>2, <2>3, <2>4 DEF Keeps, BookStep
<1>7. CASE ~(Len(tried'[r]) < Providers)
  <2> DEFINE all == \A i \in DOMAIN tried'[r] : tried'[r][i] = "timeout"
             some == \E i \in DOMAIN tried'[r] : tried'[r][i] = "timeout"
  <2>1. Call(r, "call", IF some THEN "settle" ELSE "release", Estimate(r),
             IF all THEN "504" ELSE "502")
    BY <1>7 DEF FailsOver, Exhausted
  <2>2. DOMAIN tried'[r] = 1 .. Len(tried'[r])
    BY <1>3
  <2>3. (all <=> TimedOut(r)' = 1 .. Len(tried'[r])) /\ (some <=> TimedOut(r)' # {})
    BY <2>2 DEF TimedOut
  <2>4. /\ pc'[r] = "call" /\ reply'[r] = "none" /\ verdict'[r] = "admitted"
        /\ todo'[r] = [call |-> IF some THEN "settle" ELSE "release",
                       amount |-> Estimate(r), answer |-> IF all THEN "504" ELSE "502"]
    BY <1>1, <1>2, <2>1 DEF IInv, Shape, Local, Call
  <2>5. CallIsRight(r)'
    <3>1. Len(tried'[r]) = Providers
      BY <1>3, <1>7, RouterAssumption
    <3>2. (todo'[r].answer = "504" <=> all) /\ todo'[r].answer \in {"502", "504"}
      BY <2>4
    <3>3. todo'[r].call = IF TimedOut(r)' = {} THEN "release" ELSE "settle"
      BY <2>3, <2>4
    <3>4. todo'[r].amount = book'[r].estimate
      BY <1>1, <1>2, <2>4
    <3> QED
      BY <1>3, <2>3, <3>1, <3>2, <3>3, <3>4 DEF CallIsRight
  <2>6. Shape'
    BY <1>1, <1>2, <1>3, <1>4, <2>1 DEF IInv, Shape, BookStep, Call, Places
  <2>7. Local(r)'
    BY <1>1, <1>3, <2>4, <2>5, RouterAssumption
       DEF IInv, Local, AnswerIsRight, InFlight, DoorStatuses
  <2>8. \A q \in Requests \ {r} : Same(q)
    BY <1>1, <1>3, <2>1 DEF IInv, Shape, Same, Call
  <2> QED
    BY <1>4, <1>5, <2>6, <2>7, <2>8 DEF Keeps, BookStep
<1> QED
  BY <1>6, <1>7

\* An exception in an attempt or in the limiter reaches route()'s handler.
LEMMA RaiseKeeps ==
    ASSUME IInv, NEW r \in Requests, AttemptRaises(r) \/ CallRaises(r)
    PROVE  Keeps(r)
<1>1. /\ UNCHANGED <<now, book, verdict, tried, todo, reply, relayed>>
      /\ pc[r] \in {"try", "call"} /\ pc' = [pc EXCEPT ![r] = "rescue"]
  BY DEF AttemptRaises, CallRaises, ledger
<1>2. BookStep
  BY <1>1, Stands DEF IInv, ledger
<1>3. Shape'
  BY <1>1, <1>2 DEF IInv, Shape, BookStep, Places
<1>4. Local(r)'
  BY <1>1 DEF IInv, Shape, Local, AnswerIsRight, InFlight, DoorStatuses
<1>5. \A q \in Requests \ {r} : Same(q)
  BY <1>1 DEF IInv, Shape, Same
<1> QED
  BY <1>1, <1>2, <1>3, <1>4, <1>5 DEF Keeps, BookStep, Final

\* The limiter is done, and the client has the answer that was decided on.
LEMMA ReturnKeeps ==
    ASSUME IInv, NEW r \in Requests, CallReturns(r)
    PROVE  Keeps(r)
<1>1. UNCHANGED <<tried, todo, relayed>> /\ pc[r] = "call" /\ Finish(r, todo[r].answer)
  BY DEF CallReturns
<1>2. reply[r] = "none" /\ CallIsRight(r) /\ Len(tried[r]) <= Providers
      /\ (relayed[r].generated = 0 \/ relayed[r].generated >= Input)
  BY <1>1 DEF IInv, Local
<1>3. /\ todo[r].amount \in Nat /\ todo[r].answer \in Replies
      /\ todo[r].answer \in {"200", "4xx", "502", "504"}
      /\ todo \in [Requests -> [call : {"none", "settle", "release"}, amount : Nat,
                                answer : {"none", "200", "4xx", "502", "504"}]]
  BY <1>2 DEF IInv, Shape, CallIsRight, Replies
<1>4. pc'[r] = "done" /\ reply'[r] = todo[r].answer
  BY <1>1 DEF IInv, Shape, Finish
<1>5. Final(r)
  BY <1>2 DEF Final
<1>6. CASE todo[r].call = "settle" /\ Ledger!Settle(r, todo[r].amount)
  <2>1. /\ BookStep
        /\ verdict' = [verdict EXCEPT ![r] = "charged"]
        /\ DOMAIN book' = DOMAIN book /\ r \in DOMAIN book
        /\ book'[r].tokens = todo[r].amount /\ book'[r].estimate = book[r].estimate
        /\ \A q \in Requests \ {r} : q \in DOMAIN book => book'[q] = book[q]
    BY <1>3, <1>6, Settles DEF IInv
  <2>2. DOMAIN book \subseteq Requests /\ verdict'[r] = "charged"
    BY <2>1 DEF IInv, Shape, Book!TypeOK
  <2>3. Shape'
    BY <1>1, <1>3, <2>1, <2>2 DEF IInv, Shape, BookStep, Finish, Places
  <2>4. Local(r)'
    <3>1. AnswerIsRight(r)'
      BY <1>1, <1>2, <1>3, <1>4, <1>6, <2>1, <2>2
         DEF AnswerIsRight, CallIsRight, AllFailedOver, TimedOut, EndedBadly, DoorStatuses
    <3> QED
      BY <1>1, <1>2, <1>4, <3>1 DEF Local, InFlight
  <2>5. \A q \in Requests \ {r} : Same(q)
    BY <1>1, <2>1 DEF IInv, Shape, Finish, Same, Book!TypeOK
  <2> QED
    BY <1>5, <2>1, <2>3, <2>4, <2>5 DEF Keeps, BookStep
<1>7. CASE todo[r].call = "release" /\ Ledger!Release(r)
  <2>1. /\ BookStep
        /\ verdict' = [verdict EXCEPT ![r] = "returned"]
        /\ DOMAIN book' = DOMAIN book \ {r}
        /\ \A q \in Requests \ {r} : q \in DOMAIN book => book'[q] = book[q]
    BY <1>7, Releases DEF IInv
  <2>2. DOMAIN book \subseteq Requests /\ verdict'[r] = "returned"
    BY <2>1 DEF IInv, Shape, Book!TypeOK
  <2>3. Shape'
    BY <1>1, <1>3, <2>1, <2>2 DEF IInv, Shape, BookStep, Finish, Places
  <2>4. Local(r)'
    <3>1. AnswerIsRight(r)'
      BY <1>1, <1>2, <1>3, <1>4, <1>7, <2>1, <2>2
         DEF AnswerIsRight, CallIsRight, AllFailedOver, TimedOut, DoorStatuses
    <3> QED
      BY <1>1, <1>2, <1>4, <3>1 DEF Local, InFlight
  <2>5. \A q \in Requests \ {r} : Same(q)
    BY <1>1, <2>1 DEF IInv, Shape, Finish, Same, Book!TypeOK
  <2> QED
    BY <1>5, <2>1, <2>3, <2>4, <2>5 DEF Keeps, BookStep
<1> QED
  BY <1>6, <1>7 DEF CallReturns

\* route()'s handler gives the reservation back, or fails to.
LEMMA RescueKeeps ==
    ASSUME IInv, NEW r \in Requests, Rescue(r) \/ RescueRaises(r)
    PROVE  Keeps(r)
<1>1. UNCHANGED <<tried, todo, relayed>> /\ pc[r] = "rescue" /\ Finish(r, "500")
  BY DEF Rescue, RescueRaises
<1>2. reply[r] = "none" /\ Final(r)
  BY <1>1 DEF IInv, Local, Final
<1>3. CASE Rescue(r)
  <2>1. /\ BookStep
        /\ verdict' = [verdict EXCEPT ![r] = "returned"]
        /\ DOMAIN book' = DOMAIN book \ {r}
        /\ \A q \in Requests \ {r} : q \in DOMAIN book => book'[q] = book[q]
    BY <1>3, Releases DEF IInv, Rescue
  <2>2. DOMAIN book \subseteq Requests
    BY DEF IInv, Shape, Book!TypeOK
  <2>3. Shape'
    BY <1>1, <2>1, <2>2 DEF IInv, Shape, BookStep, Finish, Places, Replies
  <2>4. Local(r)'
    BY <1>1, <2>1 DEF IInv, Shape, Local, AnswerIsRight, InFlight, Finish, DoorStatuses
  <2>5. \A q \in Requests \ {r} : Same(q)
    BY <1>1, <2>1 DEF IInv, Shape, Finish, Same, Book!TypeOK
  <2> QED
    BY <1>2, <2>1, <2>3, <2>4, <2>5 DEF Keeps, BookStep
<1>4. CASE RescueRaises(r)
  <2>1. UNCHANGED <<now, book, verdict>>
    BY <1>4 DEF RescueRaises, ledger
  <2>2. BookStep
    BY <2>1, Stands DEF IInv, ledger
  <2>3. Shape'
    BY <1>1, <2>1, <2>2 DEF IInv, Shape, BookStep, Finish, Places, Replies
  <2>4. Local(r)'
    BY <1>1, <2>1 DEF IInv, Shape, Local, AnswerIsRight, InFlight, Finish, DoorStatuses
  <2>5. \A q \in Requests \ {r} : Same(q)
    BY <1>1, <2>1 DEF IInv, Shape, Finish, Same
  <2> QED
    BY <1>2, <2>2, <2>3, <2>4, <2>5 DEF Keeps, BookStep
<1> QED
  BY <1>1, <1>3, <1>4

\* A chunk passes: nothing of the answer or of the ledger changes.
LEMMA ChunkKeeps ==
    ASSUME IInv, NEW r \in Requests, Started(r) \/ Delta(r) \/ Ended(r)
    PROVE  Keeps(r)
<1>1. relayed[r] \in [generated : Nat, seen : Nat \cup {Unreported}, ended : {"no", "yes"}]
  BY DEF IInv, Shape
<1>2. relayed[r].generated = 0 \/ relayed[r].generated >= Input
  BY DEF IInv, Local
<1>3. PICK s \in [generated : Nat, seen : Nat \cup {Unreported}, ended : {"no", "yes"}] :
         Stream(r, s) /\ s.generated >= Input
  <2>1. CASE Started(r)
    BY <2>1, RouterAssumption DEF Started, Unreported
  <2>2. CASE Delta(r)
    <3>1. Stream(r, [relayed[r] EXCEPT !.generated = @ + 1]) /\ 0 < relayed[r].generated
      BY <2>2 DEF Delta
    <3>2. [relayed[r] EXCEPT !.generated = @ + 1]
             = [generated |-> relayed[r].generated + 1, seen |-> relayed[r].seen,
                ended |-> relayed[r].ended]
      BY <1>1
    <3> QED
      BY <1>1, <1>2, <3>1, <3>2, RouterAssumption
  <2>3. CASE Ended(r)
    <3> DEFINE s == relayed[r]
               output == s.generated - Input
               total == IF s.seen = Unreported THEN output ELSE s.seen + output
    <3>1. s.generated > 0 /\ \E seen \in {s.seen, total} :
             Stream(r, [s EXCEPT !.ended = "yes", !.seen = seen])
      BY <2>3 DEF Ended
    <3>2. output \in Nat /\ s.generated >= Input
      BY <1>1, <1>2, <3>1, RouterAssumption
    <3>3. total \in Nat
      BY <1>1, <3>2
    <3>4. PICK x \in {s.seen, total} : Stream(r, [s EXCEPT !.ended = "yes", !.seen = x])
      BY <3>1
    <3>5. x \in Nat \cup {Unreported}
      BY <1>1, <3>3
    <3>6. /\ [s EXCEPT !.ended = "yes", !.seen = x]
                \in [generated : Nat, seen : Nat \cup {Unreported}, ended : {"no", "yes"}]
          /\ [s EXCEPT !.ended = "yes", !.seen = x].generated = s.generated
      BY <1>1, <3>5
    <3> HIDE DEF s
    <3> QED
      BY <3>2, <3>4, <3>6
  <2> QED
    BY <2>1, <2>2, <2>3
<1>4. /\ UNCHANGED <<now, book, verdict, pc, tried, todo, reply>>
      /\ pc[r] = "relay" /\ relayed' = [relayed EXCEPT ![r] = s]
  BY <1>3 DEF Stream, ledger
<1>5. BookStep
  BY <1>4, Stands DEF IInv, ledger
<1>6. Shape'
  BY <1>3, <1>4, <1>5 DEF IInv, Shape, BookStep
<1>7. Local(r)'
  BY <1>3, <1>4 DEF IInv, Shape, Local, AnswerIsRight, InFlight, EndedBadly, AllFailedOver, TimedOut
<1>8. \A q \in Requests \ {r} : Same(q)
  BY <1>4 DEF IInv, Shape, Same
<1> QED
  BY <1>4, <1>5, <1>6, <1>7, <1>8 DEF Keeps, BookStep, Final

\* The stream is over: it is settled, or its entry stays at the estimate.
LEMMA StreamOverKeeps ==
    ASSUME IInv, NEW r \in Requests, StreamEnds(r) \/ NeverStarts(r) \/ FinallyRaises(r)
    PROVE  Keeps(r)
<1>1. UNCHANGED <<now, book, verdict, tried, reply, relayed>> /\ pc[r] \in {"relay", "finally"}
  BY DEF StreamEnds, NeverStarts, FinallyRaises, ledger
<1>2. reply[r] = "200" /\ verdict[r] = "admitted"
  BY <1>1 DEF IInv, Local, InFlight
<1>3. BookStep
  BY <1>1, Stands DEF IInv, ledger
<1>4. CASE StreamEnds(r)
  <2>1. Call(r, "finally", "settle", Charge(r, relayed[r].seen), "200")
    BY <1>4 DEF StreamEnds
  <2>2. Charge(r, relayed[r].seen) \in Nat \ {0}
    BY <1>2, ChargeIsPositive DEF IInv, Shape
  <2>3. Shape'
    BY <1>1, <1>3, <2>1, <2>2 DEF IInv, Shape, BookStep, Call, Places
  <2>4. Local(r)'
    BY <1>1, <1>2, <2>1, <2>2 DEF IInv, Shape, Local, AnswerIsRight, InFlight, Call, DoorStatuses
  <2>5. \A q \in Requests \ {r} : Same(q)
    BY <1>1, <2>1 DEF IInv, Shape, Same, Call
  <2> QED
    BY <1>1, <1>3, <2>3, <2>4, <2>5 DEF Keeps, BookStep, Final
<1>5. CASE NeverStarts(r) \/ FinallyRaises(r)
  <2>1. UNCHANGED todo /\ pc' = [pc EXCEPT ![r] = "done"]
    BY <1>5 DEF NeverStarts, FinallyRaises
  <2>2. Shape'
    BY <1>1, <1>3, <2>1 DEF IInv, Shape, BookStep, Places
  <2>3. Local(r)'
    BY <1>1, <1>2, <2>1 DEF IInv, Shape, Local, AnswerIsRight, InFlight, DoorStatuses
  <2>4. \A q \in Requests \ {r} : Same(q)
    BY <1>1, <2>1 DEF IInv, Shape, Same
  <2> QED
    BY <1>1, <1>3, <2>2, <2>3, <2>4 DEF Keeps, BookStep, Final
<1> QED
  BY <1>4, <1>5

\* relay()'s finally block settles at what the collector saw.
LEMMA FinallyKeeps ==
    ASSUME IInv, NEW r \in Requests, FinallySettles(r)
    PROVE  Keeps(r)
<1>1. /\ UNCHANGED <<tried, todo, reply, relayed>> /\ pc[r] = "finally"
      /\ pc' = [pc EXCEPT ![r] = "done"]
  BY DEF FinallySettles
<1>2. reply[r] = "200" /\ todo[r].amount >= 1 /\ todo[r].amount \in Nat
  BY <1>1 DEF IInv, Shape, Local
<1>3. /\ BookStep
      /\ verdict' = [verdict EXCEPT ![r] = "charged"]
      /\ DOMAIN book' = DOMAIN book /\ r \in DOMAIN book
      /\ book'[r].tokens = todo[r].amount /\ book'[r].estimate = book[r].estimate
      /\ \A q \in Requests \ {r} : q \in DOMAIN book => book'[q] = book[q]
  BY <1>2, Settles DEF IInv, FinallySettles
<1>4. DOMAIN book \subseteq Requests
  BY DEF IInv, Shape, Book!TypeOK
<1>5. Shape'
  BY <1>1, <1>3, <1>4 DEF IInv, Shape, BookStep, Places
<1>6. Local(r)'
  BY <1>1, <1>2, <1>3 DEF IInv, Shape, Local, AnswerIsRight, InFlight, DoorStatuses
<1>7. \A q \in Requests \ {r} : Same(q)
  BY <1>1, <1>3 DEF IInv, Shape, Same, Book!TypeOK
<1> QED
  BY <1>1, <1>3, <1>5, <1>6, <1>7 DEF Keeps, BookStep, Final

-----------------------------------------------------------------------------
(***************************************************************************)
(* Every step                                                              *)
(***************************************************************************)
Stable == [Book!Next]_Book!vars /\ \A r \in Requests : Final(r)

\* What a step of one request keeps, it keeps for all.
LEMMA OneKeepsAll ==
    ASSUME IInv, NEW r \in Requests, Keeps(r)
    PROVE  IInv' /\ Stable
<1>1. \A q \in Requests \ {r} : Local(q)' /\ Final(q)
  BY Untouched DEF IInv, Keeps, Same, Final
<1> QED
  BY <1>1 DEF IInv, Keeps, Stable

\* A crash leaves the ledger and what was answered, and no request is in flight.
LEMMA CrashKeeps == ASSUME IInv, Crash PROVE IInv' /\ Stable
<1>1. /\ UNCHANGED <<now, book, verdict, tried, todo, reply, relayed>>
      /\ pc' = [r \in Requests |-> IF pc[r] \in {"arrive", "done"} THEN pc[r] ELSE "dead"]
  BY DEF Crash, ledger
<1>2. BookStep
  BY <1>1, Stands DEF IInv, ledger
<1>3. Shape'
  BY <1>1, <1>2 DEF IInv, Shape, BookStep, Places
<1>4. ASSUME NEW r \in Requests
      PROVE  Local(r)' /\ Final(r)
  <2>1. pc'[r] \in {"arrive", "done", "dead"} /\ (pc'[r] = "arrive" => pc[r] = "arrive")
    BY <1>1
  <2>2. AnswerIsRight(r) /\ Local(r)
    BY DEF IInv, Local
  <2>3. AnswerIsRight(r)'
    BY <1>1, <2>2 DEF AnswerIsRight, EndedBadly, AllFailedOver, TimedOut
  <2> QED
    BY <1>1, <2>1, <2>2, <2>3 DEF Local, InFlight, Final
<1> QED
  BY <1>2, <1>3, <1>4 DEF IInv, Stable, BookStep

\* Time passes for the ledger alone.
LEMMA TickKeeps == ASSUME IInv, Tick PROVE IInv' /\ Stable
<1>1. UNCHANGED <<book, verdict, pc, tried, todo, reply, relayed>> /\ Ledger!Tick
  BY DEF Tick, Ledger!Tick
<1>2. Book!Next
  BY <1>1 DEF Ledger!Tick, Book!Tick, Book!Next
<1>3. BookStep
  BY <1>2, LedgerTypes DEF IInv, Shape, BookStep
<1>4. Shape'
  BY <1>1, <1>3 DEF IInv, Shape, BookStep
<1>5. ASSUME NEW r \in Requests
      PROVE  Local(r)' /\ Final(r)
  <2>1. Same(r)
    BY <1>1 DEF Same
  <2> QED
    BY <1>1, <2>1, Untouched DEF IInv, Final
<1> QED
  BY <1>3, <1>4, <1>5 DEF IInv, Stable, BookStep

\* Before the first request everything holds.
LEMMA InitHolds == Init => IInv /\ Book!Init
<1> SUFFICES ASSUME Init PROVE IInv /\ Book!Init
  OBVIOUS
<1>1. Book!Init
  BY DEF Init, Ledger!Init, Book!Init
<1>2. Book!TypeOK
  BY <1>1 DEF Book!Init, Book!TypeOK, Book!Verdicts
<1>3. Shape
  BY <1>1, <1>2
     DEF Init, Shape, Places, Replies, NoCall, NoStream, Unreported, Book!Init
<1>4. ASSUME NEW r \in Requests
      PROVE  Local(r)
  BY <1>1, RouterAssumption
     DEF Init, Book!Init, Local, AnswerIsRight, InFlight, NoCall, NoStream, DoorStatuses
<1> QED
  BY <1>1, <1>3, <1>4 DEF IInv

\* Every step of the router keeps the invariant, is a step of the ledger or
\* none, and takes no answer back.
LEMMA StepKeeps == IInv /\ [Next]_vars => IInv' /\ Stable
<1> SUFFICES ASSUME IInv, [Next]_vars PROVE IInv' /\ Stable
  OBVIOUS
<1>1. CASE Tick
  BY <1>1, TickKeeps
<1>2. CASE Crash
  BY <1>2, CrashKeeps
<1>3. ASSUME NEW r \in Requests, NEW t \in Tenants, NEW n \in Estimates, Submit(r, t, n)
      PROVE  IInv' /\ Stable
  BY <1>3, SubmitKeeps, OneKeepsAll
<1>4. ASSUME NEW r \in Requests, TurnedAway(r) \/ SubmitRaises(r)
      PROVE  IInv' /\ Stable
  BY <1>4, DoorKeeps, OneKeepsAll
<1>5. ASSUME NEW r \in Requests, Attempt(r)
      PROVE  IInv' /\ Stable
  <2>1. Keeps(r)
    BY <1>5, SettlesNext, OpensKeeps, FailsOverKeeps, RaiseKeeps DEF Attempt
  <2> QED
    BY <2>1, OneKeepsAll
<1>6. ASSUME NEW r \in Requests, Limiter(r)
      PROVE  IInv' /\ Stable
  <2>1. Keeps(r)
    BY <1>6, ReturnKeeps, RaiseKeeps, RescueKeeps, FinallyKeeps, StreamOverKeeps DEF Limiter
  <2> QED
    BY <2>1, OneKeepsAll
<1>7. ASSUME NEW r \in Requests, Relay(r)
      PROVE  IInv' /\ Stable
  <2>1. Keeps(r)
    BY <1>7, ChunkKeeps, StreamOverKeeps DEF Relay
  <2> QED
    BY <2>1, OneKeepsAll
<1>8. CASE UNCHANGED vars
  <2>1. UNCHANGED <<now, book, verdict, pc, tried, todo, reply, relayed>>
    BY <1>8 DEF vars
  <2>2. BookStep
    BY <2>1, Stands DEF IInv, ledger
  <2>3. Shape'
    BY <2>1, <2>2 DEF IInv, Shape, BookStep
  <2>4. ASSUME NEW r \in Requests
        PROVE  Local(r)' /\ Final(r)
    <3>1. Same(r)
      BY <2>1 DEF Same
    <3> QED
      BY <2>1, <3>1, Untouched DEF IInv, Final
  <2> QED
    BY <2>2, <2>3, <2>4 DEF IInv, Stable, BookStep
<1> QED
  BY <1>1, <1>2, <1>3, <1>4, <1>5, <1>6, <1>7, <1>8 DEF Next

LEMMA Inductive == Spec => []IInv
BY InitHolds, StepKeeps, PTL DEF Spec

-----------------------------------------------------------------------------
\* The state keeps its types: attempts never outnumber the providers, and only
\* a stream is relayed.
THEOREM TypeCorrect == Spec => []TypeOK
<1>1. IInv => TypeOK
  BY DEF IInv, Shape, Local, TypeOK, Ledger!TypeOK, Book!TypeOK, Ledger!Entry, Book!Entry,
         Ledger!Verdicts, Book!Verdicts, Places, Replies
<1> QED
  BY <1>1, Inductive, PTL

\* While a provider may be working for a request, through every failover, its
\* reservation stands at the full estimate (ratelimit.py:13-19).
THEOREM ReservationHeld == Spec => []HeldInFlight
<1>1. IInv => HeldInFlight
  BY DEF IInv, Shape, Book!TypeOK, Local, HeldInFlight
<1> QED
  BY <1>1, Inductive, PTL

\* Whatever was answered with a 200 is in the book, at a token or more, even if
\* the limiter raised, the stream broke off or the process died.
THEOREM NothingFree == Spec => []NothingServedIsFree
<1>1. IInv => NothingServedIsFree
  BY DEF IInv, Local, AnswerIsRight, NothingServedIsFree
<1> QED
  BY <1>1, Inductive, PTL

\* What a failure tells the client is what the providers did and what the
\* ledger charged (router.py:156-162, 293-310).
THEOREM FailureHonest == Spec => []FailureIsHonest
<1>1. IInv => FailureIsHonest
  <2> SUFFICES ASSUME IInv PROVE FailureIsHonest
    OBVIOUS
  <2>1. ASSUME NEW r \in Requests
        PROVE  AnswerIsRight(r) /\ tried[r] \in Seq(Outcomes)
    BY DEF IInv, Shape, Local
  <2> QED
    BY <2>1 DEF FailureIsHonest, AnswerIsRight, TimedOut, AllFailedOver, EndedBadly, DoorStatuses
<1> QED
  BY <1>1, Inductive, PTL

\* A status line that is out is never changed, and nothing is tried after it
\* (router.py:187-189).
THEOREM StatusNeverChanges == Spec => StatusIsFinal
<1>1. Stable => [\A r \in Requests : reply[r] # "none" =>
                    reply'[r] = reply[r] /\ tried'[r] = tried[r]]_vars
  BY DEF Stable, Final
<1> QED
  BY <1>1, Inductive, StepKeeps, PTL DEF Spec, StatusIsFinal

\* Routing implements the ledger: with its failovers, streams, faults and
\* crashes, every step is one step of the ledger, for some usage, or none.
THEOREM ImplementsLedger == Spec => Book!Spec
<1>1. Stable => [Book!Next]_Book!vars
  BY DEF Stable
<1> QED
  BY <1>1, InitHolds, Inductive, StepKeeps, PTL DEF Spec, Book!Spec

\* So however requests are routed, a tenant's admissions in any trailing window
\* vouch for no more than the limit (ratelimit.py:8-9).
THEOREM RoutingKeepsLimit == Spec => []Ledger!EveryInstant
<1>1. Book!Init => Book!EveryInstant
  <2> SUFFICES ASSUME Book!Init, NEW t \in Tenants, NEW i \in 0 .. now
               PROVE  Book!Total(Book!Vouched(book, Book!Within(book, t, i))) <= Limit
    BY DEF Book!EveryInstant
  <2>1. Book!Units(Book!Vouched(book, Book!Within(book, t, i))) = {}
    BY DEF Book!Init, Book!Units, Book!Vouched, Book!Within
  <2>2. Book!Cardinality({}) = 0
    BY FS_EmptySet DEF Cardinality, Book!Cardinality
  <2> QED
    BY <2>1, <2>2, LimitAssumption DEF Book!Total
<1>2. IInv /\ IInv' /\ Stable /\ Book!EveryInstant => Book!EveryInstant'
  BY Book!EveryInstantStep, LedgerAssumptions, WindowAssumption, LimitAssumption
     DEF IInv, Shape, Stable
<1>3. Book!EveryInstant => Ledger!EveryInstant
  BY SameTotal DEF Book!EveryInstant, Ledger!EveryInstant, Book!Vouched, Ledger!Vouched,
     Book!Within, Ledger!Within, Book!Lesser, Ledger!Lesser
<1> QED
  BY <1>1, <1>2, <1>3, InitHolds, Inductive, StepKeeps, PTL DEF Spec
=============================================================================
