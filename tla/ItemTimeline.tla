---------------------------- MODULE ItemTimeline ----------------------------
(***************************************************************************)
(* How long a batch takes and how often it asks: runOne and                *)
(* runProviderRetry of internal/engine/batch.go with the clocks they run   *)
(* under, the deadline of an item, the limits of the checker's TLS         *)
(* handshake and of the HTTP client, the rate limiters, and the retries of *)
(* a request by pkg/abuse/providers/providers.go.  What BatchEngine takes  *)
(* for granted, that a turn of a provider ends, is the subject here; what  *)
(* is made of the answers is left to it.                                   *)
(*                                                                         *)
(* Time passes in ticks.  Everything that takes time has an until, at      *)
(* which it ends at the latest; what takes none has until = now.  A clock  *)
(* that has reached a deadline counts as past it.  Nobody cancels the      *)
(* batch: the command line, which alone asks providers, cannot.            *)
(***************************************************************************)
EXTENDS Integers, Sequences, FiniteSetsExt

CONSTANTS
    Batches,            \* what may be run: [endpoints, providers, workers], a
                        \* sequence of [named, port443] and two numbers
    Retriers,           \* size of the second pool
    Timeout,            \* BatchEngine.Timeout
    ClientTimeout,      \* the HTTP client's own limit, 10 s in the code
    RateLimitDelays, ServerDelays, TimeoutDelays,   \* pauses between requests
    Backoff,            \* providerRetryBackoff
    Interval, Burst     \* of every limiter: ticks per request, requests at once

Delays == Seq(Nat \ {0})

ASSUME ScheduleAssumption ==
    /\ RateLimitDelays \in Delays /\ ServerDelays \in Delays /\ TimeoutDelays \in Delays
    /\ Len(ServerDelays) <= Len(RateLimitDelays)
    /\ Len(TimeoutDelays) <= Len(RateLimitDelays)
ASSUME TimesAssumption ==
    /\ {Timeout, ClientTimeout, Interval, Burst, Retriers} \subseteq Nat \ {0}
    /\ Backoff \in Nat
ASSUME BatchesAssumption ==
    Batches \subseteq [endpoints: Seq([named: BOOLEAN, port443: BOOLEAN]),
                       providers: Nat, workers: Nat \ {0}]

VARIABLES
    batch,      \* what is run, one of Batches
    now,
    phase,      \* "first" round, "retries", "over"
    item,       \* per item: [at, until, deadline, started]
    checked,    \* the items that are through the first round, in that order
    ask,        \* per question: [at, until, deadline, attempt, round]
    next,       \* per provider: when its limiter would have a full bucket
    sent        \* history, per question: for each Check, the requests that went out

changing == <<now, phase, item, checked, ask, next, sent>>
vars     == <<batch, changing>>

Endpoints     == batch.endpoints
ProviderCount == batch.providers    \* asked in the order of their numbers

Items     == DOMAIN Endpoints
Providers == 1..ProviderCount
Questions == Items \X Providers

NotStarted == [at |-> "queued", until |-> 0, deadline |-> 0, started |-> 0]
NotAsked   == [at |-> "none", until |-> 0, deadline |-> 0, attempt |-> 0, round |-> 1]

Init ==
    /\ batch \in Batches
    /\ now = 0
    /\ phase = "first"
    /\ item = [i \in Items |-> NotStarted]
    /\ checked = <<>>
    /\ ask = [q \in Questions |-> NotAsked]
    /\ next = [p \in Providers |-> 0]
    /\ sent = [q \in Questions |-> <<>>]

Earlier(a, b) == IF a < b THEN a ELSE b
Later(a, b)   == IF a > b THEN a ELSE b

\* Items a worker is busy with, and those that clocks run for.
Busy  == {i \in Items : item[i].at \notin {"queued", "checked"}}
Timed == {i \in Items : item[i].at \in {"dialing", "handshake", "resolving"}}

\* Questions that clocks run for, and those retriers are busy with.
Asking   == {q \in Questions : ask[q].at \in {"turn", "waiting", "requesting", "reading", "sleeping", "backoff"}}
Pending  == {q \in Questions : ask[q].at = "pending"}
Retried  == {q \in Asking : ask[q].round = 2}

-----------------------------------------------------------------------------
(* runOne up to the providers.                                             *)

ItemMoves(i, at, until) == item' = [item EXCEPT ![i].at = at, ![i].until = until]

\* A worker takes an item; the deadline covers everything that follows.
StartItem(i) ==
    /\ phase = "first"
    /\ item[i].at = "queued"
    /\ Cardinality(Busy) < batch.workers
    /\ item' = [item EXCEPT ![i] = [at |-> "dialing", until |-> now + Timeout,
                                    deadline |-> now + Timeout, started |-> now]]
    /\ UNCHANGED <<now, phase, checked, ask, next, sent>>

\* Mutant of LookUp: the lookup has a limit of its own, as the handshake has.
LookUpInOwnTime(i) == ItemMoves(i, "resolving", IF Endpoints[i].named THEN now + Timeout ELSE now)

\* The lookup has what is left of the deadline.
LookUp(i) == ItemMoves(i, "resolving", IF Endpoints[i].named THEN Later(now, item[i].deadline) ELSE now)

\* CheckEndpoint: the connection attempt ends, by the deadline at the latest.
\* The handshake on port 443 has a limit of its own that starts now.
Dialed(i) ==
    /\ item[i].at = "dialing"
    /\ \/ /\ Endpoints[i].port443 /\ now < item[i].until
          /\ ItemMoves(i, "handshake", now + Timeout)
       \/ LookUp(i)
    /\ UNCHANGED <<now, phase, checked, ask, next, sent>>

\* Well or not.
HandshakeEnds(i) ==
    /\ item[i].at = "handshake"
    /\ LookUp(i)
    /\ UNCHANGED <<now, phase, checked, ask, next, sent>>

Checked(i) ==
    /\ ItemMoves(i, "checked", now)
    /\ checked' = Append(checked, i)

\* The question becomes due now.
Due(q, deadline) == [ask EXCEPT ![q].at = "turn", ![q].until = now, ![q].deadline = deadline]

\* A literal address needs no lookup, and a lookup no time once the deadline
\* has passed: then it fails.
Resolves(i) ==
    /\ item[i].at = "resolving"
    /\ Endpoints[i].named => now < item[i].deadline
    /\ IF ProviderCount = 0
         THEN Checked(i) /\ UNCHANGED ask
         ELSE /\ ItemMoves(i, "asking", now)
              /\ ask' = Due(<<i, 1>>, item[i].deadline)
              /\ UNCHANGED checked
    /\ UNCHANGED <<now, phase, next, sent>>

\* "dns resolution failed": no provider is asked, now or later.
ResolveFails(i) ==
    /\ item[i].at = "resolving"
    /\ Endpoints[i].named
    /\ Checked(i)
    /\ UNCHANGED <<now, phase, ask, next, sent>>

-----------------------------------------------------------------------------
(* A provider's turn.                                                      *)

\* The question of the first round is over: the next provider's turn begins, or
\* the item is through.  One of the retry round has no second retry.
Over(q, at) ==
    LET closed == [ask EXCEPT ![q].at = IF at = "pending" /\ ask[q].round = 2 THEN "failed" ELSE at]
        i      == q[1]
        after  == <<i, q[2] + 1>>
    IN  CASE ask[q].round = 2 ->
               ask' = closed /\ UNCHANGED <<item, checked>>
          [] ask[q].round = 1 /\ q[2] < ProviderCount ->
               /\ ask' = [closed EXCEPT ![after].at = "turn", ![after].until = now,
                                        ![after].deadline = item[i].deadline]
               /\ UNCHANGED <<item, checked>>
          [] OTHER -> ask' = closed /\ Checked(i)

AskMoves(q, at, until) ==
    /\ ask' = [ask EXCEPT ![q].at = at, ![q].until = until]
    /\ UNCHANGED <<item, checked>>

\* When the limiter lets the next request pass; its bucket holds Burst.
PassesAt(p) == Later(now, next[p] - (Burst - 1) * Interval)

\* In the first round a wait that would pass the deadline fails at once and
\* leaves the bucket as it is.
Refused(q) ==
    /\ ask[q].at = "turn"
    /\ ask[q].round = 1
    /\ now >= ask[q].deadline \/ PassesAt(q[2]) > ask[q].deadline
    /\ Over(q, "pending")
    /\ UNCHANGED <<now, phase, next, sent>>

\* Mutant of Reserved: a waiter takes nothing from the bucket.
ReservedWithoutWaiting(p) == [next EXCEPT ![p] = IF PassesAt(p) > now THEN @ ELSE Later(now, @) + Interval]

Reserved(p) == [next EXCEPT ![p] = Later(now, @) + Interval]

\* Otherwise a place is reserved.  A retry waits as long as it takes.
Granted(q) ==
    /\ ask[q].at = "turn"
    /\ ask[q].round = 1 => now < ask[q].deadline /\ PassesAt(q[2]) <= ask[q].deadline
    /\ AskMoves(q, "waiting", PassesAt(q[2]))
    /\ next' = Reserved(q[2])
    /\ UNCHANGED <<now, phase, sent>>

\* Mutant of DeadlineOf: the retry runs under the item's deadline.
DeadlineOfItem(q) == item[q[1]].deadline

\* A retry has a context of its own from here on.
DeadlineOf(q) == IF ask[q].round = 1 THEN ask[q].deadline ELSE now + Timeout

\* The record of a check's requests: the first of them opens a new one.
Noted(requests, attempt, went) ==
    IF attempt = 0 THEN Append(requests, went)
    ELSE [requests EXCEPT ![Len(requests)] = @ + went]

\* doSingleRequest: nothing is sent when the context is done already.
Request(q, attempt, deadline) ==
    /\ ask' = [ask EXCEPT ![q].at = "requesting", ![q].attempt = attempt, ![q].deadline = deadline,
                          ![q].until = Later(now, Earlier(deadline, now + ClientTimeout))]
    /\ sent' = [sent EXCEPT ![q] = Noted(@, attempt, IF now < deadline THEN 1 ELSE 0)]

\* The limiter lets the question pass: Check begins.
Passes(q) ==
    /\ ask[q].at = "waiting"
    /\ now = ask[q].until
    /\ Request(q, 0, DeadlineOf(q))
    /\ UNCHANGED <<now, phase, item, checked, next>>

\* The wait ends with the context, which gives the place back if it was the
\* last one reserved.
WaitCancelled(q) ==
    /\ ask[q].at = "waiting"
    /\ ask[q].round = 1
    /\ now >= ask[q].deadline
    /\ Over(q, "pending")
    /\ next' = [next EXCEPT ![q[2]] = IF @ = ask[q].until + Burst * Interval THEN @ - Interval ELSE @]
    /\ UNCHANGED <<now, phase, sent>>

-----------------------------------------------------------------------------
(* Check: doRequest and the reading of the answer.                         *)

Schedule(failure) ==
    CASE failure = "limited" -> RateLimitDelays
      [] failure = "server"  -> ServerDelays
      [] failure = "timeout" -> TimeoutDelays
      [] OTHER               -> <<>>

\* Mutant of RetryDelay: each kind of failure has a counter of its own.
RetryDelayPerKind(failure, attempt) ==
    IF attempt \in 0..(Len(RateLimitDelays) + Len(ServerDelays) - 1)
    THEN << RateLimitDelays[1] >> ELSE <<>>

\* retryDelay: the one counter of attempts is an index into the schedule of
\* the failure at hand; the pause, or nothing.
RetryDelay(failure, attempt) ==
    LET delays == Schedule(failure)
    IN  IF attempt < Len(delays) THEN << delays[attempt + 1] >> ELSE <<>>

\* One request fails: 429, a status of 500 or more, another status, an error of
\* the connection, or a timeout, which is all that is left at the deadline.
RequestFails(q, failure) ==
    /\ ask[q].at = "requesting"
    /\ failure # "timeout" => now < ask[q].deadline
    /\ LET delay == RetryDelay(failure, ask[q].attempt)
       IN  IF delay # <<>>
           THEN AskMoves(q, "sleeping", Later(now, Earlier(now + delay[1], ask[q].deadline)))
           ELSE Over(q, IF failure \in {"limited", "timeout"} THEN "pending" ELSE "failed")
    /\ UNCHANGED <<now, phase, next, sent>>

\* sleepContext ends: the request is sent again, unless time was up first.
SleepEnds(q) ==
    /\ ask[q].at = "sleeping"
    /\ now = ask[q].until
    /\ IF now < ask[q].deadline
         THEN Request(q, ask[q].attempt + 1, ask[q].deadline) /\ UNCHANGED <<item, checked>>
         ELSE Over(q, "pending") /\ UNCHANGED sent
    /\ UNCHANGED <<now, phase, next>>

\* A status of 2xx; the body is read under the same limits.
RequestAnswered(q) ==
    /\ ask[q].at = "requesting"
    /\ now < ask[q].deadline
    /\ AskMoves(q, "reading", ask[q].until)
    /\ UNCHANGED <<now, phase, next, sent>>

\* requestJSON, requestText: a body that is read, one that is malformed, or one
\* that does not come in time, which counts as a timeout but is not retried here.
ReadEnds(q, outcome) ==
    /\ ask[q].at = "reading"
    /\ IF outcome = "pending" THEN now = ask[q].until ELSE now < ask[q].deadline
    /\ Over(q, outcome)
    /\ UNCHANGED <<now, phase, next, sent>>

-----------------------------------------------------------------------------
(* The retry round.                                                        *)

BeginRetries ==
    /\ phase = "first"
    /\ Len(checked) = Len(Endpoints)
    /\ phase' = "retries"
    /\ UNCHANGED <<now, item, checked, ask, next, sent>>

\* Jobs are planned item by item, in the order of the items.
FirstPending(q) ==
    /\ q \in Pending
    /\ \A r \in Pending :
          LET Place(i) == CHOOSE n \in DOMAIN checked : checked[n] = i
          IN  Place(q[1]) < Place(r[1]) \/ (q[1] = r[1] /\ q[2] <= r[2])

\* A retrier takes the next job and sleeps first.
StartRetry(q) ==
    /\ phase = "retries"
    /\ FirstPending(q)
    /\ Cardinality(Retried) < Retriers
    /\ ask' = [ask EXCEPT ![q].at = "backoff", ![q].until = now + Backoff, ![q].round = 2]
    /\ UNCHANGED <<now, phase, item, checked, next, sent>>

BackoffEnds(q) ==
    /\ ask[q].at = "backoff"
    /\ now = ask[q].until
    /\ AskMoves(q, "turn", now)
    /\ UNCHANGED <<now, phase, next, sent>>

\* Mutant of Finish: the last retrier to end does not look for more jobs.
FinishWithJobsLeft ==
    /\ phase = "retries"
    /\ Asking = {}
    /\ phase' = "over"
    /\ UNCHANGED <<now, item, checked, ask, next, sent>>

Finish ==
    /\ phase = "retries"
    /\ Asking \cup Pending = {}
    /\ phase' = "over"
    /\ UNCHANGED <<now, item, checked, ask, next, sent>>

\* Time passes while nothing has to happen first.
Tick ==
    /\ \A i \in Timed : now < item[i].until
    /\ \A q \in Asking : now < ask[q].until
    /\ phase = "first" =>
          /\ Len(checked) < Len(Endpoints)
          /\ Cardinality(Busy) = batch.workers \/ \A i \in Items : item[i].at # "queued"
    /\ phase = "retries" =>
          /\ Asking \cup Pending # {}
          /\ Cardinality(Retried) = Retriers \/ Pending = {}
    /\ phase # "over"
    /\ now' = now + 1
    /\ UNCHANGED <<phase, item, checked, ask, next, sent>>

ItemStep(i) == StartItem(i) \/ Dialed(i) \/ HandshakeEnds(i) \/ Resolves(i) \/ ResolveFails(i)

QuestionStep(q) ==
    \/ Refused(q) \/ Granted(q) \/ Passes(q) \/ WaitCancelled(q)
    \/ \E failure \in {"limited", "server", "status", "connection", "timeout"} : RequestFails(q, failure)
    \/ SleepEnds(q) \/ RequestAnswered(q)
    \/ \E outcome \in {"answered", "failed", "pending"} : ReadEnds(q, outcome)
    \/ StartRetry(q) \/ BackoffEnds(q)

Next ==
    /\ \/ Tick \/ BeginRetries \/ Finish
       \/ \E i \in Items : ItemStep(i)
       \/ \E q \in Questions : QuestionStep(q)
    /\ UNCHANGED batch

Spec == Init /\ [][Next]_vars

\* Time passes, and what is due happens.
FairSpec == Spec /\ WF_vars(Next)

-----------------------------------------------------------------------------
(* Properties.                                                             *)

\* The requests one call of Check may send.
PerCheck == 1 + Len(RateLimitDelays)

\* However 429, server errors and timeouts mix (doRequest, providers.go
\* 78-103), a question is checked at most once in each round, and a check sends
\* at most PerCheck requests.
RequestsBounded ==
    \A q \in Questions :
        /\ Len(sent[q]) <= ask[q].round
        /\ \A check \in DOMAIN sent[q] : sent[q][check] <= PerCheck

\* The checks of provider p that have begun, each an item and a number.
Checks(p) == UNION {{i} \X DOMAIN sent[<<i, p>>] : i \in Items}

\* The limiter bounds how often a provider is asked in any time, whatever waits
\* are given up and however the retry round mixes with the first (batch.go
\* 241-246, 371); what a provider gets is PerCheck times as much.
BudgetHeld == \A p \in Providers : Cardinality(Checks(p)) <= Burst + now \div Interval

\* A worker is done with its item by the deadline, or by twice the time when a
\* handshake began just before it; nothing that follows takes any time then.
ItemInTime ==
    \A i \in Busy : now <= item[i].started + (IF Endpoints[i].port443 THEN 2 * Timeout ELSE Timeout)

\* A provider is not reported to have failed without having been asked: if the
\* first round had no time for it, the retry has.
NeverUnasked == \A q \in Questions : ask[q].at = "failed" => \E check \in DOMAIN sent[q] : sent[q][check] > 0

MayBeAsked == UNION {(DOMAIN b.endpoints) \X (1..b.providers) : b \in Batches}

\* Every question that comes up is settled in the end.
QuestionsSettle ==
    \A q \in MayBeAsked :
        (q \in Questions /\ ask[q].at = "turn")
            ~> (q \in Questions /\ ask[q].at \in {"answered", "failed"})
=============================================================================
