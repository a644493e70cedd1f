----------------------------- MODULE BatchEngine -----------------------------
(***************************************************************************)
(* BatchEngine.Run of internal/engine/batch.go: a pool of workers checks   *)
(* endpoints and asks the providers about them, a collector gathers the    *)
(* items and reports progress, and when all is gathered the providers that *)
(* timed out are asked once more by a second, smaller pool.                *)
(*                                                                         *)
(* Goroutines are processes: the caller of Run ("main"), the workers, the  *)
(* closer of results, the collector, the retry sender, the retriers.  The  *)
(* unbuffered channels jobs and jobCh are rendezvous steps, the buffered   *)
(* ones are sequences, and closing a channel sets its flag.                *)
(***************************************************************************)
EXTENDS BatchItems

CONSTANTS
    ConfWorkers,    \* e.Workers, as configured
    Reports,        \* the reports a provider may return
    Configs,        \* the combinations of sort, filter and abuse to run with
    MayCancel       \* may the caller's context be cancelled during the run

ASSUME ConfWorkersAssumption == ConfWorkers \in Int
Countries == {NoCountry} \cup {r.country : r \in Reports}

ASSUME ReportsAssumption == Reports \subseteq Report(Countries)
ASSUME ConfigsAssumption ==
    Configs \subseteq [sort: STRING, filter: STRING, abuse: BOOLEAN]
ASSUME MayCancelAssumption == MayCancel \in BOOLEAN

\* Run 48-51 and retryProviderTimeouts 314-320: how many goroutines.
PoolSize  == IF ConfWorkers <= 0 THEN 8 ELSE ConfWorkers
RetrySize == LET quarter == PoolSize \div 4
             IN  IF quarter < 1 THEN 1 ELSE IF quarter > 4 THEN 4 ELSE quarter

Workers  == 1..PoolSize
Retriers == 1..RetrySize

VARIABLES
    conf,           \* the options of this run
    cancelled,      \* ctx is done
    main,           \* where the caller of Run is
    next,           \* position of the next endpoint to send
    jobsClosed,     \* jobs is closed
    worker,         \* per worker: where it is, its item, its item's deadline
    results,        \* the channel of finished items
    resultsClosed,
    collector,      \* where the collecting goroutine is
    items,          \* the gathered items
    reported,       \* the last count given to Progress and ResultProgress
    planned,        \* items already scanned for pending providers
    retryJobs,      \* the jobs of the retry phase
    retryNext,      \* index of the next retry job to send
    retryClosed,    \* jobCh is closed
    retrier,        \* per retrier: where it is and the index of its job
    retryResults,   \* the channel of retry results
    retryResultsClosed,
    answer          \* what Run returned: the visible items and the summary

poolVars  == <<next, jobsClosed, worker, results, resultsClosed>>
retryVars == <<planned, retryJobs, retryNext, retryClosed, retrier,
               retryResults, retryResultsClosed>>
vars == <<conf, cancelled, main, poolVars, collector, items, reported,
          retryVars, answer>>

-----------------------------------------------------------------------------
(* Items and errors.                                                       *)

ErrorKinds == {"timeout", "rate limited", "deadline exceeded", "cancelled", "other"}

\* isRetryableProviderError.
Retryable(err) == err # "other"

\* The item of runOne 221 before anything is known about the address.
NewItem(at, reachable) ==
    [at |-> at, reachable |-> reachable, latency |-> Endpoints[at].latency,
     score |-> 0, purity |-> "unknown", country |-> NoCountry,
     total |-> 0, successes |-> 0, results |-> <<>>, errs |-> <<>>, pending |-> <<>>]

Result(provider, report) == [provider |-> provider, report |-> NormalizeResult(report)]

IdleWorker == [pc |-> "idle", at |-> 0, late |-> FALSE, asked |-> 0, item |-> <<>>]

IdleRetrier == [pc |-> "idle", job |-> 0]

\* itemCtx: derived from ctx, with a deadline of its own.
ItemLive(w) == ~cancelled /\ ~worker[w].late

Init ==
    /\ conf \in Configs
    /\ cancelled = FALSE
    /\ main = "start"
    /\ next = 1
    /\ jobsClosed = FALSE
    /\ worker = [w \in Workers |-> IdleWorker]
    /\ results = <<>>
    /\ resultsClosed = FALSE
    /\ collector = "receiving"
    /\ items = <<>>
    /\ reported = 0
    /\ planned = 0
    /\ retryJobs = <<>>
    /\ retryNext = 1
    /\ retryClosed = FALSE
    /\ retrier = [v \in Retriers |-> IdleRetrier]
    /\ retryResults = <<>>
    /\ retryResultsClosed = FALSE
    /\ answer = <<>>

-----------------------------------------------------------------------------
(* The caller of Run: validation, sending, waiting.                        *)

ValidInput == /\ Endpoints # <<>>
              /\ conf.sort \in SortModes
              /\ conf.filter \in FilterModes

Reject ==
    /\ main = "start"
    /\ ~ValidInput
    /\ main' = "rejected"
    /\ UNCHANGED <<conf, cancelled, poolVars, collector, items, reported, retryVars, answer>>

Begin ==
    /\ main = "start"
    /\ ValidInput
    /\ main' = "sending"
    /\ UNCHANGED <<conf, cancelled, poolVars, collector, items, reported, retryVars, answer>>

\* jobs <- ep meets the receive of an idle worker.
Dispatch(w) ==
    /\ main = "sending"
    /\ next \in Positions
    /\ worker[w].pc = "idle"
    /\ worker' = [worker EXCEPT ![w] = [IdleWorker EXCEPT !.pc = "checking", !.at = next]]
    /\ next' = next + 1
    /\ UNCHANGED <<conf, cancelled, main, jobsClosed, results, resultsClosed,
                   collector, items, reported, retryVars, answer>>

\* Mutant of StopSending: a cancelled run leaves jobs open.
StopSendingCancelledOpen ==
    /\ main = "sending"
    /\ next \notin Positions \/ cancelled
    /\ jobsClosed' = ~cancelled
    /\ main' = "waiting"
    /\ UNCHANGED <<conf, cancelled, next, worker, results, resultsClosed,
                   collector, items, reported, retryVars, answer>>

\* Everything is sent, or <-ctx.Done() was chosen: close(jobs).
StopSending ==
    /\ main = "sending"
    /\ next \notin Positions \/ cancelled
    /\ jobsClosed' = TRUE
    /\ main' = "waiting"
    /\ UNCHANGED <<conf, cancelled, next, worker, results, resultsClosed,
                   collector, items, reported, retryVars, answer>>

-----------------------------------------------------------------------------
(* A worker: runOne, step by step, and the send of its item.               *)

KeepAllButWorker ==
    UNCHANGED <<conf, cancelled, main, next, jobsClosed, results, resultsClosed,
                collector, items, reported, retryVars, answer>>

\* The deadline of the item's own context passes.
ItemDeadline(w) ==
    /\ worker[w].pc \in {"checking", "resolving", "asking"}
    /\ ~worker[w].late
    /\ worker' = [worker EXCEPT ![w].late = TRUE]
    /\ KeepAllButWorker

\* Mutant of CheckReturns: a reachable endpoint is clean, --abuse or not.
CheckReturnsClean(w) ==
    /\ worker[w].pc = "checking"
    /\ \E reachable \in BOOLEAN :
        /\ reachable => ItemLive(w)
        /\ LET item == NewItem(worker[w].at, reachable)
           IN  worker' = [worker EXCEPT
                 ![w].item = IF reachable THEN [item EXCEPT !.purity = "clean"] ELSE item,
                 ![w].pc   = IF conf.abuse THEN "resolving" ELSE "sending"]
    /\ KeepAllButWorker

\* check returns; without --abuse the item is complete.
CheckReturns(w) ==
    /\ worker[w].pc = "checking"
    /\ \E reachable \in BOOLEAN :
        /\ reachable => ItemLive(w)
        /\ LET item == NewItem(worker[w].at, reachable)
           IN  worker' = [worker EXCEPT
                 ![w].item = IF ~conf.abuse /\ reachable
                               THEN [item EXCEPT !.purity = "clean"] ELSE item,
                 ![w].pc   = IF conf.abuse THEN "resolving" ELSE "sending"]
    /\ KeepAllButWorker

\* The address to ask about: the host itself, or what its name resolves to.
Resolve(w) ==
    /\ worker[w].pc = "resolving"
    /\ ~Endpoints[worker[w].at].named \/ ItemLive(w)
    /\ worker' = [worker EXCEPT ![w].pc = "asking",
                                ![w].asked = 0,
                                ![w].item.total = Len(Providers)]
    /\ KeepAllButWorker

ResolveFails(w) ==
    /\ worker[w].pc = "resolving"
    /\ Endpoints[worker[w].at].named
    /\ worker' = [worker EXCEPT ![w].pc = "sending",
                                ![w].item.errs = Append(@, DnsFailed)]
    /\ KeepAllButWorker

\* The next provider of the list is asked: its limiter's Wait, then Check.
Asking(w) == worker[w].pc = "asking" /\ worker[w].asked < Len(Providers)
NextProvider(w) == Providers[worker[w].asked + 1]

LimiterRefuses(w) ==
    /\ Asking(w)
    /\ worker' = [worker EXCEPT ![w].asked = @ + 1,
                                ![w].item.pending = Append(@, NextProvider(w))]
    /\ KeepAllButWorker

ProviderFails(w) ==
    /\ Asking(w)
    /\ \E err \in ErrorKinds :
        /\ ~Retryable(err) => ItemLive(w)
        /\ worker' = [worker EXCEPT
             ![w].asked = @ + 1,
             ![w].item.pending = IF Retryable(err) THEN Append(@, NextProvider(w)) ELSE @,
             ![w].item.errs = IF Retryable(err) THEN @ ELSE Append(@, NextProvider(w))]
    /\ KeepAllButWorker

ProviderAnswers(w) ==
    /\ Asking(w)
    /\ ItemLive(w)
    /\ \E report \in Reports :
         worker' = [worker EXCEPT
             ![w].asked = @ + 1,
             ![w].item.results = Append(@, Result(NextProvider(w), report))]
    /\ KeepAllButWorker

\* All providers were asked: runOne 258-261.
MergeItem(w) ==
    /\ worker[w].pc = "asking"
    /\ worker[w].asked = Len(Providers)
    /\ LET item == worker[w].item
       IN  worker' = [worker EXCEPT
             ![w].pc = "sending",
             ![w].item = ApplyMerged([item EXCEPT !.successes = Len(item.results)])]
    /\ KeepAllButWorker

\* Mutant of Emit: the send gives up on a cancelled context.
EmitUnlessCancelled(w) ==
    /\ worker[w].pc = "sending"
    /\ Len(results) < Len(Endpoints)
    /\ results' = IF cancelled THEN results ELSE Append(results, worker[w].item)
    /\ worker' = [worker EXCEPT ![w] = IdleWorker]
    /\ UNCHANGED <<conf, cancelled, main, next, jobsClosed, resultsClosed,
                   collector, items, reported, retryVars, answer>>

\* results <- item; the channel holds as many items as there are endpoints.
Emit(w) ==
    /\ worker[w].pc = "sending"
    /\ Len(results) < Len(Endpoints)
    /\ results' = Append(results, worker[w].item)
    /\ worker' = [worker EXCEPT ![w] = IdleWorker]
    /\ UNCHANGED <<conf, cancelled, main, next, jobsClosed, resultsClosed,
                   collector, items, reported, retryVars, answer>>

WorkerExits(w) ==
    /\ worker[w].pc = "idle"
    /\ jobsClosed
    /\ worker' = [worker EXCEPT ![w].pc = "exited"]
    /\ KeepAllButWorker

-----------------------------------------------------------------------------
(* The closer of results and the collector.                                *)

\* wg.Wait, close(results).
CloseResults ==
    /\ ~resultsClosed
    /\ \A w \in Workers : worker[w].pc = "exited"
    /\ resultsClosed' = TRUE
    /\ UNCHANGED <<conf, cancelled, main, next, jobsClosed, worker, results,
                   collector, items, reported, retryVars, answer>>

Collect ==
    /\ collector = "receiving"
    /\ results # <<>>
    /\ items' = Append(items, Head(results))
    /\ results' = Tail(results)
    /\ collector' = "reporting"
    /\ UNCHANGED <<conf, cancelled, main, next, jobsClosed, worker, resultsClosed,
                   reported, retryVars, answer>>

\* e.Progress and e.ResultProgress, with the item just appended.
ReportProgress ==
    /\ collector = "reporting"
    /\ reported' = reported + 1
    /\ collector' = "receiving"
    /\ UNCHANGED <<conf, cancelled, main, poolVars, items, retryVars, answer>>

\* Mutant of CollectorDone: the collector leaves when the context is done.
CollectorLeaves ==
    /\ collector = "receiving"
    /\ cancelled \/ (results = <<>> /\ resultsClosed)
    /\ collector' = "done"
    /\ UNCHANGED <<conf, cancelled, main, poolVars, items, reported, retryVars, answer>>

\* results is closed and drained: close(done).
CollectorDone ==
    /\ collector = "receiving"
    /\ results = <<>>
    /\ resultsClosed
    /\ collector' = "done"
    /\ UNCHANGED <<conf, cancelled, main, poolVars, items, reported, retryVars, answer>>

-----------------------------------------------------------------------------
(* retryProviderTimeouts.                                                  *)

\* Mutant of GatheringDone: main waits for the workers, not for the collector.
GatheringAssumed ==
    /\ main = "waiting"
    /\ resultsClosed
    /\ main' = IF conf.abuse THEN "planning" ELSE "finishing"
    /\ UNCHANGED <<conf, cancelled, poolVars, collector, items, reported, retryVars, answer>>

\* <-done: without --abuse there is nothing to retry.
GatheringDone ==
    /\ main = "waiting"
    /\ collector = "done"
    /\ main' = IF conf.abuse THEN "planning" ELSE "finishing"
    /\ UNCHANGED <<conf, cancelled, poolVars, collector, items, reported, retryVars, answer>>

\* uniqueProviderNames.
Unique(names) ==
    Keep(names, {k \in DOMAIN names : \A j \in 1..(k - 1) : names[j] # names[k]})

\* Mutant of PlanItem: what is planned stays pending.
PlanItemKeepsPending ==
    /\ main = "planning"
    /\ planned < Len(items)
    /\ LET i     == planned + 1
           names == Unique(items[i].pending)
       IN  /\ retryJobs' = retryJobs \o
                 [k \in DOMAIN names |-> [index |-> i, provider |-> names[k]]]
           /\ planned' = i
    /\ UNCHANGED <<conf, cancelled, main, poolVars, collector, items, reported, retryNext,
                   retryClosed, retrier, retryResults, retryResultsClosed, answer>>

\* Mutant of PlanItem: the job names the item before.
PlanItemBefore ==
    /\ main = "planning"
    /\ planned < Len(items)
    /\ LET i     == planned + 1
           names == Unique(items[i].pending)
       IN  /\ retryJobs' = retryJobs \o
                 [k \in DOMAIN names |-> [index |-> planned, provider |-> names[k]]]
           /\ items' = [items EXCEPT ![i].pending = <<>>]
           /\ planned' = i
    /\ UNCHANGED <<conf, cancelled, main, poolVars, collector, reported, retryNext,
                   retryClosed, retrier, retryResults, retryResultsClosed, answer>>

\* One iteration of the loop over the items (289-306): a job for each pending
\* provider, and the pending list is cleared before any job is sent.  Every
\* pending name is a provider's, so the branch 298-301 is never taken.
PlanItem ==
    /\ main = "planning"
    /\ planned < Len(items)
    /\ LET i     == planned + 1
           names == Unique(items[i].pending)
       IN  /\ retryJobs' = retryJobs \o
                 [k \in DOMAIN names |-> [index |-> i, provider |-> names[k]]]
           /\ items' = [items EXCEPT ![i].pending = <<>>]
           /\ planned' = i
    /\ UNCHANGED <<conf, cancelled, main, poolVars, collector, reported, retryNext,
                   retryClosed, retrier, retryResults, retryResultsClosed, answer>>

\* Return when there is no job, else start the retriers and the sender.
PlanDone ==
    /\ main = "planning"
    /\ planned = Len(items)
    /\ main' = IF retryJobs = <<>> THEN "finishing" ELSE "retrying"
    /\ UNCHANGED <<conf, cancelled, poolVars, collector, items, reported, retryVars, answer>>

\* jobCh <- job meets the receive of an idle retrier.
SendRetry(v) ==
    /\ main = "retrying"
    /\ ~retryClosed
    /\ retryNext \in DOMAIN retryJobs
    /\ retrier[v].pc = "idle"
    /\ retrier' = [retrier EXCEPT ![v] = [pc |-> "asking", job |-> retryNext]]
    /\ retryNext' = retryNext + 1
    /\ UNCHANGED <<conf, cancelled, main, poolVars, collector, items, reported, planned,
                   retryJobs, retryClosed, retryResults, retryResultsClosed, answer>>

\* Everything is sent, or <-ctx.Done() was chosen: close(jobCh).
StopRetrying ==
    /\ main = "retrying"
    /\ ~retryClosed
    /\ retryNext \notin DOMAIN retryJobs \/ cancelled
    /\ retryClosed' = TRUE
    /\ UNCHANGED <<conf, cancelled, main, poolVars, collector, items, reported, planned,
                   retryJobs, retryNext, retrier, retryResults, retryResultsClosed, answer>>

\* runProviderRetry and resultCh <- its result: backoff, limiter and Check end
\* in a report or in an error.  A cancelled ctx fails each of the three.
RetryOutcome(v, reports, errs) ==
    /\ retrier[v].pc = "asking"
    /\ retryResults' = Append(retryResults,
                          [job |-> retrier[v].job, results |-> reports, errs |-> errs])
    /\ retrier' = [retrier EXCEPT ![v] = IdleRetrier]
    /\ UNCHANGED <<conf, cancelled, main, poolVars, collector, items, reported, planned,
                   retryJobs, retryNext, retryClosed, retryResultsClosed, answer>>

RetriedProvider(v) == retryJobs[retrier[v].job].provider

\* Mutant of RetryFails: the second failure is not recorded.
RetryFailsSilently(v) == RetryOutcome(v, <<>>, <<>>)

RetryFails(v) == RetryOutcome(v, <<>>, <<RetriedProvider(v)>>)

RetryAnswers(v) ==
    /\ ~cancelled
    /\ \E report \in Reports :
         RetryOutcome(v, <<Result(RetriedProvider(v), report)>>, <<>>)

RetrierExits(v) ==
    /\ retrier[v].pc = "idle"
    /\ retryClosed
    /\ retrier' = [retrier EXCEPT ![v].pc = "exited"]
    /\ UNCHANGED <<conf, cancelled, main, poolVars, collector, items, reported, planned,
                   retryJobs, retryNext, retryClosed, retryResults,
                   retryResultsClosed, answer>>

\* Mutant of CloseRetryResults: nobody waits for the retriers.
CloseRetryResultsEarly ==
    /\ retryClosed
    /\ ~retryResultsClosed
    /\ retryResultsClosed' = TRUE
    /\ UNCHANGED <<conf, cancelled, main, poolVars, collector, items, reported, planned,
                   retryJobs, retryNext, retryClosed, retrier, retryResults, answer>>

\* wg.Wait, close(resultCh).
CloseRetryResults ==
    /\ retryClosed
    /\ ~retryResultsClosed
    /\ \A v \in Retriers : retrier[v].pc = "exited"
    /\ retryResultsClosed' = TRUE
    /\ UNCHANGED <<conf, cancelled, main, poolVars, collector, items, reported, planned,
                   retryJobs, retryNext, retryClosed, retrier, retryResults, answer>>

\* Mutant of Absorbed: the verdict stays the one of the first round.
AbsorbedUnmerged(item, outcome) ==
    LET told == [item EXCEPT !.results = @ \o outcome.results,
                             !.errs = @ \o outcome.errs]
    IN  [told EXCEPT !.successes = Len(told.results)]

\* Mutant of Absorbed: a late answer takes the place of the earlier ones.
AbsorbedInstead(item, outcome) ==
    LET told == [item EXCEPT !.results = outcome.results,
                             !.errs = @ \o outcome.errs]
    IN  ApplyMerged([told EXCEPT !.successes = Len(told.results)])

\* One iteration of the loop over resultCh: 348-362.
Absorbed(item, outcome) ==
    LET told == [item EXCEPT !.results = @ \o outcome.results,
                             !.errs = @ \o outcome.errs]
    IN  ApplyMerged([told EXCEPT !.successes = Len(told.results)])

AbsorbRetry ==
    /\ main = "retrying"
    /\ retryResults # <<>>
    /\ LET outcome == Head(retryResults)
           index   == retryJobs[outcome.job].index
       IN  items' = [items EXCEPT ![index] = Absorbed(items[index], outcome)]
    /\ retryResults' = Tail(retryResults)
    /\ UNCHANGED <<conf, cancelled, main, poolVars, collector, reported, planned, retryJobs,
                   retryNext, retryClosed, retrier, retryResultsClosed, answer>>

\* Mutant of RetriesDrained: Run goes on once every retry was sent.
RetriesSent ==
    /\ main = "retrying"
    /\ retryClosed
    /\ main' = "finishing"
    /\ UNCHANGED <<conf, cancelled, poolVars, collector, items, reported, retryVars, answer>>

\* resultCh is closed and drained.
RetriesDrained ==
    /\ main = "retrying"
    /\ retryResults = <<>>
    /\ retryResultsClosed
    /\ main' = "finishing"
    /\ UNCHANGED <<conf, cancelled, poolVars, collector, items, reported, retryVars, answer>>

\* Run 121-128: filter, sort, summarise all items.
Finish ==
    /\ main = "finishing"
    /\ answer' = [visible |-> SortItems(FilterItems(items, conf.filter), conf.sort),
                  summary |-> Summarize(items)]
    /\ main' = "returned"
    /\ UNCHANGED <<conf, cancelled, poolVars, collector, items, reported, retryVars>>

-----------------------------------------------------------------------------
\* The caller's context is cancelled, or its deadline passes.
Cancel ==
    /\ MayCancel
    /\ ~cancelled
    /\ main \notin {"returned", "rejected"}
    /\ cancelled' = TRUE
    /\ UNCHANGED <<conf, main, poolVars, collector, items, reported, retryVars, answer>>

WorkerStep(w) ==
    \/ CheckReturns(w) \/ Resolve(w) \/ ResolveFails(w)
    \/ LimiterRefuses(w) \/ ProviderFails(w) \/ ProviderAnswers(w)
    \/ MergeItem(w) \/ Emit(w) \/ WorkerExits(w)

RetrierStep(v) == RetryFails(v) \/ RetryAnswers(v) \/ RetrierExits(v)

MainStep ==
    \/ Reject \/ Begin \/ StopSending \/ (\E w \in Workers : Dispatch(w))
    \/ GatheringDone \/ PlanItem \/ PlanDone \/ AbsorbRetry \/ RetriesDrained \/ Finish

SenderStep == StopRetrying \/ CloseRetryResults \/ \E v \in Retriers : SendRetry(v)

CollectorStep == Collect \/ ReportProgress \/ CollectorDone

Next ==
    \/ MainStep
    \/ \E w \in Workers : WorkerStep(w) \/ ItemDeadline(w)
    \/ CloseResults
    \/ CollectorStep
    \/ SenderStep
    \/ \E v \in Retriers : RetrierStep(v)
    \/ Cancel

Spec == Init /\ [][Next]_vars

\* Every goroutine keeps running: a connection attempt, a lookup and a request
\* end by their context's deadline at the latest, and the callbacks return.
\* Nothing makes the caller cancel or a deadline pass.
Fairness ==
    /\ WF_vars(MainStep)
    /\ \A w \in Workers : WF_vars(WorkerStep(w))
    /\ WF_vars(CloseResults)
    /\ WF_vars(CollectorStep)
    /\ WF_vars(SenderStep)
    /\ \A v \in Retriers : WF_vars(RetrierStep(v))

FairSpec == Spec /\ Fairness

-----------------------------------------------------------------------------
(* Types.                                                                  *)

ResultSet == [provider: ProviderNames, report: Report(Countries)]

Item ==
    [at: Positions, reachable: BOOLEAN, latency: Nat, score: 0..100,
     purity: Verdicts, country: Countries, total: Nat, successes: Nat,
     results: Seq(ResultSet), errs: Seq(ProviderNames \cup {DnsFailed}),
     pending: Seq(ProviderNames)]

Phases == {"start", "sending", "waiting", "planning", "retrying", "finishing",
           "returned", "rejected"}

WorkerPcs == {"idle", "checking", "resolving", "asking", "sending", "exited"}

PoolTypeOK ==
    /\ conf \in Configs
    /\ cancelled \in BOOLEAN
    /\ main \in Phases
    /\ next \in 1..(Len(Endpoints) + 1)
    /\ jobsClosed \in BOOLEAN
    /\ worker \in [Workers -> [pc: WorkerPcs, at: Positions \cup {0}, late: BOOLEAN,
                               asked: 0..Len(Providers), item: Item \cup {<<>>}]]
    /\ results \in Seq(Item)
    /\ resultsClosed \in BOOLEAN
    /\ collector \in {"receiving", "reporting", "done"}
    /\ items \in Seq(Item)
    /\ reported \in Nat

RetryTypeOK ==
    /\ planned \in 0..Len(items)
    /\ retryJobs \in Seq([index: 1..Len(items), provider: ProviderNames])
    /\ retryNext \in 1..(Len(retryJobs) + 1)
    /\ retryClosed \in BOOLEAN
    /\ retrier \in [Retriers -> [pc: {"idle", "asking", "exited"},
                                 job: 0..Len(retryJobs)]]
    /\ retryResults \in Seq([job: 1..Len(retryJobs), results: Seq(ResultSet),
                             errs: Seq(ProviderNames)])
    /\ retryResultsClosed \in BOOLEAN

AnswerTypeOK ==
    main = "returned" =>
        /\ answer.visible \in Seq(Item)
        /\ answer.summary \in [total: Nat, reachable: Nat, unreachable: Nat, abusive: Nat,
                              suspicious: Nat, clean: Nat, errors: Nat, avgLatency: Nat]

\* Every variable has its type; a running worker has an endpoint, and one that
\* is past the connection check has an item for it.
TypeOK == PoolTypeOK /\ RetryTypeOK /\ AnswerTypeOK

-----------------------------------------------------------------------------
(* Safety.                                                                 *)

Busy(w) == worker[w].pc \notin {"idle", "exited"}

\* No endpoint is lost, doubled or handed to two workers: each one sent so far
\* is in exactly one place, a worker, the results channel or the gathered items.
Held     == {w \in Workers : Busy(w)}
InPool   == {worker[w].at : w \in Held}
InTransit == {results[i].at : i \in DOMAIN results}
Gathered == {items[i].at : i \in DOMAIN items}

NothingLost == InPool \cup InTransit \cup Gathered = 1..(next - 1)

NothingDoubled ==
    /\ \A v, w \in Held : worker[v].at = worker[w].at => v = w
    /\ \A i, j \in DOMAIN results : results[i].at = results[j].at => i = j
    /\ \A i, j \in DOMAIN items : items[i].at = items[j].at => i = j
    /\ InPool \cap InTransit = {}
    /\ InPool \cap Gathered = {}
    /\ InTransit \cap Gathered = {}

EachEndpointOnce == NothingLost /\ NothingDoubled

\* A send on a closed channel panics: nobody is left who could send when
\* results is closed (batch.go 83-86) or resultCh is (344-345).
NoSendOnClosedChannel ==
    /\ resultsClosed => \A w \in Workers : worker[w].pc = "exited"
    /\ retryResultsClosed => \A v \in Retriers : retrier[v].pc = "exited"

\* The items are written by the collector until main reads them (116-128): from
\* then on no worker runs, every item was reported, and every endpoint was
\* answered unless the context was cancelled.
GatheredBeforeUse ==
    main \in {"planning", "retrying", "finishing", "returned"} =>
        /\ \A w \in Workers : ~Busy(w)
        /\ results = <<>>
        /\ reported = Len(items)
        /\ ~cancelled => Gathered = Positions

\* The count given to the callbacks is never ahead of the items, and lags by
\* at most the item being reported.
ProgressExact ==
    reported = IF collector = "reporting" THEN Len(items) - 1 ELSE Len(items)

\* Where a provider's answer for an item can be.
Told(item)    == {item.results[k].provider : k \in DOMAIN item.results}
Failed(item)  == {item.errs[k] : k \in DOMAIN item.errs} \ {DnsFailed}
Pending(item) == {item.pending[k] : k \in DOMAIN item.pending}

Unsettled(i) ==
    {retryJobs[k].provider : k \in {k \in DOMAIN retryJobs :
        /\ retryJobs[k].index = i
        /\ \/ k >= retryNext
           \/ \E v \in Retriers : retrier[v].pc = "asking" /\ retrier[v].job = k
           \/ \E r \in DOMAIN retryResults : retryResults[r].job = k}}

\* A provider answers for an endpoint at most once: it never counts both as a
\* success and as an error, never twice as either, and one that still is to be
\* retried has not answered.
ProviderAnswersOnce ==
    \A i \in DOMAIN items :
        LET item == items[i]
        IN  /\ \A j, k \in DOMAIN item.results :
                  item.results[j].provider = item.results[k].provider => j = k
            /\ \A j, k \in DOMAIN item.errs : item.errs[j] = item.errs[k] => j = k
            /\ Told(item) \cap Failed(item) = {}
            /\ (Told(item) \cup Failed(item)) \cap (Pending(item) \cup Unsettled(i)) = {}

\* Every provider that was to be asked about an item is accounted for in what
\* Run returns, as a result or as an error, unless the context was cancelled.
ProvidersAccounted ==
    main = "returned" /\ ~cancelled =>
        \A i \in DOMAIN items :
            items[i].total > 0 => Told(items[i]) \cup Failed(items[i]) = ProviderNames

\* Score, verdict, country and the number of successes are those of the results
\* the item holds: a late answer never leaves an earlier verdict standing.
VerdictFresh ==
    \A i \in DOMAIN items :
        LET item   == items[i]
            merged == Merge(ReportsOf(item.results))
        IN  conf.abuse =>
              /\ item.successes = Len(item.results)
              /\ <<item.score, item.purity, item.country>> =
                   <<merged.score, merged.purity, merged.country>>

\* With --abuse, an endpoint is only ever taken for clean, by the filter, by
\* the summary or by an export, on the word of a provider.
NoCleanWithoutEvidence ==
    conf.abuse =>
        \A i \in DOMAIN items :
            CleanScored(items[i]) \/ IsCleanItem(items[i]) => Told(items[i]) # {}

\* The list that is returned holds exactly the items that pass the filter, in
\* the order of the sort, ties in the order they were gathered.
AnswerOrdered ==
    main = "returned" =>
        LET seen == answer.visible
            Place(p) == CHOOSE i \in DOMAIN items : items[i].at = p
        IN  /\ {seen[k].at : k \in DOMAIN seen} =
                 {items[i].at : i \in {i \in DOMAIN items : MatchesFilter(items[i], conf.filter)}}
            /\ Len(seen) = Cardinality({seen[k].at : k \in DOMAIN seen})
            /\ \A j, k \in DOMAIN seen :
                  j < k => \/ SortsBefore(conf.sort, seen[j], seen[k])
                           \/ /\ ~SortsBefore(conf.sort, seen[k], seen[j])
                              /\ Place(seen[j].at) < Place(seen[k].at)

-----------------------------------------------------------------------------
(* Steps and liveness.                                                     *)

\* A gathered item is never dropped or replaced by another's, and its answers and
\* its errors are never withdrawn, however late the answers that join them.
IsExtension(s, t) == Len(s) <= Len(t) /\ s = SubSeq(t, 1, Len(s))
AnswersOnlyGrow ==
    [][\A i \in DOMAIN items :
          /\ i \in DOMAIN items'
          /\ items'[i].at = items[i].at
          /\ IsExtension(items[i].results, items'[i].results)
          /\ IsExtension(items[i].errs, items'[i].errs)]_vars

\* Run returns, cancelled or not, and whatever endpoints and providers do.
Terminates == <>(main \in {"returned", "rejected"})

\* Every endpoint handed to a worker is reported to the callbacks.
EveryCheckReported ==
    \A p \in Positions :
        (\E w \in Workers : worker[w].at = p)
            ~> \E i \in DOMAIN items : items[i].at = p /\ i <= reported

-----------------------------------------------------------------------------
(* The promise Run makes.  An endpoint is answered when the collector has  *)
(* its item; a provider is owed while it is pending, or its retry is not   *)
(* yet absorbed.                                                           *)

Owed == UNION {{items[i].at} \X (Pending(items[i]) \cup Unsettled(i)) : i \in DOMAIN items}

Promise == INSTANCE BatchPromise WITH
    Asked      <- Positions,
    Informants <- ProviderNames,
    phase      <- CASE main = "start"                    -> "open"
                    [] main \in {"returned", "rejected"} -> main
                    [] OTHER                             -> "running",
    stopped    <- cancelled,
    answered   <- Gathered,
    owed       <- Owed

\* BatchEngine implements BatchPromise: Run keeps its promise to the caller.
KeepsPromise == Promise!Spec

=============================================================================
