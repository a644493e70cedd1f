# PureLink in TLA+

Specifications of the program in `src/` (PureLink, a Go command-line tool with a
terminal UI that vets network endpoints), model-checked with TLC and, where it
matters most, proved with TLAPS. Source references are `file:line` under `src/`.

- [1. The system](#1-the-system): components, state, operations, what is hard
- [2. The modules](#2-the-modules): which module models what, and how
- [3. The runs](#3-the-runs): what TLC checks, the bounds, the fairness
- [4. The proofs](#4-the-proofs): what TLAPS proves, and along which argument
- [5. Disagreements found](#5-disagreements-found)
- [6. What is not modelled](#6-what-is-not-modelled)
- [7. Plan](#7-plan)

Run from this directory: `tlc -config batch_pool.cfg MCBatchEngine.tla`,
`tlapm BatchEngine_proofs.tla`. `PROJECT.json` lists the runs, the source lines
of every definition, the hazards, and for each property a mutant: a plausible
bug in a definition that makes TLC find the property violated.

## 1. The system

| Component | State it keeps | Operations | Hard because | Correct when |
|---|---|---|---|---|
| Batch engine (`internal/engine/batch.go`) | the channels jobs, results, jobCh, resultCh; a worker's item; the gathered items; two contexts | `Run`, `runOne`, `retryProviderTimeouts` | a pool, a closer, a collector, a sender and a retry pool share channels and a context that may end at any moment | every endpoint ends in exactly one place, no send on a closed channel, Run comes back, every provider is accounted for, verdicts are never stale |
| Items (`types.go`, `aggregator.go`, `export.go`) | none | filter, sort, summarise, `IsCleanItem` | four sorts with different ties, filters that overlap | the answer is the filtered list, ordered; nothing is clean without evidence |
| Evidence (`pkg/abuse/provider.go`) | the accumulator of `Merge` | normalise, infer, merge | stated and inferred verdicts are mixed, thresholds, late answers | order does not matter, risk is not outvoted, "clean" means what is documented |
| Live actions of the terminal UI (`internal/tui/actions.go`, `view.go`) | active stream and cancel function, rows, mode; per action a goroutine, a context, a buffered stream | keys, commands, message handlers | messages of several actions and commands arrive in any order and do not say whose they are | one reader per stream until it ends, rows belong to the action on display, quitting cancels, no goroutine is left behind |
| Lists (`dedupe.go`, `parser.go`) | seen, unique, collisions | parse, dedupe | an index into one list used in another, one bad file of many | first spellings kept, every place named |
| Command line (`cmd/purelink/main.go`) | what has been written, shown, judged | check, report, batch, import | a sequence of stages, each of which may fail, in four variants | the exit code, the export and what is shown agree |
| List view (`internal/tui/model.go`) | cursor, filter, search, sort, visible rows | keys, recompute | the list changes under the cursor | the selected row is the one the user sees |
| Provider clients (`pkg/abuse/providers`) | attempt counter, the answer | `Check`, `doRequest`, one conversion per service | one counter over three schedules, retries outside the rate limiter, words searched within words | a bounded number of requests per question, each question settled, no report outvoted |
| Checker (`internal/checker`) | none | `CheckEndpoint` | two time limits, the second started by the first | an item is through in a bounded time |
| Importer, share links, v2rayN (`internal/importer`, `pkg/v2rayn`) | sources read, text put aside | fetch, split, decode, parse, scan | formats in formats, failures in the middle, a byte limit | all or nothing; nothing that a source names is lost |
| Speed test | none | one download | - | - |
| Config, output, logging, packaging | none that decisions read | - | - | - |

How they interact. The command line builds a `BatchEngine` and calls `Run`; the
engine's workers call the checker and the providers; what providers say goes
through `NormalizeResult` and `Merge`; `Run` returns filtered and sorted items,
which are exported, shown and judged. The terminal UI gets the items of a batch
as a snapshot; while it runs it starts actions of its own, among them a
`BatchEngine` whose `ResultProgress` callback writes to the action's stream.
The callback runs on the engine's collector, so a stream that nobody reads
blocks the collector, and with it the workers, until the action's deadline.

Cancellation. The command line runs everything under `context.Background()`.
Contexts end only in the UI: by the deadline of an action (10 s, or the
subscription timeout), when an action replaces another, on an error message,
and on quitting. The UI's batches run without providers.

The hazards of this code, each with its line and the properties that would
catch it, are in `PROJECT.json`.

## 2. The modules

```
PurityVerdict ── ProviderReports ─┐
   │   └── EvidenceMerge ─────────┴─ MCEvidenceMerge     evidence_merge
   └──┬─ BatchItems ── BatchEngine ── MCBatchEngine     batch_pool, batch_providers, batch_retry
Lists ─┤    │          └ INSTANCE BatchPromise
       │    ├── CliCommands ── MCCliCommands             cli_commands, cli_import_gate
       │    ├── ListView ── MCListView                   list_view, list_export
       │    └── BatchItems_proofs ── BatchEngine_proofs
       │               ├ EvidenceMerge_proofs
       │               ├ CliCommands_proofs
       │               ├ ListView_proofs
       │               └ Deduplication_proofs
       └─ ShareLinks ── Deduplication ── MCDeduplication dedupe_lists
ItemTimeline ── MCItemTimeline                           item_timeline
   └── ItemTimeline_proofs
ActionStream ── MCActionStream                           stream_actions, stream_quit
   └── ActionStream_proofs
```

The lemmas on lists and on verdicts are in `BatchItems_proofs`. What extends it for
them alone (`EvidenceMerge_proofs`, `Deduplication_proofs`) has the constants of
`BatchItems` in scope, but its theorems do not speak of them.

**PurityVerdict** holds the pure part of `provider.go`. A report keeps what a
decision reads: score, one flag for VPN/proxy/Tor, the datacenter flag, the
stated verdict (empty, one of the five, or a word of the provider's own) and a
country. `Merge` is declarative: highest score, any flag, riskiest verdict,
first country, and inference only when the verdict is still "unknown".

**ProviderReports** has one operator per service that turns its answer into a
report: which score is the service's own and which one is inferred from flags,
which verdict is taken over (`iplogs` alone states one), which word counts as
which. `MCEvidenceMerge` merges what these operators return, so that the reports
of the run are those the clients can make.

**EvidenceMerge** is the loop of `Merge` as it is written, one report per step
(`MergeStep`), with the return value `MergeReturn`. It checks the loop against
the declarative `Merge`, and the verdict against what the documents promise.

**BatchItems** has the item and the operators on lists of items. An item names
its endpoint by its position in the input, so that equal endpoints stay apart;
hosts are ranks in alphabetical order.

**Lists** has what the loops that filter and `sort.SliceStable` come to: a list
of places, in ascending order or in the order of the sort, ties as they were, and
the elements there. A place in that list is the number of members that come
before (`Enumerate`): nothing recurs, so that the operators can be reasoned about
as well as evaluated. Every loop that goes through a list and takes some of it
is `Keep`, and lists appended one after the other are `Flatten`.

**BatchEngine** has one process per goroutine. `main` is the caller of `Run`
(sending, waiting, planning, retrying, finishing), `worker[w]` goes through
`runOne` (checking, resolving, asking provider by provider, sending), the closer
waits for all workers and closes `results`, the collector appends and reports,
the retry sender and the retriers form the second pool. Unbuffered channels are
rendezvous steps (`Dispatch`, `SendRetry`), buffered ones are sequences, and
`close` sets a flag. `select` with `ctx.Done()` is a choice: after `Cancel` the
send and the break are both enabled, as in Go. A provider's turn ends in
`LimiterRefuses`, `ProviderFails` (each kind of error, retryable or not) or
`ProviderAnswers`. `MergeItem` and `AbsorbRetry` contain the whole handler with
`applyMergedProviderResults`. The one lock-free sharing, `items` between
collector and main, is guarded by `GatheringDone` (`<-done`).

**BatchPromise** is what `Run` promises with no goroutine in sight: endpoints
are answered once, providers may stay owed, what is owed is settled, and `Run`
returns with everything answered and nothing owed unless it was stopped.
`BatchEngine` implements it (`KeepsPromise`) under this mapping: an endpoint is
answered when the collector has its item; a provider is owed while it is in the
pending list or its retry is unsent, running or not yet absorbed.

**ItemTimeline** is the same `runOne` and `runProviderRetry` seen from the clock.
Time passes in ticks (`Tick`), and not past anything that is due: whatever takes
time has an `until`, by which its deadline or its own limit ends it. An item goes
through connecting, the TLS handshake with a limit of its own, the lookup and its
providers, one after the other; a question (an item and a provider) waits for the
limiter, is sent, sleeps between requests by one of three schedules indexed by
one counter (`RetryDelay`), has its body read, and is answered, given up, or put
aside for the retry round, whose deadline begins after the wait. A limiter is the
time at which its bucket would be full (`next`): reserving moves it on, and a
cancelled wait moves it back only if nobody has reserved after it, as
`golang.org/x/time/rate` does. `sent` is a history: the requests of each check.
`BatchEngine` leaves out the clock and takes for granted that a turn ends and
that a limiter may refuse; here both follow from the code. What the two share is
the order of steps of `runOne`.

**ActionStream** is the UI as an event loop. The inbox is a bag, for commands
end in any order; `Update` handles one message. An action has a producer
(`Script`, its messages in order), a bounded stream and waiters, commands that
read one message each. `activeActionStream` and `activeActionCancel` are set
and cleared together and are one variable. A send is `SendDelivered` when there
is room and may be `SendDropped` when the context is done, as `select` allows;
what the producer does after a drop depends on the action (`StepAfterDrop`).
`user` is chosen at the start and says whether the user waits for what runs.
Quitting takes two steps. `Quit` is the key: it cancels what is active and
returns `tea.Quit`, a command like the others. Until its `QuitMsg` is taken
(`LoopEnds`), `Update` goes on with what was posted before, an
`ActionStartedMsg` included, and keys are still keys; `quitting` and `over` are
the two ends of that stretch.

**ShareLinks** is what the formats of `pkg/v2rayn` make of a text. A text is its
parts (links, peers of a WireGuard file, servers of a JSON document, a line of
base64, a line that names nothing) and how often it was encoded; a folder of
v2rayN is its files and rows. The grammars are abstracted, not the decisions:
which format is looked for, when a text is decoded, what a cut at spaces and
commas leaves of it, which rows fail and which are passed over. A part may have
a line that is too long for a scanner: `Scanned` says how far the reading gets,
64 KiB a line for peers and 8 MiB for links, and nobody asks for the error. The code's
`parseContentDepth` calls itself with a depth that ends at 2; the three depths are
three operators (`ParseContent`, `ParseInner`, `ParseInnermost`).

**Deduplication** reads sources one by one and then runs the loop of `Dedupe` or
of `DeduplicateImported`. `dedupe` reads files of lines (a line is the endpoints
on it, or does not parse), with Go's 0-based index `seen[key] = len(unique)` as
it is. The imports read a file of links, subscriptions (scheme, status, a body
that breaks off, the byte limit), a paste (its http and https URLs are fetched, the rest, URLs of other schemes
among it, is put aside and parsed at the end, as one text), or a v2rayN folder.
`Aside` tells the two apart: in a list of subscriptions such a URL fails the
command, in a paste it yields nothing.

**ListView** is the list on the screen: what there is (`items`), what is shown
(`visible`, with sort, filter and search), the cursor and the mode. An action is
one call of `Update`, a key or a message; messages come at any time, in any
number. `Recompute` is `m.recompute()`, with the clamping of the cursor at its
end; `CheckResult` is the one handler that moves the cursor as well. A search
text is what contains it (`Found`), a label of a group is a value with its slug
(`Slug`). An export runs within `Update`, and so is one step; `written` is what
the last key has left in files, and the failures may come after any group and
amid any file. It shares the filter, the sort and `IsCleanItem` with the engine
(`BatchItems`), as the code does; only "purity" is a sort of its own.

**CliCommands** is one invocation from flags to exit code: input, check or
batch, export, terminal UI, rendering, judgement. An export that fails leaves
the file it created; a UI that cannot run falls back to rendering; the four
commands differ exactly where their code does. The address of a check or report
may be a name that does not resolve (`Unresolved`): then nobody is asked, and
that is no error.

## 3. The runs

| Run | Instance | Shows |
|---|---|---|
| `batch_pool` | 3 endpoints (2 equal), 2 workers, no providers, 6 sorts/filters and 2 invalid ones, cancellation | each endpoint once, gathered before use, the answer ordered; Run terminates, every check is reported |
| `batch_providers` | 2 endpoints (one a name), 2 workers, 2 providers, a clean and a VPN report, all error kinds, cancellation | one answer per provider and endpoint, verdicts fresh, no clean without evidence, answers only grow |
| `batch_retry` | 1 endpoint, 8 workers (the default of `Workers <= 0`), 2 retriers, 2 providers | no send on a closed channel, all providers accounted for, the promise is kept |
| `item_timeline` | 4 batches of 1 or 2 items (a name on port 443, a literal address) with 0, 1 or 2 providers and 1 or 2 workers; the item's limit 4 ticks, the client's 3, schedules of 2, 1 and 1 pauses, 1 request per 3 ticks | requests per check bounded, the limiter holds, items through in time, nobody fails unasked, every question settled |
| `evidence_merge` | the 63 reports the nine clients make of chosen answers, up to 3 of them | loop = declarative merge, order irrelevant, no report outvoted, inferred "clean" as documented, risk never falls |
| `stream_actions` | 2 actions, stream of 1; a patient user (4 kinds, batches and imports of 1 and 2, 1 speed test) and a hasty one (batches of 1) | for the patient user a reader until the end, one reader, rows of the right action, q cancels every action taken on; for both, actions are let go of and every producer ends |
| `dedupe_lists` | pairs of files of up to 3 lines; imports of 1 or 2 sources: texts of up to 4 parts, some too long for a scanner, encoded up to 3 times, URLs, pastes, folders of up to 2 rows; a byte limit of 3 parts | first spellings kept, exactly the repeated listed, nothing lost of what is named in a form and place looked for |
| `cli_commands` | 2 endpoints, 8 outcomes each, 8 report shapes, 2 providers, all flags that decide, a name that resolves or not | the gate, shown once, exports clean |
| `list_view` | 4 endpoints (2 equal), a list of 4 rows, one of 2 and none to start with, 3 results, 2 search texts, 5 sorts, 7 filters | the cursor on a row, the rows shown fresh, no duplicates added, every row of a split export accounted for |
| `stream_quit`, `cli_import_gate`, `list_export` | as above; `stream_quit` with the hasty user alone | violations, see [5](#5-disagreements-found) |

**Why the bounds are enough.** Two workers and three endpoints make a worker
idle while another is busy, reuse a worker, and leave one endpoint unsent when
the context ends; the channel of results can hold several items while the
collector reports. Two providers give each an answer beside a failure of the
other, and two retries of one item that come back in either order; eight workers
are the least with two retriers (`workers / 4`). Each worker of a run beyond
those does the same. Three reports are one more than the disagreements of `Merge`
need (one report that raises the score, one that states a verdict). Four ticks are
enough for a check, a handshake and two requests with a pause to fit, or not, and
an interval of three makes the second question wait past the deadline; two pauses
in one schedule and one in the others is the least in which they differ. A limit
of three parts lies between the texts of one and of four. A stream of
1 in place of 64 makes it full, which 64 would need longer lists for; batches of
2, with their completion three messages, fill it twice. Two actions are what one action replaced by another takes. The
collisions of `dedupe` need two files and a repeated endpoint before another.
A list of four rows has rows before, on and after
the last two, where the tail is followed, and two of one endpoint; two labels
with one slug and one without are what the files of a split export can differ
in. The bounds are named: `MaxActions`, the speed tests of a user, `MaxReports`,
`MaxBytes`, and the sets given in the MC modules. `ItemTimeline` needs none:
every batch comes to its end.

**Fairness.** `BatchEngine!Fairness` is weak fairness of each goroutine: Go
schedules it, and a connection attempt, a lookup and a request end by their
context's deadline at the latest. `Cancel` and `ItemDeadline` have none: nothing
makes a caller cancel. That the callbacks return is assumed there and is the
subject of `ActionStream`. `ItemTimeline!FairSpec` is weak fairness of the whole
of `Next`: time passes, and what is due happens before it does; a tick needs
everything that is due to have happened, so no step can be put off for ever.
`ActionStream!Fairness` is weak fairness of the event
loop, its end included (the goroutine that runs `tea.Quit` delivers its message
and the loop takes it), of commands and producers, and of `Deadline`, since every
action's context is a `context.WithTimeout`. The user owes nothing.

**Patience.** A patient user (`user.patient`) starts actions and speed tests only
when nothing that was started can still reach `Update`; this restricts the user,
not the program. `ReaderNeverLost`, `OneReader`, `ListMatchesAction` and
`QuitCancels` are stated for the patient one. For the hasty one quitting may not
cancel (`QuittingCancels`, run `stream_quit`), and the others fail too: a speed
test that ends while an action runs clears the action's stream
(`view.go:99-101`) or cancels it (`view.go:89-94`), and a result of the replaced
action is taken for one of the new. One cause is behind all of them: messages do
not name their action. The README of the program only speaks of quitting. That
producers end (`ProducersEnd`) and that the UI lets go of every action unless its
loop ends before (`ActionsReleased`) is stated without patience, and holds for both.

`QuitCancels` speaks of the step in which q is pressed, and of every action
whose start `Update` has handled (`TakenOn`), not only the one on display. An
action that was launched and whose start is on its way cannot be cancelled by
that step, and no later one need do so (a second q might); see [5](#5-disagreements-found).

`CHECK_DEADLOCK FALSE`: every one of these systems ends (Run returns, the user
quits, the command exits). That nothing ends too early is what `Terminates`,
`EveryCheckReported`, `QuestionsSettle`, `ActionsReleased` and `ProducersEnd` say.

## 4. The proofs

All proofs are for every value of the constants that satisfies the named
assumptions: any sequence of endpoints, any set of reports, any number of
workers, cancellation allowed or not. The assumptions on `BatchEngine` are
`EndpointsAssumption`, `ProvidersAssumption` (provider names are distinct, which
`mergeProviderNames` sees to), `ConfWorkersAssumption`, `ReportsAssumption`,
`ConfigsAssumption` and `MayCancelAssumption`; each says what a value is.
`DnsFailedAssumption` of `BatchItems` says that the failed lookup is no provider's
error (the code's error for it starts with "dns resolution", which is none of the
names of `providers.New`). Those on
`ItemTimeline` are `ScheduleAssumption` (pauses are positive, no schedule is longer
than the one for 429), `TimesAssumption` and `BatchesAssumption`; those on `ListView`
are `DedupedAssumption` (a deduplicated list has an endpoint once) and
`LabelsAssumption` (the labels are distinct and have the two that stand for
nothing); on `ActionStream` `BoundsAssumption`, `UsersAssumption` and
`StreamCapacityAssumption` (types, and that a started action has at least one
endpoint). `InputsAssumption` of `Deduplication` says what sources are (any number of files,
texts, URLs and folders of any length; that a server is a part of a JSON
document; and that pasted text has no long lines, since the input of the terminal
UI takes 8192 characters, `internal/tui/model.go:199`), `KeysAssumption` that the mark of a line that does not parse is no
endpoint. Those on
`CliCommands` give the constants their types and say that an item of a batch that
asked nobody has no provider in it (`OutcomesAssumption`).

- `EvidenceMerge_proofs`. `LoopInv` describes the accumulator: it is the highest
  score, the disjunction of the flags, the riskiest verdict and the first
  country of the reports gone through. It is needed because
  `verdict = Merge(evidence)` says nothing about the accumulator before
  `MergeReturn` has filled in the verdict, and is not inductive by itself. From it:
  `LoopIsMerge`, `NobodyOutvoted`, `CleanMeansClean`, `EvidenceTypes`. With
  `LoopIsMerge` the order is irrelevant (`OrderDoesNotMatter`), since the
  declarative merge reads a set, but for the country. `EvidenceOnlyAddsRisk` rests
  on the fact that reports whose own verdict is "unknown" merge to "unknown", and
  all of it on the type of `Merge` for any sequence of reports (`MergeType`, in
  `BatchItems_proofs`, since the engine's verdicts rest on it too).
  `ClientsReport` shows that the assumption on the reports is met: any client makes
  a report of any answer.
- `BatchEngine_proofs`. `TypeInv` strengthens the types with what a worker's
  place says of it (`StateOK`: one that sends has an item of its own endpoint,
  and the providers it has put aside are distinct ones it has asked), since
  without it `Emit` would have nothing typed to send and `PlanItem` would need
  the recursive part of `uniqueProviderNames`. `NoSendOnClosedChannel` and
  `EachEndpointOnce` are then inductive. `GatheredBeforeUse` is not: it needs
  `HandOver` (the collector has stopped only on an empty closed channel; main
  has gone on only when it has stopped; main stopped sending only when all was
  sent or the context was cancelled; the reported count follows the items).
  The verdict: `Fresh` extends `VerdictFresh` from the gathered items to those on
  their way: an item that a worker is about to send and one in the channel carry
  the verdict of the results they hold. `NoCleanWithoutEvidence` follows: the
  merge of no results is never clean. The answer: `Returns` says that what `Run`
  has returned is the sorted filter of the items, which do not change after;
  `AnswerInOrder` is then a matter of `SortInOrder` and of `EndpointsOnce`, since
  places in the list are told apart by the endpoint they are of.
  Providers: `ProviderAnswersOnce` speaks of gathered items only and
  of retry jobs by their index, so that by itself it survives no step. `Books` is
  what does. `Accounts` is a ledger for every item wherever it is (with a worker,
  in `results`, in `items`): the providers that answered, those that failed and
  those still open for it are disjoint and are all there are. What is open is, by
  place, what the worker has not asked yet, what it has put aside, or the retry
  jobs not settled. `JobPlaces` says that a job is one of: unsent, with one
  retrier, in `resultCh`; that no two jobs are for the same question; and that an
  outcome is one word of its own job's provider. Without it `AbsorbRetry` could
  enter an answer twice, or in another's name. `Settling` says what main's place
  implies: all items are planned when it retries, all jobs are taken when the
  sender has closed, nothing is under way when `resultCh` is drained, so that on
  returning nothing is open. `Plain` says that without `--abuse` there is nothing
  to retry. From `Books`: `AnswersOnce`, `AllAccounted`, `AnswersGrow` (the only
  steps that write a gathered item are `PlanItem` and `AbsorbRetry`, and they
  append), and `PromiseKept`, the step simulation behind `KeepsPromise`: every
  step of a goroutine is a step of `BatchPromise`, or does not show in it.
- `BatchItems_proofs`. In a strict total order of a finite set no two members
  have equally many before them, so that `Enumerate` names every member once, in
  order (`EnumerateInOrder`). From it: what `FilterItems` and `SortItems` return
  for any list (`FilterInOrder`, `SortInOrder`), and that a list filtered by
  place has of each kind of element as many as are at the places (`KeepCounts`).
  The order of a stable sort is total because all four comparisons go by a key.
  Sums are cardinalities (`Total`), so that they need no induction: a sum is a
  natural number (`TotalType`), and counting a set key by key gives its size
  (`TotalOfParts`), by a bijection made of those of the parts.
- `ListView_proofs`. `VisibleFresh` is inductive as it stands: each handler ends
  in `Recompute` or leaves everything `View` reads alone. The proof goes through
  all of them, for any list, any results and any search texts. `CursorOnRow` needs
  the types and that a filtered and sorted list is a list, of as many rows as
  match; what clamps the cursor is the end of `Recompute`. `DuplicatesNeverGrow`
  is an action property: a handler that adds a row has looked for the endpoint
  among the rows, and one that replaces the list puts a deduplicated one there.
  `SplitAccounts` is about one step, `SplitExport`, since the next key forgets
  what was written: every row's label is that of a group (`LabelsComplete`), a
  group has its label's rows (`GroupWritten`) and, unless two labels share a slug,
  a file of its own (`EachItsFile`), so that the files divide the rows among them
  (`TotalOfParts`). That the labels are different is what makes the code's groups,
  the keys of a map, disjoint.
- `CliCommands_proofs`. `CliInv` has, beside the types, what was asked and of what
  there are results by each stage (`Stages`), that results are shown on the way
  from rendering or the UI to judging and nowhere else (`Showing`), and that
  nothing is written before the export (`Writing`). The gate needs two facts about
  data: a report that exceeds the threshold makes the merged one exceed it
  (`RiskShows`), and an item that does is counted by the summary (`SummaryShows`).
  The export needs that the clean items of what the filter leaves are those of the
  list that match (`CleanOfVisible`). `GateIsHeld` says who was asked as well: with
  `--fail-on-abuse` the providers, unless the one address is a name that does not
  resolve.
- `ItemTimeline_proofs`. The invariant is `Types`, `Counts` and `InTurn`. `Counts`
  says where a question stands: how many checks it has had in which round, that
  the requests of the current one do not exceed its counter, and that the counter
  is within the longest schedule. `RequestsBounded` is not inductive without it.
  A check whose context is done before it begins sends nothing, so that
  `NeverUnasked` needs to know that such a check can only end as "pending"
  (`Asked`). `InTurn` says that an item's providers are asked one after the other,
  since the next question would otherwise come up in a state of its own.
  `ItemInTime` says nothing of what a worker waits for; `Clocks` does: a
  connection, handshake or lookup ends by the item's limit, and an item that is
  being asked about has a question that does. Time cannot pass what is due, so it
  does not pass the limit while the worker is busy. `BudgetHeld` counts checks
  that have begun, and the limiter knows nothing of them: `Budgets` relates the
  two. `next` has room for an interval for each check
  begun and each wait that holds a place; and it is ahead of any time to come by no
  more than the burst and the waits that last beyond that time. The second half
  speaks of every later time because the clock moves on while the waits end one by
  one, and a cancelled wait moves `next` back only if it was the last to reserve.
- `ActionStream_proofs`, for the user who waits. None of the four properties is
  inductive: that no result is lost depends on who reads, and who reads on what
  was read. `PatientInv` has five parts beside the types. `Alone`: what the user
  has started is one thing in one place: a command about to start, a waiter, a
  speed test or a message in the inbox. `Lines`: of each action, its message on
  the way and its stream are a part of the script, in order, what is not a result
  comes last, and there is no gap before its context is done. `Turns`: actions
  come on display in the order they were started, and the one that is read from
  is on display and active. `Display`: the rows are what has come of the script so
  far, and there is a reader while there is more to come. `Past`: what was on
  display before has nothing left to produce. Each is needed for the next: a result is appended because `Lines` says that no row has its endpoint,
  `OnResult` starts a waiter on the right stream because of `Turns`, and it is the
  only one because of `Alone`. That q cancels all that the UI has taken on
  (`QuittingCancelsActions`) is about one step: by `Turns` and `Past` only the
  action on display may have more to produce, by `Display` it is then read from,
  and by `Turns` it is the active one, whose context `Quit` ends. For the hasty user `Alone` fails first, and with
  it `QuittingCancels` (`stream_quit`).
- `Deduplication_proofs`. First what is pure: what a text, a cut paste, a folder and a
  file name is among what is read of them (`ContentHas`, `PastedHas`, `FolderHas`,
  `EntriesHas`), each from what `Keep` and `Flatten` return; a body that is taken was
  read to its end (`FetchedWhole`); the first of each endpoint is enough to have all
  (`DeduplicatedHas`). So each source is taken whole or fails the command
  (`Reading`), whichever of the five reading actions it is. The invariant then has,
  beside the types, `Placed` (the entries come source by source, what was pasted
  last), `Covered` (what a source that was read names is there, or waits among the
  texts put aside), `Kept` and `Listed` (after n entries, what is kept, remembered
  and listed is that of the first n). What `NothingLost` promises is spelled out in
  `NamedIn`, form by form and place by place, and so is what it gives up: what is
  encoded twice or stands as base64 beside other lines or tokens, links from a line of
  8 MiB on and peers from one of 64 KiB on, and of a paste JSON, peers with spaces and
  URLs that are not of the web. `NothingLost` and `FirstsKept` speak of the end
  only, so that neither is inductive. `CollisionsComplete` needs to know that
  a list is as long as the endpoint has occurred, so that the next place is put
  where the next occurrence belongs (`ListsRepetition`); of the first place it needs
  no more than that it is one, which is as much as the code gives (section 5).

Each invariant was first checked by TLC on the instances above. Model-checked
only: liveness (`Terminates`, `EveryCheckReported`, `QuestionsSettle`,
`ActionsReleased`, `ProducersEnd`) and the fairness part of `KeepsPromise`, which are
beyond the prover. All other properties of the passing runs have a theorem.

## 5. Disagreements found

1. **Quitting may not cancel** (`stream_quit`). The late completion of a replaced
   action clears the new action's cancel function (`internal/tui/view.go:80`);
   `README.md:309` promises that quitting cancels any active action.
2. **A split export overwrites** (`list_export`). Rows are grouped by the label as
   it is, and the file is named by a slug of it: "Korea, Republic of" and "Korea
   (Republic of)" are two groups and one file, created twice
   (`internal/engine/export.go:120`). The notice and the summary count the lost rows.
3. **`import --fail-on-abuse` may pass** (`cli_import_gate`). An interactive import
   whose UI cannot run renders and ends with 0 (`cmd/purelink/main.go:396`), a
   plain import ignores the flag; `README.md:230` promises exit code 4.

Met on the way, and not made a run: a provider that states "clean" itself hides
the signals, since `Merge` infers only while the verdict is "unknown"
(`pkg/abuse/provider.go:142`), so that "clean" may have a score of 60 or a
datacenter flag, against `ARCHITECTURE.md:115` (`IsCleanItem` and the summary
look at the score as well, at the datacenter flag nobody does;
`InferredCleanCriteria` therefore excludes stated verdicts). A collision may name
the wrong first place, for an index into `unique` is used in `inputs`
(`internal/engine/dedupe.go:13`; `CollisionsComplete` leaves the first place
out). And: `--export-format links` always fails for
`batch`, after its file was emptied, since parsed endpoints carry no share link;
exit code 3 is never returned; with all providers failing, `--fail-on-abuse`
passes, and so it does for a name that does not resolve, about which nobody is
asked (`cmd/purelink/main.go:563`); `--filter` does not narrow what is judged, only
what is shown.

In the terminal UI: q pressed right after the enter that starts an action cancels
nothing, for the action's start is still to be handled; if it is handled before
the `QuitMsg` (`internal/tui/view.go:30-43`, `204-210`), the action runs on until
the program exits, where `README.md:309` promises that any active action is
cancelled. Whether it was active when q was pressed is a matter of reading, so
that no run is made of it; `QuitCancels` leaves such an action out.

In the imports: a link with base64 in place of its host (the old form of `ss://`)
is read as a host on port 8388, since `parseSS` tries the standard form first
(`pkg/v2rayn/uri_parser.go:127`, against `CHANGELOG.md:86`); the second level of
decoding can never be reached, for what decodes to base64 does not look like a
subscription; base64 beside plain links is dropped without an error; a pasted
JSON document and the spaced lines of a pasted WireGuard file come apart at
spaces and commas and are lost, and links lose what follows a space; a pasted
`http://` proxy is fetched as a subscription, and a pasted URL of another scheme
is passed over without an error (`internal/importer/subscription.go:68`), where the
same URL as a subscription fails the command (40-43); a line of 8 MiB in a link
file, and one of 64 KiB in a WireGuard file, ends the reading without an error
(`pkg/v2rayn/uri_parser.go:22-28`, `195-212`); an endpoint that comes first
without its link hides a later one that has it, which `--export-format links`
needs; a v2rayN folder with only a configuration file imports nothing and says
nothing; one NULL in a row fails the whole folder.

In the clients and the clock: the TLS handshake has a second time limit, so that
"Timeout per check" (`README.md:179`) may double, and the name lookup after it
then fails as "dns resolution failed"; requests that are repeated after a 429 or
a 5xx pass the limiter by (up to four for one permit, against the rate limiting
of `ARCHITECTURE.md:107`), and a single check of the command line has no limiter
at all (`cmd/purelink/main.go:561`); of iplogs, "not_detected" counts as
detected, a signal named "monitored" as Tor, and a score of 1 as 100.

## 6. What is not modelled

Sockets, TLS, DNS and HTTP themselves: an environment that answers, fails or takes
time. The grammars of share links, endpoints and JSON answers (which key holds
what, and whether a number came as a word), SQL: functions of their input,
covered by the repository's unit and fuzz tests. The speed test is one download,
whose end `ActionStream` has and nobody else reads. Renderers, styles, logging,
redaction, packaging: layout and text. Of configuration loading only that it may
fail (`LoadFails`); where a value comes from is viper's.
Of the parts that are modelled: confidence, categories and raw answers (no
decision reads them), the wording of errors, the progress lines on stderr, the
optional speed test of the command line (its failure is ignored), and latency
overflow. `BatchEngine` has a limiter that may refuse at any time; its arithmetic
is in `ItemTimeline`, which in turn does not look at what the answers say.

Of the end of the UI's loop: a signal or a cancelled context ends it without a key
(the command line's context never ends), and what still runs then ends with the
process.

Two abstractions to know of. `ProvidersAssumption` excludes a configuration that
names one provider under both its names (`google-dns`, `dns.google`). In
`ActionStream` the endpoints of one action are distinct; a batch file with a
repeated endpoint gives the UI fewer rows than results, which `ListView` models.

## 7. Plan

Done, in this order: `PurityVerdict`, `EvidenceMerge`, `BatchItems`,
`BatchEngine`, `BatchPromise`, `ActionStream`, `Deduplication`, `CliCommands`,
`ListView` with split exports, `ProviderReports`, `ShareLinks` with the imports,
`ItemTimeline`, and the proofs above. Left: `ConfigLoad`, if validation turns out
to decide more than it seems.

Proofs planned: that of the reports of all clients but iplogs none is outvoted, as a
statement about `ProviderReports` and `Merge` together.
