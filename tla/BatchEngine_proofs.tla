-------------------------- MODULE BatchEngine_proofs --------------------------
(***************************************************************************)
(* What holds of BatchEngine.Run for any endpoints, providers, reports and *)
(* pool sizes, cancelled or not.  Four invariants build on each other:     *)
(*   TypeInv                the types, and what a worker's state says of   *)
(*                          where the worker is;                           *)
(*   NoSendOnClosedChannel  who closes a channel has waited for all who    *)
(*                          send on it, and who has exited stays so;       *)
(*   EachEndpointOnce       an endpoint that was sent is in one place;     *)
(*   HandOver               main reads what the collector has finished.    *)
(***************************************************************************)
EXTENDS BatchEngine, BatchItems_proofs

\* What the invariant says of the variable worker, for one worker.
WorkerState == [pc: WorkerPcs, at: Positions \cup {0}, late: BOOLEAN,
                asked: 0..Len(Providers), item: Item \cup {<<>>}]

Distinct(names) == \A j, k \in DOMAIN names : names[j] = names[k] => j = k

\* What a worker's state is, by where the worker is: a busy one has an endpoint,
\* one past the connection check an item for it, and the providers it has put
\* aside are distinct ones of those it has asked.
StateOK(s) ==
    /\ s \in WorkerState
    /\ s.pc \notin {"idle", "exited"} => s.at \in Positions
    /\ s.pc \in {"resolving", "asking", "sending"} =>
          s.item \in Item /\ s.item.at = s.at /\ Distinct(s.item.pending)
    /\ s.pc = "resolving" => s.item.pending = <<>>
    /\ s.pc = "asking" =>
          \A k \in DOMAIN s.item.pending :
              \E j \in 1..s.asked : s.item.pending[k] = Providers[j]

\* The inductive invariant behind the types: without StateOK nothing says that
\* a worker that sends has an item, without Distinct the planning of retries
\* would depend on Unique, and a retrier that asks must have a job.
TypeInv ==
    /\ PoolTypeOK
    /\ RetryTypeOK
    /\ \A w \in Workers : StateOK(worker[w])
    /\ \A i \in DOMAIN results : Distinct(results[i].pending)
    /\ \A i \in DOMAIN items : Distinct(items[i].pending)
    /\ \A v \in Retriers : retrier[v].pc = "asking" => retrier[v].job \in DOMAIN retryJobs

-----------------------------------------------------------------------------
\* The endpoints and the providers are numbered from 1, and each has its type.
LEMMA ConstantTypes ==
    /\ Len(Endpoints) \in Nat /\ Positions = 1..Len(Endpoints)
    /\ Len(Providers) \in Nat /\ DOMAIN Providers = 1..Len(Providers)
    /\ \A p \in Positions : Endpoints[p].latency \in Nat
    /\ \A k \in 1..Len(Providers) : Providers[k] \in ProviderNames
  <1>1. /\ Len(Endpoints) \in Nat /\ Positions = 1..Len(Endpoints)
        /\ \A p \in 1..Len(Endpoints) : Endpoints[p] \in Endpoint
    BY EndpointsAssumption, LenProperties, ElementOfSeq DEF Positions
  <1>2. \A p \in Positions : Endpoints[p].latency \in Nat
    BY <1>1 DEF Endpoint
  <1>3. Len(Providers) \in Nat /\ DOMAIN Providers = 1..Len(Providers)
    BY ProvidersAssumption, LenProperties
  <1> QED BY <1>1, <1>2, <1>3 DEF ProviderNames

\* The item runOne starts from, with and without the verdict of a run without --abuse.
LEMMA NewItemType ==
    ASSUME NEW at \in Positions, NEW reachable \in BOOLEAN
    PROVE  /\ NewItem(at, reachable) \in Item
           /\ NewItem(at, reachable).at = at
           /\ NewItem(at, reachable).pending = <<>>
           /\ [NewItem(at, reachable) EXCEPT !.purity = "clean"] \in Item
           /\ [NewItem(at, reachable) EXCEPT !.purity = "clean"].at = at
           /\ [NewItem(at, reachable) EXCEPT !.purity = "clean"].pending = <<>>
  <1>1. <<>> \in Seq(ResultSet) /\ <<>> \in Seq(ProviderNames \cup {DnsFailed})
          /\ <<>> \in Seq(ProviderNames)
    BY EmptySeq
  <1>2. Endpoints[at].latency \in Nat /\ NoCountry \in Countries
    BY ConstantTypes DEF Countries
  <1>3. "unknown" \in Verdicts /\ "clean" \in Verdicts
    BY DEF Verdicts
  <1> DEFINE item == NewItem(at, reachable)
  <1>4. item \in Item
    BY <1>1, <1>2, <1>3 DEF NewItem, Item
  <1>5. item.at = at /\ item.pending = <<>>
    BY DEF NewItem
  <1> HIDE DEF item
  <1>6. /\ [item EXCEPT !.purity = "clean"] \in Item
        /\ [item EXCEPT !.purity = "clean"].at = item.at
        /\ [item EXCEPT !.purity = "clean"].pending = item.pending
    BY <1>3, <1>4 DEF Item
  <1> QED BY <1>4, <1>5, <1>6 DEF item

\* What a provider reports is stored normalised.
LEMMA ResultType ==
    ASSUME NEW provider \in ProviderNames, NEW report \in Reports
    PROVE  Result(provider, report) \in ResultSet
    BY NormalizeType, ReportsAssumption DEF Result, ResultSet

\* The reports of a list of results are a list of reports.
LEMMA ReportsOfType ==
    ASSUME NEW told \in Seq(ResultSet)
    PROVE  ReportsOf(told) \in Seq(Report(Countries))
  <1>1. DOMAIN told = 1..Len(told) /\ Len(told) \in Nat
    BY LenProperties
  <1>2. \A i \in 1..Len(told) : told[i] \in ResultSet
    BY ElementOfSeq
  <1>3. \A i \in 1..Len(told) : told[i].report \in Report(Countries)
    BY <1>2 DEF ResultSet
  <1>4. ReportsOf(told) = [i \in 1..Len(told) |-> told[i].report]
    BY <1>1 DEF ReportsOf
  <1>5. ReportsOf(told) \in [1..Len(told) -> Report(Countries)]
    BY <1>3, <1>4
  <1> QED BY <1>1, <1>5, SeqDef

\* applyMergedProviderResults sets the verdict and leaves the rest of the item alone.
LEMMA ApplyMergedType ==
    ASSUME NEW item \in Item
    PROVE  /\ ApplyMerged(item) \in Item
           /\ ApplyMerged(item).at = item.at
           /\ ApplyMerged(item).results = item.results
           /\ ApplyMerged(item).errs = item.errs
           /\ ApplyMerged(item).pending = item.pending
  <1> DEFINE merged == Merge(ReportsOf(item.results))
  <1>1. item.results \in Seq(ResultSet)
    BY DEF Item
  <1>2. ReportsOf(item.results) \in Seq(Report(Countries))
    BY <1>1, ReportsOfType
  <1>3. merged \in [score: 0..100, anonymizer: BOOLEAN, datacenter: BOOLEAN,
                    purity: Verdicts, country: Countries]
    <2>1. NoCountry \in Countries
      BY DEF Countries
    <2> QED BY <1>2, <2>1, MergeType
  <1>4. merged.score \in 0..100 /\ merged.purity \in Verdicts /\ merged.country \in Countries
    BY <1>3
  <1>5. ApplyMerged(item) = [item EXCEPT !.score = merged.score, !.purity = merged.purity,
                                         !.country = merged.country]
    BY DEF ApplyMerged
  <1> HIDE DEF merged
  <1> QED BY <1>4, <1>5 DEF Item

\* What the steps of a worker make of its item.
LEMMA ItemSteps ==
    ASSUME NEW item \in Item, NEW name \in ProviderNames
    PROVE  /\ [item EXCEPT !.pending = Append(@, name)] \in Item
           /\ [item EXCEPT !.errs = Append(@, name)] \in Item
           /\ [item EXCEPT !.errs = Append(@, DnsFailed)] \in Item
           /\ [item EXCEPT !.pending = <<>>] \in Item
           /\ [item EXCEPT !.total = Len(Providers)] \in Item
           /\ \A r \in ResultSet : [item EXCEPT !.results = Append(@, r)] \in Item
           /\ [item EXCEPT !.successes = Len(item.results)] \in Item
  <1>1. /\ item.pending \in Seq(ProviderNames)
        /\ item.errs \in Seq(ProviderNames \cup {DnsFailed})
        /\ item.results \in Seq(ResultSet)
    BY DEF Item
  <1>2. /\ Append(item.pending, name) \in Seq(ProviderNames)
        /\ Append(item.errs, name) \in Seq(ProviderNames \cup {DnsFailed})
        /\ Append(item.errs, DnsFailed) \in Seq(ProviderNames \cup {DnsFailed})
        /\ \A r \in ResultSet : Append(item.results, r) \in Seq(ResultSet)
        /\ <<>> \in Seq(ProviderNames)
        /\ Len(item.results) \in Nat
    BY <1>1, AppendProperties, EmptySeq, LenProperties
  <1>3. Len(Providers) \in Nat
    BY ConstantTypes
  <1> QED BY <1>1, <1>2, <1>3 DEF Item

-----------------------------------------------------------------------------
(* Types.                                                                  *)

\* A worker that waits for a job, or has left, is in order.
LEMMA IdleOK ==
    /\ StateOK(IdleWorker)
    /\ StateOK([IdleWorker EXCEPT !.pc = "exited"])
    /\ IdleWorker.pc = "idle" /\ [IdleWorker EXCEPT !.pc = "exited"].pc = "exited"
  <1>1. 0 \in 0..Len(Providers) /\ <<>> \in Item \cup {<<>>} /\ 0 \in Positions \cup {0}
    BY ConstantTypes
  <1>2. IdleWorker \in WorkerState
    BY <1>1 DEF IdleWorker, WorkerState, WorkerPcs
  <1>3. [IdleWorker EXCEPT !.pc = "exited"] \in WorkerState
    BY <1>2 DEF WorkerState, WorkerPcs
  <1>4. IdleWorker.pc = "idle" /\ [IdleWorker EXCEPT !.pc = "exited"].pc = "exited"
    BY DEF IdleWorker
  <1> QED BY <1>2, <1>3, <1>4 DEF StateOK

\* The start of a run.
LEMMA TypeInit == Init => TypeInv
  <1> SUFFICES ASSUME Init PROVE TypeInv
    OBVIOUS
  <1> USE DEF Init
  <1>1. /\ \A S : <<>> \in Seq(S)
        /\ Len(items) = 0 /\ Len(retryJobs) = 0 /\ Len(Endpoints) \in Nat
        /\ DOMAIN items = {} /\ DOMAIN results = {}
    BY EmptySeq, ConstantTypes
  <1>2. \A w \in Workers : StateOK(worker[w]) /\ worker[w] \in WorkerState
    BY IdleOK DEF StateOK
  <1>3. worker \in [Workers -> WorkerState]
    BY <1>2
  <1>4. PoolTypeOK
    <2>1. conf \in Configs /\ cancelled \in BOOLEAN /\ main \in Phases
      BY DEF Phases
    <2>2. jobsClosed \in BOOLEAN /\ resultsClosed \in BOOLEAN /\ next = 1
      OBVIOUS
    <2>3. results \in Seq(Item) /\ items \in Seq(Item) /\ reported \in Nat
      BY <1>1
    <2>4. collector \in {"receiving", "reporting", "done"}
      OBVIOUS
    <2> HIDE DEF Init
    <2>5. next \in 1..(Len(Endpoints) + 1)
      BY <1>1, <2>2
    <2> QED BY <1>3, <2>1, <2>2, <2>3, <2>4, <2>5 DEF PoolTypeOK, WorkerState
  <1>5. RetryTypeOK /\ \A v \in Retriers : retrier[v].pc = "idle"
    <2>1. \A v \in Retriers : retrier[v] = IdleRetrier
      OBVIOUS
    <2>2. IdleRetrier \in [pc: {"idle", "asking", "exited"}, job: 0..Len(retryJobs)]
      BY <1>1 DEF IdleRetrier
    <2>3. retrier \in [Retriers -> [pc: {"idle", "asking", "exited"}, job: 0..Len(retryJobs)]]
      BY <2>2
    <2>4. planned \in 0..Len(items) /\ retryNext \in 1..(Len(retryJobs) + 1)
      BY <1>1
    <2>5. /\ retryJobs \in Seq([index: 1..Len(items), provider: ProviderNames])
          /\ retryResults \in Seq([job: 1..Len(retryJobs), results: Seq(ResultSet),
                                   errs: Seq(ProviderNames)])
      BY <1>1
    <2>6. retryClosed \in BOOLEAN /\ retryResultsClosed \in BOOLEAN
      OBVIOUS
    <2>7. IdleRetrier.pc = "idle"
      BY DEF IdleRetrier
    <2> HIDE DEF Init
    <2> QED BY <2>1, <2>3, <2>4, <2>5, <2>6, <2>7 DEF RetryTypeOK
  <1> QED BY <1>1, <1>2, <1>4, <1>5 DEF TypeInv

\* A step that changes one worker's state and keeps it in order keeps the types.
LEMMA OneWorkerType ==
    ASSUME TypeInv, NEW w \in Workers, NEW s, StateOK(s),
           worker' = [worker EXCEPT ![w] = s], KeepAllButWorker
    PROVE  TypeInv'
  <1>1. /\ worker \in [Workers -> WorkerState]
        /\ s \in WorkerState
    BY DEF TypeInv, PoolTypeOK, WorkerState, StateOK
  <1>2. worker' \in [Workers -> WorkerState]
    BY <1>1
  <1>3. \A v \in Workers : StateOK(worker'[v])
    BY <1>1 DEF TypeInv
  <1>4. PoolTypeOK'
    BY <1>2 DEF TypeInv, PoolTypeOK, WorkerState, KeepAllButWorker
  <1>5. RetryTypeOK'
    BY DEF TypeInv, RetryTypeOK, KeepAllButWorker, retryVars
  <1> QED BY <1>3, <1>4, <1>5 DEF TypeInv, KeepAllButWorker, retryVars

\* What the invariant says of one worker.
LEMMA OneWorker ==
    ASSUME TypeInv, NEW w \in Workers
    PROVE  /\ worker[w] \in WorkerState /\ StateOK(worker[w])
           /\ DOMAIN worker = Workers
    BY DEF TypeInv, PoolTypeOK, WorkerState

\* Asking the next provider, whatever comes of it.
LEMMA AskedOK ==
    ASSUME NEW s, StateOK(s), s.pc = "asking", s.asked < Len(Providers),
           NEW item \in Item, item.at = s.item.at,
           item.pending \in {s.item.pending,
                             Append(s.item.pending, Providers[s.asked + 1])}
    PROVE  StateOK([s EXCEPT !.asked = s.asked + 1, !.item = item])
  <1> DEFINE old == s.item.pending
             new == item.pending
             name == Providers[s.asked + 1]
  <1>1. /\ s \in WorkerState /\ s.item \in Item /\ s.item.at = s.at /\ s.at \in Positions
        /\ Distinct(old) /\ old \in Seq(ProviderNames)
        /\ \A k \in DOMAIN old : \E j \in 1..s.asked : old[k] = Providers[j]
    BY DEF StateOK, Item
  <1>2. s.asked \in 0..Len(Providers) /\ s.asked + 1 \in 1..Len(Providers)
        /\ Len(Providers) \in Nat /\ DOMAIN Providers = 1..Len(Providers)
    BY <1>1, ConstantTypes DEF WorkerState
  <1>3. name \in ProviderNames
    BY <1>2, ConstantTypes
  <1>4. \A j \in 1..s.asked : Providers[j] # name
    BY <1>2, ProvidersAssumption
  <1>5. Distinct(new) /\ \A k \in DOMAIN new : \E j \in 1..(s.asked + 1) : new[k] = Providers[j]
    <2>1. CASE new = old
      BY <1>1, <1>2, <2>1
    <2>2. CASE new = Append(old, name)
      <3>1. /\ DOMAIN old = 1..Len(old) /\ Len(old) \in Nat
            /\ DOMAIN new = 1..(Len(old) + 1)
            /\ new[Len(old) + 1] = name
            /\ \A k \in 1..Len(old) : new[k] = old[k]
        BY <1>1, <1>3, <2>2, AppendProperties, LenProperties
      <3>2. \A k \in 1..Len(old) : \E j \in 1..s.asked : new[k] = Providers[j]
        BY <1>1, <3>1
      <3>3. \A k \in 1..Len(old) : new[k] # name
        BY <1>4, <3>2
      <3> HIDE DEF old, new, name
      <3>4. Distinct(new)
        BY <1>1, <3>1, <3>3 DEF Distinct
      <3>5. \A k \in DOMAIN new : \E j \in 1..(s.asked + 1) : new[k] = Providers[j]
        BY <1>2, <3>1, <3>2 DEF name
      <3> QED BY <3>4, <3>5
    <2> QED BY <2>1, <2>2
  <1> HIDE DEF old, new, name
  <1>6. [s EXCEPT !.asked = s.asked + 1, !.item = item] \in WorkerState
    <2>1. s.asked + 1 \in 0..Len(Providers) /\ item \in Item \cup {<<>>}
      BY <1>2
    <2> QED BY <1>1, <2>1 DEF WorkerState
  <1> QED BY <1>1, <1>2, <1>5, <1>6 DEF StateOK, WorkerState, new

\* The connection check.
LEMMA CheckReturnsType ==
    ASSUME TypeInv, NEW w \in Workers, CheckReturns(w)
    PROVE  TypeInv'
  <1> DEFINE s == worker[w]
  <1>1. s \in WorkerState /\ StateOK(s) /\ DOMAIN worker = Workers
    BY OneWorker
  <1>2. s.pc = "checking" /\ s.at \in Positions /\ KeepAllButWorker
    BY <1>1 DEF CheckReturns, StateOK
  <1>3. PICK item \in Item, pc \in {"resolving", "sending"} :
            /\ worker' = [worker EXCEPT ![w].item = item, ![w].pc = pc]
            /\ item.at = s.at /\ item.pending = <<>>
    <2>1. PICK reachable \in BOOLEAN :
              worker' = [worker EXCEPT
                 ![w].item = IF ~conf.abuse /\ reachable
                               THEN [NewItem(s.at, reachable) EXCEPT !.purity = "clean"]
                               ELSE NewItem(s.at, reachable),
                 ![w].pc   = IF conf.abuse THEN "resolving" ELSE "sending"]
      BY DEF CheckReturns
    <2>2. (IF conf.abuse THEN "resolving" ELSE "sending") \in {"resolving", "sending"}
      OBVIOUS
    <2>3. PICK item \in Item :
              /\ item = IF ~conf.abuse /\ reachable
                          THEN [NewItem(s.at, reachable) EXCEPT !.purity = "clean"]
                          ELSE NewItem(s.at, reachable)
              /\ item.at = s.at /\ item.pending = <<>>
      BY <1>2, NewItemType, Zenon
    <2> QED BY <2>1, <2>2, <2>3, Zenon
  <1> DEFINE t == [s EXCEPT !.item = item, !.pc = pc]
  <1>4. worker' = [worker EXCEPT ![w] = t]
    BY <1>1, <1>3
  <1>5. /\ t \in WorkerState /\ t.item = item /\ t.at = s.at
        /\ t.pc \in {"resolving", "sending"} /\ t.item.pending = <<>>
    BY <1>1, <1>3 DEF WorkerState, WorkerPcs
  <1>6. Distinct(<<>>)
    BY DEF Distinct
  <1>7. StateOK(t)
    BY <1>2, <1>3, <1>5, <1>6 DEF StateOK
  <1> QED BY <1>2, <1>4, <1>7, OneWorkerType

\* The name is resolved.
LEMMA ResolveType ==
    ASSUME TypeInv, NEW w \in Workers, Resolve(w)
    PROVE  TypeInv'
  <1> DEFINE s == worker[w]
             item == [s.item EXCEPT !.total = Len(Providers)]
             t == [s EXCEPT !.pc = "asking", !.asked = 0, !.item = item]
  <1>1. s \in WorkerState /\ StateOK(s) /\ DOMAIN worker = Workers
    BY OneWorker
  <1>2. s.pc = "resolving" /\ KeepAllButWorker
    BY DEF Resolve
  <1>3. /\ s.item \in Item /\ s.item.at = s.at /\ s.item.pending = <<>>
        /\ s.at \in Positions
    BY <1>1, <1>2 DEF StateOK
  <1>4. worker' = [worker EXCEPT ![w] = t]
    BY <1>1 DEF Resolve, WorkerState
  <1>5. item \in Item /\ item.at = s.at /\ item.pending = <<>>
    BY <1>3, ConstantTypes DEF Item
  <1> HIDE DEF item
  <1>6. t \in WorkerState /\ t.item = item /\ t.at = s.at /\ t.pc = "asking" /\ t.asked = 0
    <2>1. 0 \in 0..Len(Providers) /\ "asking" \in WorkerPcs /\ item \in Item \cup {<<>>}
      BY <1>5, ConstantTypes DEF WorkerPcs
    <2> QED BY <1>1, <2>1 DEF WorkerState
  <1>7. Distinct(<<>>) /\ DOMAIN <<>> = {}
    BY DEF Distinct
  <1>8. StateOK(t)
    <2> HIDE DEF t
    <2> QED BY <1>3, <1>5, <1>6, <1>7 DEF StateOK
  <1> QED BY <1>2, <1>4, <1>8, OneWorkerType

\* The name cannot be resolved.
LEMMA ResolveFailsType ==
    ASSUME TypeInv, NEW w \in Workers, ResolveFails(w)
    PROVE  TypeInv'
  <1> DEFINE s == worker[w]
             item == [s.item EXCEPT !.errs = Append(@, DnsFailed)]
             t == [s EXCEPT !.pc = "sending", !.item = item]
  <1>1. s \in WorkerState /\ StateOK(s) /\ DOMAIN worker = Workers
    BY OneWorker
  <1>2. s.pc = "resolving" /\ KeepAllButWorker
    BY DEF ResolveFails
  <1>3. /\ s.item \in Item /\ s.item.at = s.at /\ Distinct(s.item.pending)
        /\ s.at \in Positions
    BY <1>1, <1>2 DEF StateOK
  <1>4. worker' = [worker EXCEPT ![w] = t]
    BY <1>1 DEF ResolveFails, WorkerState
  <1>5. item \in Item /\ item.at = s.at /\ item.pending = s.item.pending
    <2>1. Append(s.item.errs, DnsFailed) \in Seq(ProviderNames \cup {DnsFailed})
      BY <1>3, AppendProperties DEF Item
    <2> QED BY <1>3, <2>1 DEF Item
  <1> HIDE DEF item
  <1>6. t \in WorkerState /\ t.item = item /\ t.at = s.at /\ t.pc = "sending"
    BY <1>1, <1>5 DEF WorkerState, WorkerPcs
  <1>7. StateOK(t)
    <2> HIDE DEF t
    <2> QED BY <1>3, <1>5, <1>6 DEF StateOK
  <1> QED BY <1>2, <1>4, <1>7, OneWorkerType

\* The limiter refuses, the provider fails or it answers: in each case the
\* item stays one of the same endpoint and at most one name is put aside.
LEMMA AskedType ==
    ASSUME TypeInv, NEW w \in Workers, Asking(w), KeepAllButWorker,
           NEW item \in Item, item.at = worker[w].item.at,
           item.pending \in {worker[w].item.pending,
                             Append(worker[w].item.pending, NextProvider(w))},
           worker' = [worker EXCEPT ![w].asked = @ + 1, ![w].item = item]
    PROVE  TypeInv'
  <1> DEFINE s == worker[w]
             t == [s EXCEPT !.asked = s.asked + 1, !.item = item]
  <1>1. s \in WorkerState /\ StateOK(s) /\ DOMAIN worker = Workers
    BY OneWorker
  <1>2. s.pc = "asking" /\ s.asked < Len(Providers)
    BY DEF Asking
  <1>3. worker' = [worker EXCEPT ![w] = t]
    BY <1>1 DEF WorkerState
  <1>4. StateOK(t)
    <2>1. item.pending \in {s.item.pending, Append(s.item.pending, Providers[s.asked + 1])}
      BY DEF NextProvider
    <2> HIDE DEF s
    <2>2. item.at = s.item.at
      BY DEF s
    <2> QED BY <1>1, <1>2, <2>1, <2>2, AskedOK
  <1> QED BY <1>3, <1>4, OneWorkerType

\* A worker that asks has an item, and its next provider is one of the list.
LEMMA AskingItem ==
    ASSUME TypeInv, NEW w \in Workers, Asking(w)
    PROVE  /\ worker[w] \in WorkerState /\ DOMAIN worker = Workers
           /\ worker[w].item \in Item
           /\ NextProvider(w) \in ProviderNames
  <1>1. worker[w] \in WorkerState /\ StateOK(worker[w]) /\ DOMAIN worker = Workers
    BY OneWorker
  <1>2. worker[w].pc = "asking" /\ worker[w].asked < Len(Providers)
    BY DEF Asking
  <1>3. worker[w].asked \in 0..Len(Providers)
    BY <1>1 DEF WorkerState
  <1>4. worker[w].asked + 1 \in 1..Len(Providers)
    BY <1>2, <1>3, ConstantTypes
  <1> QED BY <1>1, <1>2, <1>4, ConstantTypes DEF StateOK, NextProvider

\* The limiter does not let the request go in time.
LEMMA LimiterRefusesType ==
    ASSUME TypeInv, NEW w \in Workers, LimiterRefuses(w)
    PROVE  TypeInv'
  <1> DEFINE s == worker[w]
             item == [s.item EXCEPT !.pending = Append(@, NextProvider(w))]
  <1>1. Asking(w) /\ KeepAllButWorker
    BY DEF LimiterRefuses
  <1>2. /\ s \in WorkerState /\ DOMAIN worker = Workers /\ s.item \in Item
        /\ NextProvider(w) \in ProviderNames
    BY <1>1, AskingItem
  <1>3. item \in Item
    BY <1>2, ItemSteps
  <1>4. item.at = s.item.at /\ item.pending = Append(s.item.pending, NextProvider(w))
    BY <1>2 DEF Item
  <1>5. worker' = [worker EXCEPT ![w].asked = @ + 1, ![w].item = item]
    BY <1>2 DEF LimiterRefuses, WorkerState
  <1> HIDE DEF item
  <1> QED BY <1>1, <1>3, <1>4, <1>5, AskedType

\* The provider fails: it is put aside for a retry, or noted as an error.
LEMMA ProviderFailsType ==
    ASSUME TypeInv, NEW w \in Workers, ProviderFails(w)
    PROVE  TypeInv'
  <1> DEFINE s == worker[w]
             aside == [s.item EXCEPT !.pending = Append(@, NextProvider(w))]
             failed == [s.item EXCEPT !.errs = Append(@, NextProvider(w))]
  <1>1. Asking(w) /\ KeepAllButWorker
    BY DEF ProviderFails
  <1>2. /\ s \in WorkerState /\ DOMAIN worker = Workers /\ s.item \in Item
        /\ NextProvider(w) \in ProviderNames
    BY <1>1, AskingItem
  <1>3. aside \in Item /\ failed \in Item
    BY <1>2, ItemSteps
  <1>4. /\ aside.at = s.item.at /\ aside.pending = Append(s.item.pending, NextProvider(w))
        /\ failed.at = s.item.at /\ failed.pending = s.item.pending
    BY <1>2 DEF Item
  <1>5. PICK err \in ErrorKinds :
          worker' = [worker EXCEPT
             ![w].asked = @ + 1,
             ![w].item.pending = IF Retryable(err) THEN Append(@, NextProvider(w)) ELSE @,
             ![w].item.errs = IF Retryable(err) THEN @ ELSE Append(@, NextProvider(w))]
    BY DEF ProviderFails
  <1>6. \/ worker' = [worker EXCEPT ![w].asked = @ + 1, ![w].item = aside]
        \/ worker' = [worker EXCEPT ![w].asked = @ + 1, ![w].item = failed]
    <2>1. CASE Retryable(err)
      <3>1. worker' = [worker EXCEPT ![w].asked = @ + 1,
                                     ![w].item.pending = Append(@, NextProvider(w)),
                                     ![w].item.errs = @]
        BY <1>5, <2>1, Zenon
      <3>2. [s.item EXCEPT !.pending = Append(@, NextProvider(w)), !.errs = @] = aside
        BY <1>2 DEF Item
      <3> HIDE DEF aside
      <3>3. worker' = [worker EXCEPT ![w].asked = @ + 1,
                ![w].item = [s.item EXCEPT !.pending = Append(@, NextProvider(w)), !.errs = @]]
        BY <1>2, <3>1 DEF WorkerState
      <3> QED BY <3>2, <3>3, Zenon
    <2>2. CASE ~Retryable(err)
      <3>1. worker' = [worker EXCEPT ![w].asked = @ + 1,
                                     ![w].item.pending = @,
                                     ![w].item.errs = Append(@, NextProvider(w))]
        BY <1>5, <2>2, Zenon
      <3>2. [s.item EXCEPT !.pending = @, !.errs = Append(@, NextProvider(w))] = failed
        BY <1>2 DEF Item
      <3> HIDE DEF failed
      <3>3. worker' = [worker EXCEPT ![w].asked = @ + 1,
                ![w].item = [s.item EXCEPT !.pending = @, !.errs = Append(@, NextProvider(w))]]
        BY <1>2, <3>1 DEF WorkerState
      <3> QED BY <3>2, <3>3, Zenon
    <2> QED BY <2>1, <2>2
  <1> HIDE DEF aside, failed
  <1>7. CASE worker' = [worker EXCEPT ![w].asked = @ + 1, ![w].item = aside]
    BY <1>1, <1>3, <1>4, <1>7, AskedType
  <1>8. CASE worker' = [worker EXCEPT ![w].asked = @ + 1, ![w].item = failed]
    BY <1>1, <1>3, <1>4, <1>8, AskedType
  <1> QED BY <1>6, <1>7, <1>8

\* The provider answers.
LEMMA ProviderAnswersType ==
    ASSUME TypeInv, NEW w \in Workers, ProviderAnswers(w)
    PROVE  TypeInv'
  <1> DEFINE s == worker[w]
  <1>1. Asking(w) /\ KeepAllButWorker
    BY DEF ProviderAnswers
  <1>2. /\ s \in WorkerState /\ DOMAIN worker = Workers /\ s.item \in Item
        /\ NextProvider(w) \in ProviderNames
    BY <1>1, AskingItem
  <1>3. PICK report \in Reports :
          worker' = [worker EXCEPT
             ![w].asked = @ + 1,
             ![w].item.results = Append(@, Result(NextProvider(w), report))]
    BY DEF ProviderAnswers
  <1> DEFINE told == Result(NextProvider(w), report)
             item == [s.item EXCEPT !.results = Append(@, told)]
  <1>4. told \in ResultSet
    BY <1>2, ResultType
  <1> HIDE DEF told
  <1>5. item \in Item
    BY <1>2, <1>4, ItemSteps
  <1>6. item.at = s.item.at /\ item.pending = s.item.pending
    BY <1>2 DEF Item
  <1>7. worker' = [worker EXCEPT ![w].asked = @ + 1, ![w].item = item]
    BY <1>2, <1>3 DEF WorkerState, told
  <1> HIDE DEF item
  <1> QED BY <1>1, <1>5, <1>6, <1>7, AskedType

\* The answers are merged.
LEMMA MergeItemType ==
    ASSUME TypeInv, NEW w \in Workers, MergeItem(w)
    PROVE  TypeInv'
  <1> DEFINE s == worker[w]
             counted == [s.item EXCEPT !.successes = Len(s.item.results)]
             item == ApplyMerged(counted)
             t == [s EXCEPT !.pc = "sending", !.item = item]
  <1>1. s \in WorkerState /\ StateOK(s) /\ DOMAIN worker = Workers
    BY OneWorker
  <1>2. s.pc = "asking" /\ KeepAllButWorker
    BY DEF MergeItem
  <1>3. s.item \in Item /\ s.item.at = s.at /\ Distinct(s.item.pending) /\ s.at \in Positions
    BY <1>1, <1>2 DEF StateOK
  <1>4. counted \in Item /\ counted.at = s.at /\ counted.pending = s.item.pending
    <2>1. Len(s.item.results) \in Nat
      BY <1>3, LenProperties DEF Item
    <2> QED BY <1>3, <2>1 DEF Item
  <1>5. worker' = [worker EXCEPT ![w] = t]
    BY <1>1 DEF MergeItem, WorkerState
  <1> HIDE DEF counted
  <1>6. item \in Item /\ item.at = s.at /\ item.pending = s.item.pending
    BY <1>4, ApplyMergedType
  <1> HIDE DEF item
  <1>7. t \in WorkerState /\ t.item = item /\ t.at = s.at /\ t.pc = "sending"
    BY <1>1, <1>6 DEF WorkerState, WorkerPcs
  <1>8. StateOK(t)
    <2> HIDE DEF t
    <2> QED BY <1>3, <1>6, <1>7 DEF StateOK
  <1> QED BY <1>2, <1>5, <1>8, OneWorkerType

\* The worker leaves.
LEMMA WorkerExitsType ==
    ASSUME TypeInv, NEW w \in Workers, WorkerExits(w)
    PROVE  TypeInv'
  <1> DEFINE s == worker[w]
             t == [s EXCEPT !.pc = "exited"]
  <1>1. s \in WorkerState /\ DOMAIN worker = Workers
    BY OneWorker
  <1>2. worker' = [worker EXCEPT ![w] = t] /\ KeepAllButWorker
    BY <1>1 DEF WorkerExits, WorkerState
  <1>3. t \in WorkerState /\ t.pc = "exited"
    BY <1>1 DEF WorkerState, WorkerPcs
  <1>4. StateOK(t)
    BY <1>3 DEF StateOK
  <1> QED BY <1>2, <1>4, OneWorkerType

\* The deadline of the item's context passes.
LEMMA ItemDeadlineType ==
    ASSUME TypeInv, NEW w \in Workers, ItemDeadline(w)
    PROVE  TypeInv'
  <1> DEFINE s == worker[w]
             t == [s EXCEPT !.late = TRUE]
  <1>1. s \in WorkerState /\ StateOK(s) /\ DOMAIN worker = Workers
    BY OneWorker
  <1>2. worker' = [worker EXCEPT ![w] = t] /\ KeepAllButWorker
    BY <1>1 DEF ItemDeadline, WorkerState
  <1>3. /\ t \in WorkerState /\ t.pc = s.pc /\ t.at = s.at /\ t.item = s.item
        /\ t.asked = s.asked
    BY <1>1 DEF WorkerState
  <1>4. StateOK(t)
    <2> HIDE DEF t
    <2> QED BY <1>1, <1>3 DEF StateOK
  <1> QED BY <1>2, <1>4, OneWorkerType

\* A step of the control alone: no item, worker or retry changes.
LEMMA ControlType ==
    ASSUME TypeInv,
           UNCHANGED <<conf, next, worker, results, items, retryVars>>,
           main' \in Phases, cancelled' \in BOOLEAN,
           jobsClosed' \in BOOLEAN, resultsClosed' \in BOOLEAN,
           collector' \in {"receiving", "reporting", "done"}, reported' \in Nat
    PROVE  TypeInv'
  <1>1. PoolTypeOK'
    BY DEF TypeInv, PoolTypeOK
  <1>2. RetryTypeOK'
    BY DEF TypeInv, RetryTypeOK, retryVars
  <1> QED BY <1>1, <1>2 DEF TypeInv, retryVars

\* The steps of main, the closer and the collector that move no item.
LEMMA ControlSteps ==
    ASSUME TypeInv,
           \/ Reject \/ Begin \/ StopSending \/ GatheringDone \/ PlanDone
           \/ RetriesDrained \/ Finish \/ CloseResults \/ ReportProgress
           \/ CollectorDone \/ Cancel
    PROVE  TypeInv'
  <1>1. /\ main \in Phases /\ cancelled \in BOOLEAN /\ jobsClosed \in BOOLEAN
        /\ resultsClosed \in BOOLEAN /\ reported \in Nat
        /\ collector \in {"receiving", "reporting", "done"}
    BY DEF TypeInv, PoolTypeOK
  <1> USE <1>1, ControlType DEF poolVars, Phases
  <1>2. CASE Reject
    BY <1>2 DEF Reject
  <1>3. CASE Begin
    BY <1>3 DEF Begin
  <1>4. CASE StopSending
    BY <1>4 DEF StopSending
  <1>5. CASE GatheringDone
    BY <1>5 DEF GatheringDone
  <1>6. CASE PlanDone
    BY <1>6 DEF PlanDone
  <1>7. CASE RetriesDrained
    BY <1>7 DEF RetriesDrained
  <1>8. CASE Finish
    BY <1>8 DEF Finish
  <1>9. CASE CloseResults
    BY <1>9 DEF CloseResults
  <1>10. CASE ReportProgress
    BY <1>10 DEF ReportProgress
  <1>11. CASE CollectorDone
    BY <1>11 DEF CollectorDone
  <1>12. CASE Cancel
    BY <1>12 DEF Cancel
  <1> QED BY <1>2, <1>3, <1>4, <1>5, <1>6, <1>7, <1>8, <1>9, <1>10, <1>11, <1>12

\* A worker receives an endpoint.
LEMMA DispatchType ==
    ASSUME TypeInv, NEW w \in Workers, Dispatch(w)
    PROVE  TypeInv'
  <1> DEFINE t == [IdleWorker EXCEPT !.pc = "checking", !.at = next]
  <1>1. /\ worker \in [Workers -> WorkerState] /\ \A v \in Workers : StateOK(worker[v])
        /\ next \in Positions /\ worker' = [worker EXCEPT ![w] = t]
    BY DEF TypeInv, PoolTypeOK, WorkerState, Dispatch
  <1>2. t \in WorkerState /\ t.pc = "checking" /\ t.at = next
    <2>1. IdleWorker \in WorkerState
      BY IdleOK DEF StateOK
    <2> QED BY <1>1, <2>1 DEF WorkerState, WorkerPcs
  <1>3. StateOK(t)
    <2> HIDE DEF t
    <2> QED BY <1>1, <1>2 DEF StateOK
  <1> HIDE DEF t
  <1>4. worker' \in [Workers -> WorkerState] /\ \A v \in Workers : StateOK(worker'[v])
    BY <1>1, <1>2, <1>3
  <1>5. next' \in 1..(Len(Endpoints) + 1)
    BY <1>1, ConstantTypes DEF Dispatch
  <1>6. PoolTypeOK'
    BY <1>4, <1>5 DEF TypeInv, PoolTypeOK, WorkerState, Dispatch
  <1>7. RetryTypeOK'
    BY DEF TypeInv, RetryTypeOK, Dispatch, retryVars
  <1> QED BY <1>4, <1>6, <1>7 DEF TypeInv, Dispatch, retryVars

\* A worker sends its item.
LEMMA EmitType ==
    ASSUME TypeInv, NEW w \in Workers, Emit(w)
    PROVE  TypeInv'
  <1>1. /\ worker \in [Workers -> WorkerState] /\ \A v \in Workers : StateOK(worker[v])
        /\ worker' = [worker EXCEPT ![w] = IdleWorker]
        /\ results' = Append(results, worker[w].item)
        /\ results \in Seq(Item) /\ \A i \in DOMAIN results : Distinct(results[i].pending)
    BY DEF TypeInv, PoolTypeOK, WorkerState, Emit
  <1>2. worker[w].item \in Item /\ Distinct(worker[w].item.pending)
    BY <1>1 DEF Emit, StateOK
  <1>3. worker' \in [Workers -> WorkerState] /\ \A v \in Workers : StateOK(worker'[v])
    BY <1>1, IdleOK DEF StateOK
  <1>4. /\ results' \in Seq(Item) /\ DOMAIN results' = 1..(Len(results) + 1)
        /\ DOMAIN results = 1..Len(results) /\ Len(results) \in Nat
        /\ \A i \in 1..Len(results) : results'[i] = results[i]
        /\ results'[Len(results) + 1] = worker[w].item
    BY <1>1, <1>2, AppendProperties, LenProperties
  <1>5. \A i \in DOMAIN results' : Distinct(results'[i].pending)
    BY <1>1, <1>2, <1>4
  <1>6. PoolTypeOK'
    BY <1>3, <1>4 DEF TypeInv, PoolTypeOK, WorkerState, Emit
  <1>7. RetryTypeOK'
    BY DEF TypeInv, RetryTypeOK, Emit, retryVars
  <1> QED BY <1>3, <1>5, <1>6, <1>7 DEF TypeInv, Emit, retryVars

\* What the retry phase has stays well typed when the items only grow.
LEMMA RetryGrows ==
    ASSUME RetryTypeOK, Len(items) \in Nat, Len(items)' \in Nat, Len(items) <= Len(items)',
           UNCHANGED retryVars
    PROVE  RetryTypeOK'
  <1>1. planned' \in 0..Len(items')
    BY DEF RetryTypeOK, retryVars
  <1>2. retryJobs' \in Seq([index: 1..Len(items'), provider: ProviderNames])
    <2>1. [index: 1..Len(items), provider: ProviderNames]
             \subseteq [index: 1..Len(items'), provider: ProviderNames]
      OBVIOUS
    <2> QED BY <2>1, SeqMonotonic DEF RetryTypeOK, retryVars
  <1> QED BY <1>1, <1>2 DEF RetryTypeOK, retryVars

\* The collector receives an item.
LEMMA CollectType ==
    ASSUME TypeInv, Collect
    PROVE  TypeInv'
  <1>1. /\ results \in Seq(Item) /\ items \in Seq(Item) /\ results # <<>>
        /\ items' = Append(items, Head(results)) /\ results' = Tail(results)
        /\ \A i \in DOMAIN results : Distinct(results[i].pending)
        /\ \A i \in DOMAIN items : Distinct(items[i].pending)
    BY DEF TypeInv, PoolTypeOK, Collect
  <1>2. /\ Head(results) \in Item /\ Head(results) = results[1]
        /\ results' \in Seq(Item) /\ Len(results') = Len(results) - 1
        /\ \A i \in 1..Len(results') : results'[i] = results[i + 1]
        /\ Len(results) \in Nat \ {0} /\ DOMAIN results = 1..Len(results)
        /\ DOMAIN results' = 1..Len(results')
    BY <1>1, HeadTailProperties, LenProperties, EmptySeq
  <1>3. /\ items' \in Seq(Item) /\ Len(items') = Len(items) + 1
        /\ DOMAIN items = 1..Len(items) /\ Len(items) \in Nat
        /\ DOMAIN items' = 1..(Len(items) + 1)
        /\ \A i \in 1..Len(items) : items'[i] = items[i]
        /\ items'[Len(items) + 1] = results[1]
    BY <1>1, <1>2, AppendProperties, LenProperties
  <1>4. \A i \in DOMAIN results' : Distinct(results'[i].pending)
    BY <1>1, <1>2
  <1>5. \A i \in DOMAIN items' : Distinct(items'[i].pending)
    BY <1>1, <1>2, <1>3
  <1>6. PoolTypeOK'
    BY <1>2, <1>3 DEF TypeInv, PoolTypeOK, Collect
  <1>7. RetryTypeOK'
    BY <1>3, RetryGrows DEF TypeInv, Collect
  <1> QED BY <1>4, <1>5, <1>6, <1>7 DEF TypeInv, Collect, retryVars

-----------------------------------------------------------------------------
(* The retry phase.                                                        *)

\* Distinct names stay as they are: nothing pending is dropped by Unique.
LEMMA UniqueNames ==
    ASSUME NEW names \in Seq(ProviderNames), Distinct(names)
    PROVE  Unique(names) = names
  <1>1. DOMAIN names = 1..Len(names) /\ Len(names) \in Nat
    BY LenProperties
  <1>2. \A k \in DOMAIN names : \A j \in 1..(k - 1) : names[j] # names[k]
    BY <1>1 DEF Distinct
  <1>3. {k \in DOMAIN names : \A j \in 1..(k - 1) : names[j] # names[k]} = DOMAIN names
    BY <1>2
  <1> QED BY <1>3, KeepAll DEF Unique

\* The jobs for one item are planned, and its pending list is cleared.
LEMMA PlanItemType ==
    ASSUME TypeInv, PlanItem
    PROVE  TypeInv'
  <1> DEFINE i == planned + 1
             names == items[i].pending
             new == [k \in DOMAIN names |-> [index |-> i, provider |-> names[k]]]
             cleared == [items[i] EXCEPT !.pending = <<>>]
             Jobs == [index: 1..Len(items), provider: ProviderNames]
  <1>1. /\ items \in Seq(Item) /\ planned \in 0..Len(items) /\ planned < Len(items)
        /\ retryJobs \in Seq(Jobs)
        /\ \A j \in DOMAIN items : Distinct(items[j].pending)
    BY DEF TypeInv, PoolTypeOK, RetryTypeOK, PlanItem
  <1>2. Len(items) \in Nat /\ DOMAIN items = 1..Len(items) /\ i \in 1..Len(items)
    BY <1>1, LenProperties
  <1>3. items[i] \in Item
    BY <1>1, <1>2, ElementOfSeq
  <1>4. names \in Seq(ProviderNames) /\ Unique(names) = names
    BY <1>1, <1>2, <1>3, UniqueNames DEF Item
  <1>5. retryJobs' = retryJobs \o new /\ items' = [items EXCEPT ![i].pending = <<>>]
        /\ planned' = i
    BY <1>4 DEF PlanItem
  <1>6. new \in Seq(Jobs)
    <2>1. names \in [1..Len(names) -> ProviderNames] /\ Len(names) \in Nat
      BY <1>4, LenProperties
    <2>2. new \in [1..Len(names) -> Jobs]
      BY <1>2, <2>1
    <2> HIDE DEF new, Jobs
    <2> QED BY <2>1, <2>2, SeqDef
  <1>7. cleared \in Item /\ cleared.pending = <<>>
    BY <1>3, EmptySeq DEF Item
  <1> HIDE DEF new, names
  <1>8. items' = [items EXCEPT ![i] = cleared]
    BY <1>5
  <1> HIDE DEF cleared
  <1>9. /\ items' \in Seq(Item) /\ Len(items') = Len(items) /\ DOMAIN items' = 1..Len(items)
        /\ \A j \in 1..Len(items) : items'[j] = IF j = i THEN cleared ELSE items[j]
    BY <1>1, <1>2, <1>7, <1>8, ExceptSeq, LenProperties
  <1>10. Distinct(<<>>)
    BY DEF Distinct
  <1>11. \A j \in DOMAIN items' : Distinct(items'[j].pending)
    BY <1>1, <1>2, <1>7, <1>9, <1>10
  <1> HIDE DEF i
  <1>12. PoolTypeOK'
    BY <1>9 DEF TypeInv, PoolTypeOK, PlanItem, poolVars
  <1>13. /\ retryJobs' \in Seq(Jobs) /\ Len(retryJobs') = Len(retryJobs) + Len(new)
         /\ Len(retryJobs) \in Nat /\ Len(new) \in Nat
         /\ Len(retryJobs') \in Nat
    BY <1>1, <1>5, <1>6, ConcatProperties, LenProperties
  <1>14. RetryTypeOK'
    <2>1. planned' \in 0..Len(items') /\ retryJobs' \in Seq([index: 1..Len(items'), provider: ProviderNames])
      BY <1>2, <1>5, <1>9, <1>13
    <2>2. retryNext \in 1..(Len(retryJobs') + 1)
      BY <1>13 DEF TypeInv, RetryTypeOK
    <2>3. retrier \in [Retriers -> [pc: {"idle", "asking", "exited"}, job: 0..Len(retryJobs')]]
      <3>1. [pc: {"idle", "asking", "exited"}, job: 0..Len(retryJobs)]
              \subseteq [pc: {"idle", "asking", "exited"}, job: 0..Len(retryJobs')]
        BY <1>13
      <3> QED BY <3>1 DEF TypeInv, RetryTypeOK
    <2>4. retryResults \in Seq([job: 1..Len(retryJobs'), results: Seq(ResultSet),
                                errs: Seq(ProviderNames)])
      <3>1. [job: 1..Len(retryJobs), results: Seq(ResultSet), errs: Seq(ProviderNames)]
              \subseteq [job: 1..Len(retryJobs'), results: Seq(ResultSet), errs: Seq(ProviderNames)]
        BY <1>13
      <3> QED BY <3>1, SeqMonotonic DEF TypeInv, RetryTypeOK
    <2> QED BY <2>1, <2>2, <2>3, <2>4 DEF TypeInv, RetryTypeOK, PlanItem
  <1>15. \A v \in Retriers : retrier'[v].pc = "asking" => retrier'[v].job \in DOMAIN retryJobs'
    <2>1. DOMAIN retryJobs = 1..Len(retryJobs) /\ DOMAIN retryJobs' = 1..Len(retryJobs')
      BY <1>1, <1>13, LenProperties
    <2> QED BY <1>13, <2>1 DEF TypeInv, PlanItem
  <1> QED BY <1>11, <1>12, <1>14, <1>15 DEF TypeInv, PlanItem, poolVars

\* A step of the retry phase that leaves the pool and the items alone.
LEMMA RetryStepType ==
    ASSUME TypeInv, RetryTypeOK',
           UNCHANGED <<conf, cancelled, main, poolVars, collector, items, reported, retryJobs>>,
           \A v \in Retriers : retrier'[v].pc = "asking" => retrier'[v].job \in DOMAIN retryJobs
    PROVE  TypeInv'
  <1>1. PoolTypeOK'
    BY DEF TypeInv, PoolTypeOK, poolVars
  <1> QED BY <1>1 DEF TypeInv, poolVars

\* What the invariant says of the retry jobs and the retriers.
LEMMA RetryFacts ==
    ASSUME TypeInv
    PROVE  /\ retryJobs \in Seq([index: 1..Len(items), provider: ProviderNames])
           /\ Len(retryJobs) \in Nat /\ DOMAIN retryJobs = 1..Len(retryJobs)
           /\ retryNext \in 1..(Len(retryJobs) + 1)
           /\ retrier \in [Retriers -> [pc: {"idle", "asking", "exited"}, job: 0..Len(retryJobs)]]
           /\ \A v \in Retriers : retrier[v].pc = "asking" => retrier[v].job \in 1..Len(retryJobs)
  <1>1. retryJobs \in Seq([index: 1..Len(items), provider: ProviderNames])
    BY DEF TypeInv, RetryTypeOK
  <1>2. Len(retryJobs) \in Nat /\ DOMAIN retryJobs = 1..Len(retryJobs)
    BY <1>1, LenProperties
  <1> QED BY <1>1, <1>2 DEF TypeInv, RetryTypeOK

\* A retrier receives a job.
LEMMA SendRetryType ==
    ASSUME TypeInv, NEW v \in Retriers, SendRetry(v)
    PROVE  TypeInv'
  <1> DEFINE t == [pc |-> "asking", job |-> retryNext]
  <1>1. retrier' = [retrier EXCEPT ![v] = t] /\ retryNext \in 1..Len(retryJobs)
    BY RetryFacts DEF SendRetry
  <1>2. t \in [pc: {"idle", "asking", "exited"}, job: 0..Len(retryJobs)] /\ t.job = retryNext
    BY <1>1, RetryFacts
  <1> HIDE DEF t
  <1>3. /\ retrier' \in [Retriers -> [pc: {"idle", "asking", "exited"}, job: 0..Len(retryJobs)]]
        /\ \A u \in Retriers : retrier'[u].pc = "asking" => retrier'[u].job \in DOMAIN retryJobs
    BY <1>1, <1>2, RetryFacts
  <1>4. retryNext' \in 1..(Len(retryJobs) + 1)
    BY <1>1, RetryFacts DEF SendRetry
  <1>5. RetryTypeOK'
    BY <1>3, <1>4 DEF TypeInv, RetryTypeOK, SendRetry
  <1> QED BY <1>3, <1>5, RetryStepType DEF SendRetry

\* A retrier sends its outcome.
LEMMA RetryOutcomeType ==
    ASSUME TypeInv, NEW v \in Retriers,
           NEW reports \in Seq(ResultSet), NEW errs \in Seq(ProviderNames),
           RetryOutcome(v, reports, errs)
    PROVE  TypeInv'
  <1> DEFINE Outcomes == [job: 1..Len(retryJobs), results: Seq(ResultSet), errs: Seq(ProviderNames)]
             outcome == [job |-> retrier[v].job, results |-> reports, errs |-> errs]
  <1>1. retrier[v].job \in 1..Len(retryJobs)
    BY RetryFacts DEF RetryOutcome
  <1>2. outcome \in Outcomes
    BY <1>1
  <1>3. retryResults \in Seq(Outcomes) /\ retryResults' = Append(retryResults, outcome)
    BY DEF TypeInv, RetryTypeOK, RetryOutcome
  <1> HIDE DEF outcome, Outcomes
  <1>4. retryResults' \in Seq(Outcomes)
    BY <1>2, <1>3, AppendProperties
  <1>5. IdleRetrier \in [pc: {"idle", "asking", "exited"}, job: 0..Len(retryJobs)]
        /\ IdleRetrier.pc = "idle"
    BY RetryFacts DEF IdleRetrier
  <1>6. /\ retrier' \in [Retriers -> [pc: {"idle", "asking", "exited"}, job: 0..Len(retryJobs)]]
        /\ \A u \in Retriers : retrier'[u].pc = "asking" => retrier'[u].job \in DOMAIN retryJobs
    BY <1>5, RetryFacts DEF RetryOutcome
  <1>7. RetryTypeOK'
    BY <1>4, <1>6 DEF TypeInv, RetryTypeOK, RetryOutcome, Outcomes
  <1> QED BY <1>6, <1>7, RetryStepType DEF RetryOutcome

\* A sequence of one element.
LEMMA OneIsSeq ==
    ASSUME NEW S, NEW x \in S
    PROVE  <<x>> \in Seq(S)
    OBVIOUS

\* Every step of a retrier.
LEMMA RetrierStepType ==
    ASSUME TypeInv, NEW v \in Retriers, RetrierStep(v)
    PROVE  TypeInv'
  <1>1. retrier[v].pc = "asking" => RetriedProvider(v) \in ProviderNames
    <2>1. \A k \in 1..Len(retryJobs) : retryJobs[k].provider \in ProviderNames
      <3> TAKE k \in 1..Len(retryJobs)
      <3>1. retryJobs[k] \in [index: 1..Len(items), provider: ProviderNames]
        BY RetryFacts, ElementOfSeq
      <3> QED BY <3>1
    <2> QED BY <2>1, RetryFacts DEF RetriedProvider
  <1>2. CASE RetryFails(v)
    <2>1. <<>> \in Seq(ResultSet) /\ <<RetriedProvider(v)>> \in Seq(ProviderNames)
      BY <1>1, <1>2, EmptySeq, OneIsSeq DEF RetryFails, RetryOutcome
    <2> QED BY <1>2, <2>1, RetryOutcomeType DEF RetryFails
  <1>3. CASE RetryAnswers(v)
    <2>1. PICK report \in Reports :
              RetryOutcome(v, <<Result(RetriedProvider(v), report)>>, <<>>)
      BY <1>3 DEF RetryAnswers
    <2>2. <<>> \in Seq(ProviderNames) /\ <<Result(RetriedProvider(v), report)>> \in Seq(ResultSet)
      BY <1>1, <2>1, EmptySeq, OneIsSeq, ResultType DEF RetryOutcome
    <2> QED BY <2>1, <2>2, RetryOutcomeType
  <1>4. CASE RetrierExits(v)
    <2> DEFINE t == [retrier[v] EXCEPT !.pc = "exited"]
    <2>1. retrier' = [retrier EXCEPT ![v] = t]
      BY <1>4, RetryFacts DEF RetrierExits
    <2>2. t \in [pc: {"idle", "asking", "exited"}, job: 0..Len(retryJobs)] /\ t.pc = "exited"
      BY RetryFacts
    <2> HIDE DEF t
    <2>3. /\ retrier' \in [Retriers -> [pc: {"idle", "asking", "exited"}, job: 0..Len(retryJobs)]]
          /\ \A u \in Retriers : retrier'[u].pc = "asking" => retrier'[u].job \in DOMAIN retryJobs
      BY <2>1, <2>2, RetryFacts
    <2>4. RetryTypeOK'
      BY <1>4, <2>3 DEF TypeInv, RetryTypeOK, RetrierExits
    <2> QED BY <1>4, <2>3, <2>4, RetryStepType DEF RetrierExits
  <1> QED BY <1>2, <1>3, <1>4 DEF RetrierStep

\* Every step of the retry sender and of the closer of resultCh.
LEMMA SenderStepType ==
    ASSUME TypeInv, SenderStep
    PROVE  TypeInv'
  <1>1. CASE StopRetrying
    <2>1. RetryTypeOK'
      BY <1>1 DEF TypeInv, RetryTypeOK, StopRetrying
    <2> QED BY <1>1, <2>1, RetryStepType DEF TypeInv, StopRetrying
  <1>2. CASE CloseRetryResults
    <2>1. RetryTypeOK'
      BY <1>2 DEF TypeInv, RetryTypeOK, CloseRetryResults
    <2> QED BY <1>2, <2>1, RetryStepType DEF TypeInv, CloseRetryResults
  <1> QED BY <1>1, <1>2, SendRetryType DEF SenderStep

\* An item that absorbs an outcome stays an item of the same endpoint.
LEMMA AbsorbedType ==
    ASSUME NEW item \in Item,
           NEW outcome \in [job: Nat, results: Seq(ResultSet), errs: Seq(ProviderNames)]
    PROVE  /\ Absorbed(item, outcome) \in Item
           /\ Absorbed(item, outcome).at = item.at
           /\ Absorbed(item, outcome).pending = item.pending
  <1> DEFINE told == [item EXCEPT !.results = @ \o outcome.results, !.errs = @ \o outcome.errs]
             counted == [told EXCEPT !.successes = Len(told.results)]
  <1>1. item.results \o outcome.results \in Seq(ResultSet)
    BY ConcatProperties DEF Item
  <1>2. item.errs \o outcome.errs \in Seq(ProviderNames \cup {DnsFailed})
    <2>1. outcome.errs \in Seq(ProviderNames)
      OBVIOUS
    <2>2. ProviderNames \subseteq ProviderNames \cup {DnsFailed}
      OBVIOUS
    <2>3. outcome.errs \in Seq(ProviderNames \cup {DnsFailed})
      BY <2>1, <2>2, SeqMonotonic
    <2>4. item.errs \in Seq(ProviderNames \cup {DnsFailed})
      BY DEF Item
    <2> QED BY <2>3, <2>4, ConcatProperties
  <1>3. told \in Item /\ told.at = item.at /\ told.pending = item.pending
    BY <1>1, <1>2 DEF Item
  <1>4. Absorbed(item, outcome) = ApplyMerged(counted)
    BY DEF Absorbed
  <1> HIDE DEF told
  <1>5. counted \in Item /\ counted.at = item.at /\ counted.pending = item.pending
    <2>1. Len(told.results) \in Nat
      BY <1>3, LenProperties DEF Item
    <2> QED BY <1>3, <2>1 DEF Item
  <1> HIDE DEF counted
  <1> QED BY <1>4, <1>5, ApplyMergedType

\* What the loop over resultCh does to the items: one of them has absorbed an
\* outcome, and is still the same endpoint's.
LEMMA AbsorbRetryItems ==
    ASSUME TypeInv, AbsorbRetry
    PROVE  /\ items' \in Seq(Item) /\ Len(items') = Len(items)
           /\ Len(items) \in Nat /\ DOMAIN items = 1..Len(items)
           /\ DOMAIN items' = 1..Len(items)
           /\ \A i \in 1..Len(items) : /\ items'[i].at = items[i].at
                                       /\ items'[i].pending = items[i].pending
  <1> DEFINE Outcomes == [job: 1..Len(retryJobs), results: Seq(ResultSet), errs: Seq(ProviderNames)]
             outcome == Head(retryResults)
             index == retryJobs[outcome.job].index
             item == Absorbed(items[index], outcome)
  <1>1. retryResults \in Seq(Outcomes) /\ items \in Seq(Item) /\ retryResults # <<>>
    BY DEF TypeInv, PoolTypeOK, RetryTypeOK, AbsorbRetry
  <1>2. outcome \in Outcomes
    <2> HIDE DEF Outcomes
    <2> QED BY <1>1, HeadTailProperties
  <1>3. outcome \in [job: Nat, results: Seq(ResultSet), errs: Seq(ProviderNames)]
        /\ outcome.job \in 1..Len(retryJobs)
    BY <1>2
  <1>4. index \in 1..Len(items)
    <2>1. retryJobs[outcome.job] \in [index: 1..Len(items), provider: ProviderNames]
      BY <1>3, RetryFacts, ElementOfSeq
    <2> QED BY <2>1
  <1>5. Len(items) \in Nat /\ DOMAIN items = 1..Len(items)
    BY <1>1, LenProperties
  <1>6. items[index] \in Item
    BY <1>1, <1>4, ElementOfSeq
  <1>7. items' = [items EXCEPT ![index] = item]
    BY DEF AbsorbRetry
  <1> HIDE DEF outcome
  <1>8. item \in Item /\ item.at = items[index].at /\ item.pending = items[index].pending
    BY <1>3, <1>6, AbsorbedType
  <1> HIDE DEF item, index
  <1>9. /\ items' \in Seq(Item) /\ Len(items') = Len(items)
        /\ \A j \in 1..Len(items) : items'[j] = IF j = index THEN item ELSE items[j]
    BY <1>1, <1>4, <1>7, <1>8, ExceptSeq
  <1>10. DOMAIN items' = 1..Len(items)
    BY <1>9, LenProperties
  <1> QED BY <1>4, <1>5, <1>8, <1>9, <1>10

\* An outcome is absorbed.
LEMMA AbsorbRetryType ==
    ASSUME TypeInv, AbsorbRetry
    PROVE  TypeInv'
  <1>1. PoolTypeOK'
    BY AbsorbRetryItems DEF TypeInv, PoolTypeOK, AbsorbRetry, poolVars
  <1>2. RetryTypeOK'
    <2> DEFINE Outcomes == [job: 1..Len(retryJobs), results: Seq(ResultSet),
                            errs: Seq(ProviderNames)]
    <2>1. retryResults \in Seq(Outcomes) /\ retryResults # <<>> /\ retryResults' = Tail(retryResults)
      BY DEF TypeInv, RetryTypeOK, AbsorbRetry
    <2>2. retryResults' \in Seq(Outcomes)
      <3> HIDE DEF Outcomes
      <3> QED BY <2>1, HeadTailProperties
    <2>3. Len(items') = Len(items)
      BY AbsorbRetryItems
    <2> QED BY <2>2, <2>3 DEF TypeInv, RetryTypeOK, AbsorbRetry
  <1>3. \A i \in DOMAIN items' : Distinct(items'[i].pending)
    BY AbsorbRetryItems DEF TypeInv
  <1> QED BY <1>1, <1>2, <1>3 DEF TypeInv, AbsorbRetry, poolVars

\* Nothing changes.
LEMMA StutterType ==
    ASSUME TypeInv, UNCHANGED vars
    PROVE  TypeInv'
  <1>1. PoolTypeOK'
    BY DEF TypeInv, PoolTypeOK, vars, poolVars
  <1>2. RetryTypeOK'
    BY DEF TypeInv, RetryTypeOK, vars, retryVars
  <1> QED BY <1>1, <1>2 DEF TypeInv, vars, poolVars, retryVars

\* Every step keeps the types: one case for each kind of process.
LEMMA TypeStep == TypeInv /\ [Next]_vars => TypeInv'
  <1> SUFFICES ASSUME TypeInv, [Next]_vars PROVE TypeInv'
    OBVIOUS
  <1>1. CASE MainStep
    BY <1>1, ControlSteps, DispatchType, PlanItemType, AbsorbRetryType DEF MainStep
  <1>2. ASSUME NEW w \in Workers, WorkerStep(w) \/ ItemDeadline(w) PROVE TypeInv'
    BY <1>2, CheckReturnsType, ResolveType, ResolveFailsType, LimiterRefusesType,
       ProviderFailsType, ProviderAnswersType, MergeItemType, EmitType, WorkerExitsType,
       ItemDeadlineType DEF WorkerStep
  <1>3. CASE CloseResults \/ CollectorStep \/ Cancel
    BY <1>3, ControlSteps, CollectType DEF CollectorStep
  <1>4. CASE SenderStep
    BY <1>4, SenderStepType
  <1>5. ASSUME NEW v \in Retriers, RetrierStep(v) PROVE TypeInv'
    BY <1>5, RetrierStepType
  <1>6. CASE UNCHANGED vars
    BY <1>6, StutterType
  <1> QED BY <1>1, <1>2, <1>3, <1>4, <1>5, <1>6 DEF Next

\* The types of the pool and of the retry phase hold throughout.
THEOREM BatchTypes == Spec => [](PoolTypeOK /\ RetryTypeOK)
  <1>1. TypeInv => PoolTypeOK /\ RetryTypeOK
    BY DEF TypeInv
  <1> QED BY <1>1, TypeInit, TypeStep, PTL DEF Spec

-----------------------------------------------------------------------------
(* Channels.                                                               *)

\* A step of a worker touches the state of that worker only, and a worker that
\* has exited takes no step.
LEMMA WorkerStepLocal ==
    ASSUME TypeInv, NEW w \in Workers, WorkerStep(w) \/ ItemDeadline(w)
    PROVE  /\ worker[w].pc # "exited"
           /\ \A v \in Workers : v # w => worker'[v] = worker[v]
           /\ resultsClosed' = resultsClosed /\ retrier' = retrier
           /\ retryResultsClosed' = retryResultsClosed
  <1>1. DOMAIN worker = Workers
    BY OneWorker
  <1> USE <1>1 DEF KeepAllButWorker, retryVars
  <1>2. CASE CheckReturns(w)
    BY <1>2 DEF CheckReturns
  <1>3. CASE Resolve(w)
    BY <1>3 DEF Resolve
  <1>4. CASE ResolveFails(w)
    BY <1>4 DEF ResolveFails
  <1>5. CASE LimiterRefuses(w)
    BY <1>5 DEF LimiterRefuses, Asking
  <1>6. CASE ProviderFails(w)
    BY <1>6 DEF ProviderFails, Asking
  <1>7. CASE ProviderAnswers(w)
    BY <1>7 DEF ProviderAnswers, Asking
  <1>8. CASE MergeItem(w)
    BY <1>8 DEF MergeItem
  <1>9. CASE Emit(w)
    BY <1>9 DEF Emit
  <1>10. CASE WorkerExits(w)
    BY <1>10 DEF WorkerExits
  <1>11. CASE ItemDeadline(w)
    BY <1>11 DEF ItemDeadline
  <1> QED BY <1>2, <1>3, <1>4, <1>5, <1>6, <1>7, <1>8, <1>9, <1>10, <1>11 DEF WorkerStep

\* The steps of the others leave the workers and their channel as they are,
\* but for a dispatch and for the closing of the channel.
LEMMA OthersLeaveWorkers ==
    ASSUME \/ Reject \/ Begin \/ StopSending \/ GatheringDone \/ PlanItem \/ PlanDone
           \/ AbsorbRetry \/ RetriesDrained \/ Finish \/ CollectorStep \/ SenderStep
           \/ (\E v \in Retriers : RetrierStep(v)) \/ Cancel \/ UNCHANGED vars
    PROVE  UNCHANGED <<worker, next, resultsClosed>>
  <1> USE DEF poolVars, vars
  <1>1. CASE Reject \/ Begin \/ StopSending \/ GatheringDone \/ PlanItem \/ PlanDone
    BY <1>1 DEF Reject, Begin, StopSending, GatheringDone, PlanItem, PlanDone
  <1>2. CASE AbsorbRetry \/ RetriesDrained \/ Finish \/ Cancel
    BY <1>2 DEF AbsorbRetry, RetriesDrained, Finish, Cancel
  <1>3. CASE CollectorStep
    BY <1>3 DEF CollectorStep, Collect, ReportProgress, CollectorDone
  <1>4. CASE SenderStep
    BY <1>4 DEF SenderStep, StopRetrying, CloseRetryResults, SendRetry
  <1>5. CASE \E v \in Retriers : RetrierStep(v)
    BY <1>5 DEF RetrierStep, RetryFails, RetryAnswers, RetryOutcome, RetrierExits
  <1>6. CASE UNCHANGED vars
    BY <1>6
  <1> QED BY <1>1, <1>2, <1>3, <1>4, <1>5, <1>6

\* A worker that has exited never runs again.
LEMMA ExitedStays ==
    ASSUME TypeInv, [Next]_vars, NEW w \in Workers, worker[w].pc = "exited"
    PROVE  worker'[w].pc = "exited"
  <1>1. ASSUME NEW v \in Workers, WorkerStep(v) \/ ItemDeadline(v)
        PROVE  worker'[w].pc = "exited"
    BY <1>1, WorkerStepLocal
  <1>2. ASSUME NEW v \in Workers, Dispatch(v)
        PROVE  worker'[w].pc = "exited"
    BY <1>2, OneWorker DEF Dispatch
  <1>3. CASE CloseResults
    BY <1>3 DEF CloseResults
  <1> QED BY <1>1, <1>2, <1>3, OthersLeaveWorkers DEF Next, MainStep

\* Nor does a retrier that has exited.
LEMMA RetrierExitedStays ==
    ASSUME TypeInv, [Next]_vars, NEW v \in Retriers, retrier[v].pc = "exited"
    PROVE  retrier'[v].pc = "exited"
  <1>1. DOMAIN retrier = Retriers
    BY RetryFacts
  <1>2. CASE SenderStep
    BY <1>1, <1>2 DEF SenderStep, StopRetrying, CloseRetryResults, SendRetry
  <1>3. ASSUME NEW u \in Retriers, RetrierStep(u)
        PROVE  retrier'[v].pc = "exited"
    BY <1>1, <1>3 DEF RetrierStep, RetryFails, RetryAnswers, RetryOutcome, RetrierExits
  <1>4. ASSUME NEW w \in Workers, WorkerStep(w) \/ ItemDeadline(w)
        PROVE  retrier'[v].pc = "exited"
    BY <1>4, WorkerStepLocal
  <1>5. CASE MainStep
    BY <1>5 DEF MainStep, Reject, Begin, StopSending, Dispatch, GatheringDone, PlanItem,
       PlanDone, AbsorbRetry, RetriesDrained, Finish, retryVars
  <1>6. CASE CloseResults \/ CollectorStep \/ Cancel
    BY <1>6 DEF CloseResults, CollectorStep, Collect, ReportProgress, CollectorDone, Cancel,
       retryVars
  <1>7. CASE UNCHANGED vars
    BY <1>7 DEF vars, retryVars
  <1> QED BY <1>2, <1>3, <1>4, <1>5, <1>6, <1>7 DEF Next

\* Who closes a results channel has waited for all who send on it.
LEMMA Closing ==
    ASSUME TypeInv, [Next]_vars
    PROVE  /\ resultsClosed' => resultsClosed \/ \A w \in Workers : worker[w].pc = "exited"
           /\ retryResultsClosed' =>
                 retryResultsClosed \/ \A v \in Retriers : retrier[v].pc = "exited"
           /\ resultsClosed => resultsClosed'
  <1>1. ASSUME NEW w \in Workers, WorkerStep(w) \/ ItemDeadline(w)
        PROVE  UNCHANGED <<resultsClosed, retryResultsClosed>>
    BY <1>1, WorkerStepLocal
  <1>2. CASE MainStep
    BY <1>2 DEF MainStep, Reject, Begin, StopSending, Dispatch, GatheringDone, PlanItem,
       PlanDone, AbsorbRetry, RetriesDrained, Finish, poolVars, retryVars
  <1>3. CASE CloseResults
    BY <1>3 DEF CloseResults, retryVars
  <1>4. CASE CollectorStep \/ Cancel
    BY <1>4 DEF CollectorStep, Collect, ReportProgress, CollectorDone, Cancel, poolVars,
       retryVars
  <1>5. CASE SenderStep
    BY <1>5 DEF SenderStep, StopRetrying, CloseRetryResults, SendRetry, poolVars
  <1>6. ASSUME NEW u \in Retriers, RetrierStep(u)
        PROVE  UNCHANGED <<resultsClosed, retryResultsClosed>>
    BY <1>6 DEF RetrierStep, RetryFails, RetryAnswers, RetryOutcome, RetrierExits, poolVars
  <1>7. CASE UNCHANGED vars
    BY <1>7 DEF vars, poolVars, retryVars
  <1> QED BY <1>1, <1>2, <1>3, <1>4, <1>5, <1>6, <1>7 DEF Next

\* The channels stay safe: who has exited stays so, and a closer waits for all.
LEMMA ChannelsStep ==
    TypeInv /\ NoSendOnClosedChannel /\ [Next]_vars => NoSendOnClosedChannel'
  <1> SUFFICES ASSUME TypeInv, NoSendOnClosedChannel, [Next]_vars
               PROVE  NoSendOnClosedChannel'
    OBVIOUS
  <1>1. resultsClosed' => \A w \in Workers : worker'[w].pc = "exited"
    BY Closing, ExitedStays DEF NoSendOnClosedChannel
  <1>2. retryResultsClosed' => \A v \in Retriers : retrier'[v].pc = "exited"
    BY Closing, RetrierExitedStays DEF NoSendOnClosedChannel
  <1> QED BY <1>1, <1>2 DEF NoSendOnClosedChannel

\* No send on a closed channel, whatever the pool sizes and the schedule: when
\* results and resultCh are closed, everybody who sends on them has exited.
THEOREM ChannelsSafe == Spec => []NoSendOnClosedChannel
  <1>1. Init => NoSendOnClosedChannel
    BY DEF Init, NoSendOnClosedChannel
  <1> QED BY <1>1, TypeInit, TypeStep, ChannelsStep, PTL DEF Spec

-----------------------------------------------------------------------------
(* Every endpoint in one place.                                            *)

\* A step that moves no endpoint keeps each one where it is.
LEMMA NothingMoves ==
    ASSUME EachEndpointOnce, UNCHANGED <<next, results>>,
           \A w \in Workers : Busy(w)' = Busy(w) /\ (Busy(w) => worker'[w].at = worker[w].at),
           DOMAIN items' = DOMAIN items,
           \A i \in DOMAIN items : items'[i].at = items[i].at
    PROVE  EachEndpointOnce'
  <1>1. Held' = Held /\ InPool' = InPool /\ \A w \in Held : worker'[w].at = worker[w].at
    <2>1. Held' = Held
      BY Zenon DEF Held
    <2>2. \A w \in Held : worker'[w].at = worker[w].at
      BY DEF Held
    <2> QED BY <2>1, <2>2 DEF InPool
  <1>2. InTransit' = InTransit /\ Gathered' = Gathered
    BY DEF InTransit, Gathered
  <1>3. NothingLost'
    BY <1>1, <1>2 DEF EachEndpointOnce, NothingLost
  <1>4. NothingDoubled'
    BY <1>1, <1>2 DEF EachEndpointOnce, NothingDoubled
  <1> QED BY <1>3, <1>4 DEF EachEndpointOnce

\* A dispatch takes the next endpoint, which is nowhere yet, into the pool.
LEMMA DispatchOnce ==
    ASSUME TypeInv, EachEndpointOnce, NEW w \in Workers, Dispatch(w)
    PROVE  EachEndpointOnce'
  <1>1. /\ worker[w].pc = "idle" /\ DOMAIN worker = Workers /\ next \in Nat \ {0}
        /\ worker'[w].pc = "checking" /\ worker'[w].at = next
        /\ \A v \in Workers : v # w => worker'[v] = worker[v]
        /\ next' = next + 1 /\ UNCHANGED <<results, items>>
    <2>1. DOMAIN worker = Workers /\ next \in Nat \ {0}
      BY OneWorker, ConstantTypes DEF TypeInv, PoolTypeOK
    <2>2. worker' = [worker EXCEPT ![w] = [IdleWorker EXCEPT !.pc = "checking", !.at = next]]
      BY DEF Dispatch
    <2>3. [IdleWorker EXCEPT !.pc = "checking", !.at = next].pc = "checking"
          /\ [IdleWorker EXCEPT !.pc = "checking", !.at = next].at = next
      BY DEF IdleWorker
    <2> QED BY <2>1, <2>2, <2>3 DEF Dispatch
  <1>2. Held' = Held \cup {w} /\ w \notin Held
    BY <1>1 DEF Held, Busy
  <1>3. InPool' = InPool \cup {next}
    <2>1. \A v \in Held : v # w /\ worker'[v].at = worker[v].at
      BY <1>1, <1>2 DEF Held
    <2>2. InPool' = {worker'[v].at : v \in Held \cup {w}}
      BY <1>2 DEF InPool
    <2>3. worker'[w].at = next
      BY <1>1
    <2> QED BY <2>1, <2>2, <2>3, Zenon DEF InPool
  <1>4. InTransit' = InTransit /\ Gathered' = Gathered
    BY <1>1 DEF InTransit, Gathered
  <1>5. InPool \cup InTransit \cup Gathered = 1..(next - 1)
    BY DEF EachEndpointOnce, NothingLost
  <1>6. next \notin InPool /\ next \notin InTransit /\ next \notin Gathered
    BY <1>1, <1>5
  <1>7. NothingLost'
    <2>1. 1..next = 1..(next - 1) \cup {next} /\ (next + 1) - 1 = next
      BY <1>1
    <2> QED BY <1>1, <1>3, <1>4, <1>5, <2>1 DEF NothingLost
  <1>8. \A u, v \in Held' : worker'[u].at = worker'[v].at => u = v
    <2>1. \A u \in Held : u # w /\ worker'[u].at = worker[u].at /\ worker[u].at # next
      BY <1>1, <1>2, <1>6 DEF InPool, Held
    <2> QED BY <1>1, <1>2, <2>1 DEF EachEndpointOnce, NothingDoubled
  <1>9. NothingDoubled'
    BY <1>1, <1>3, <1>4, <1>6, <1>8 DEF EachEndpointOnce, NothingDoubled
  <1> QED BY <1>7, <1>9 DEF EachEndpointOnce

\* An emission takes an endpoint from the pool into the channel.
LEMMA EmitOnce ==
    ASSUME TypeInv, EachEndpointOnce, NEW w \in Workers, Emit(w)
    PROVE  EachEndpointOnce'
  <1> DEFINE at == worker[w].at
             n == Len(results)
  <1>1. /\ worker[w].pc = "sending" /\ DOMAIN worker = Workers /\ worker[w].item.at = at
        /\ worker[w].item \in Item /\ results \in Seq(Item)
        /\ worker'[w].pc = "idle"
        /\ \A v \in Workers : v # w => worker'[v] = worker[v]
        /\ results' = Append(results, worker[w].item) /\ UNCHANGED <<next, items>>
    BY OneWorker, IdleOK DEF Emit, StateOK, TypeInv, PoolTypeOK
  <1>2. /\ n \in Nat /\ DOMAIN results = 1..n /\ DOMAIN results' = 1..(n + 1)
        /\ \A i \in 1..n : results'[i] = results[i]
        /\ results'[n + 1].at = at
    BY <1>1, AppendProperties, LenProperties
  <1> HIDE DEF n
  <1>3. w \in Held /\ Held' = Held \ {w}
    BY <1>1 DEF Held, Busy
  <1>4. at \in InPool /\ InPool' = InPool \ {at}
    <2>1. at \in InPool
      BY <1>3 DEF InPool
    <2>2. \A v \in Held' : worker'[v].at = worker[v].at /\ v \in Held /\ worker[v].at # at
      BY <1>1, <1>3 DEF EachEndpointOnce, NothingDoubled, Held
    <2> QED BY <1>3, <2>1, <2>2 DEF InPool
  <1>5. InTransit' = InTransit \cup {at} /\ Gathered' = Gathered
    BY <1>1, <1>2 DEF InTransit, Gathered
  <1>6. at \notin InTransit /\ at \notin Gathered
    BY <1>4 DEF EachEndpointOnce, NothingDoubled
  <1>7. NothingLost'
    BY <1>1, <1>4, <1>5 DEF EachEndpointOnce, NothingLost
  <1>8. \A u, v \in Held' : worker'[u].at = worker'[v].at => u = v
    BY <1>1, <1>3 DEF EachEndpointOnce, NothingDoubled, Held
  <1>9. \A i, j \in DOMAIN results' : results'[i].at = results'[j].at => i = j
    <2>1. \A i \in 1..n : results'[i].at = results[i].at /\ results[i].at # at
      BY <1>2, <1>6 DEF InTransit
    <2>2. \A i \in DOMAIN results' : i \in 1..n \/ i = n + 1
      BY <1>2
    <2> QED BY <1>2, <2>1, <2>2 DEF EachEndpointOnce, NothingDoubled
  <1>10. NothingDoubled'
    BY <1>1, <1>4, <1>5, <1>6, <1>8, <1>9 DEF EachEndpointOnce, NothingDoubled
  <1> QED BY <1>7, <1>10 DEF EachEndpointOnce

\* A collection takes the first endpoint of the channel to the gathered items.
LEMMA CollectOnce ==
    ASSUME TypeInv, EachEndpointOnce, Collect
    PROVE  EachEndpointOnce'
  <1> DEFINE at == results[1].at
             n == Len(results)
             m == Len(items)
  <1>1. /\ results \in Seq(Item) /\ items \in Seq(Item) /\ results # <<>>
        /\ items' = Append(items, Head(results)) /\ results' = Tail(results)
        /\ UNCHANGED <<next, worker>>
    BY DEF TypeInv, PoolTypeOK, Collect
  <1>2. /\ n \in Nat \ {0} /\ DOMAIN results = 1..n /\ DOMAIN results' = 1..(n - 1)
        /\ \A i \in 1..(n - 1) : results'[i] = results[i + 1]
        /\ Head(results) = results[1] /\ Head(results) \in Item
    BY <1>1, HeadTailProperties, LenProperties, EmptySeq
  <1>3. /\ m \in Nat /\ DOMAIN items = 1..m /\ DOMAIN items' = 1..(m + 1)
        /\ \A i \in 1..m : items'[i] = items[i]
        /\ items'[m + 1] = results[1]
    BY <1>1, <1>2, AppendProperties, LenProperties
  <1> HIDE DEF n, m
  <1>4. Held' = Held /\ InPool' = InPool
    BY <1>1 DEF Held, Busy, InPool
  <1>5. \A i, j \in 1..n : results[i].at = results[j].at => i = j
    BY <1>2 DEF EachEndpointOnce, NothingDoubled
  <1>6. at \in InTransit /\ InTransit' = InTransit \ {at}
    <2>1. 1 \in 1..n
      BY <1>2
    <2>2. at \in InTransit
      BY <1>2, <2>1 DEF InTransit
    <2>3. \A i \in 1..(n - 1) : i + 1 \in 1..n /\ i + 1 # 1
      BY <1>2
    <2>4. \A x \in InTransit' : x \in InTransit /\ x # at
      <3> SUFFICES ASSUME NEW i \in 1..(n - 1)
                   PROVE  results'[i].at \in InTransit /\ results'[i].at # at
        BY <1>2 DEF InTransit
      <3>1. i + 1 \in 1..n /\ i + 1 # 1 /\ results'[i] = results[i + 1]
        BY <1>2, <2>3
      <3>2. results[i + 1].at # at
        BY <1>5, <2>1, <3>1
      <3> QED BY <1>2, <3>1, <3>2 DEF InTransit
    <2>5. \A x \in InTransit : x # at => x \in InTransit'
      <3> SUFFICES ASSUME NEW i \in 1..n, results[i].at # at PROVE results[i].at \in InTransit'
        BY <1>2 DEF InTransit
      <3>1. i # 1
        OBVIOUS
      <3>2. i - 1 \in 1..(n - 1) /\ (i - 1) + 1 = i
        BY <1>2, <3>1
      <3>3. results'[i - 1] = results[i]
        BY <1>2, <3>2
      <3> QED BY <1>2, <3>2, <3>3 DEF InTransit
    <2> QED BY <2>2, <2>4, <2>5
  <1>7. Gathered' = Gathered \cup {at}
    BY <1>3 DEF Gathered
  <1>8. at \notin InPool /\ at \notin Gathered
    BY <1>6 DEF EachEndpointOnce, NothingDoubled
  <1>9. NothingLost'
    BY <1>1, <1>4, <1>6, <1>7 DEF EachEndpointOnce, NothingLost
  <1>10. \A i, j \in DOMAIN results' : results'[i].at = results'[j].at => i = j
    <2>1. \A i \in 1..(n - 1) : i + 1 \in 1..n /\ results'[i].at = results[i + 1].at
      BY <1>2
    <2>2. \A i, j \in 1..(n - 1) : results'[i].at = results'[j].at => i + 1 = j + 1
      BY <1>5, <2>1
    <2>3. \A i, j \in 1..(n - 1) : i + 1 = j + 1 => i = j
      BY <1>2
    <2> QED BY <1>2, <2>2, <2>3
  <1>11. \A i, j \in DOMAIN items' : items'[i].at = items'[j].at => i = j
    <2>1. \A i \in 1..m : items'[i].at = items[i].at /\ items[i].at # at
      BY <1>3, <1>8 DEF Gathered
    <2>2. \A i \in DOMAIN items' : i \in 1..m \/ i = m + 1
      BY <1>3
    <2> QED BY <1>3, <2>1, <2>2 DEF EachEndpointOnce, NothingDoubled
  <1>12. NothingDoubled'
    BY <1>1, <1>4, <1>6, <1>7, <1>8, <1>10, <1>11 DEF EachEndpointOnce, NothingDoubled
  <1> QED BY <1>9, <1>12 DEF EachEndpointOnce

\* Every step of a worker but the send of its item keeps the worker's endpoint.
LEMMA WorkerKeepsEndpoint ==
    ASSUME TypeInv, EachEndpointOnce, NEW w \in Workers,
           WorkerStep(w) \/ ItemDeadline(w), ~Emit(w)
    PROVE  EachEndpointOnce'
  <1>1. worker[w] \in WorkerState /\ DOMAIN worker = Workers
    BY OneWorker
  <1> USE <1>1 DEF WorkerState
  <1>2. /\ worker'[w].at = worker[w].at
        /\ worker'[w].pc \in {"idle", "exited"} <=> worker[w].pc \in {"idle", "exited"}
        /\ UNCHANGED <<next, results, items>>
    <2> USE DEF KeepAllButWorker
    <2>1. CASE CheckReturns(w)
      <3>1. \E item : \E pc \in {"resolving", "sending"} :
              worker' = [worker EXCEPT ![w].item = item, ![w].pc = pc]
        <4>1. (IF conf.abuse THEN "resolving" ELSE "sending") \in {"resolving", "sending"}
          OBVIOUS
        <4> QED BY <2>1, <4>1, Zenon DEF CheckReturns
      <3> QED BY <2>1, <3>1 DEF CheckReturns
    <2>2. CASE Resolve(w) \/ ResolveFails(w) \/ MergeItem(w)
      BY <2>2 DEF Resolve, ResolveFails, MergeItem
    <2>3. CASE LimiterRefuses(w)
      BY <2>3 DEF LimiterRefuses, Asking
    <2>6. CASE ProviderFails(w)
      <3>1. PICK err \in ErrorKinds :
              worker' = [worker EXCEPT
                 ![w].asked = @ + 1,
                 ![w].item.pending = IF Retryable(err) THEN Append(@, NextProvider(w)) ELSE @,
                 ![w].item.errs = IF Retryable(err) THEN @ ELSE Append(@, NextProvider(w))]
        BY <2>6 DEF ProviderFails
      <3>2. worker'[w].at = worker[w].at /\ worker'[w].pc = worker[w].pc
        BY <3>1
      <3> QED BY <2>6, <3>2 DEF ProviderFails
    <2>7. CASE ProviderAnswers(w)
      <3>1. PICK report \in Reports :
              worker' = [worker EXCEPT
                 ![w].asked = @ + 1,
                 ![w].item.results = Append(@, Result(NextProvider(w), report))]
        BY <2>7 DEF ProviderAnswers
      <3>2. worker'[w].at = worker[w].at /\ worker'[w].pc = worker[w].pc
        BY <3>1
      <3> QED BY <2>7, <3>2 DEF ProviderAnswers
    <2>4. CASE WorkerExits(w)
      BY <2>4 DEF WorkerExits
    <2>5. CASE ItemDeadline(w)
      BY <2>5 DEF ItemDeadline
    <2> QED BY <2>1, <2>2, <2>3, <2>4, <2>5, <2>6, <2>7 DEF WorkerStep
  <1>3. \A v \in Workers : v # w => worker'[v] = worker[v]
    BY WorkerStepLocal
  <1>4. \A v \in Workers : Busy(v)' = Busy(v) /\ (Busy(v) => worker'[v].at = worker[v].at)
    BY <1>2, <1>3, Zenon DEF Busy
  <1> QED BY <1>2, <1>4, NothingMoves

\* Every step keeps each endpoint in one place.
LEMMA EndpointsStep ==
    TypeInv /\ EachEndpointOnce /\ [Next]_vars => EachEndpointOnce'
  <1> SUFFICES ASSUME TypeInv, EachEndpointOnce, [Next]_vars PROVE EachEndpointOnce'
    OBVIOUS
  <1>1. ASSUME UNCHANGED <<next, results, worker, items>> PROVE EachEndpointOnce'
    BY <1>1, NothingMoves DEF Busy
  <1>2. ASSUME NEW w \in Workers, WorkerStep(w) \/ ItemDeadline(w) PROVE EachEndpointOnce'
    BY <1>2, EmitOnce, WorkerKeepsEndpoint
  <1>3. CASE Reject \/ Begin \/ StopSending \/ GatheringDone \/ PlanDone \/ RetriesDrained \/ Finish
    BY <1>1, <1>3 DEF Reject, Begin, StopSending, GatheringDone, PlanDone, RetriesDrained,
       Finish, poolVars
  <1>4. CASE PlanItem
    <2>1. DOMAIN items' = DOMAIN items /\ \A i \in DOMAIN items : items'[i].at = items[i].at
      <3> DEFINE p == planned + 1
      <3>1. items \in Seq(Item) /\ items' = [items EXCEPT ![p].pending = <<>>]
        BY <1>4 DEF PlanItem, TypeInv, PoolTypeOK
      <3>2. \A i \in DOMAIN items : items[i] \in Item
        <4>1. DOMAIN items = 1..Len(items)
          BY <3>1, LenProperties
        <4> QED BY <3>1, <4>1, ElementOfSeq
      <3> HIDE DEF p
      <3> QED BY <3>1, <3>2 DEF Item
    <2> QED BY <1>4, <2>1, NothingMoves DEF PlanItem, poolVars, Busy
  <1>5. CASE AbsorbRetry
    BY <1>5, AbsorbRetryItems, NothingMoves DEF AbsorbRetry, poolVars, Busy
  <1>6. CASE CloseResults \/ ReportProgress \/ CollectorDone \/ Cancel \/ UNCHANGED vars
    BY <1>1, <1>6 DEF CloseResults, ReportProgress, CollectorDone, Cancel, poolVars, vars
  <1>7. CASE SenderStep
    BY <1>1, <1>7 DEF SenderStep, StopRetrying, CloseRetryResults, SendRetry, poolVars
  <1>8. ASSUME NEW v \in Retriers, RetrierStep(v) PROVE EachEndpointOnce'
    BY <1>1, <1>8 DEF RetrierStep, RetryFails, RetryAnswers, RetryOutcome, RetrierExits,
       poolVars
  <1> QED BY <1>2, <1>3, <1>4, <1>5, <1>6, <1>7, <1>8, DispatchOnce, CollectOnce
          DEF Next, MainStep, CollectorStep

\* At the start no endpoint has been handed out.
LEMMA EndpointsInit == Init => EachEndpointOnce
  <1> SUFFICES ASSUME Init PROVE EachEndpointOnce
    OBVIOUS
  <1>1. /\ next = 1 /\ DOMAIN results = {} /\ DOMAIN items = {}
        /\ \A w \in Workers : worker[w].pc = "idle"
    BY IdleOK DEF Init
  <1>2. Held = {} /\ InPool = {} /\ InTransit = {} /\ Gathered = {}
    BY <1>1 DEF Held, Busy, InPool, InTransit, Gathered
  <1>3. 1..(next - 1) = {}
    BY <1>1
  <1> QED BY <1>1, <1>2, <1>3 DEF EachEndpointOnce, NothingLost, NothingDoubled

\* Whatever the pool sizes, the endpoints and the schedule, an endpoint that was
\* handed to a worker is in exactly one place and never handed out twice.
THEOREM EndpointsOnce == Spec => []EachEndpointOnce
  BY EndpointsInit, EndpointsStep, TypeInit, TypeStep, PTL DEF Spec

-----------------------------------------------------------------------------
(* The hand-over from the collector to main.                               *)

Late == {"planning", "retrying", "finishing", "returned"}

\* The collector stops only when the closed channel is empty, main goes on only
\* when the collector has stopped, and it has stopped sending only when all is
\* sent or the context is cancelled.
HandOver ==
    /\ collector = "done" => resultsClosed /\ results = <<>>
    /\ main \in Late => collector = "done"
    /\ main \in Late \cup {"waiting"} => next = Len(Endpoints) + 1 \/ cancelled
    /\ ProgressExact

\* At the start nothing is handed over.
LEMMA HandOverInit == Init => HandOver
  <1> SUFFICES ASSUME Init PROVE HandOver
    OBVIOUS
  <1>1. /\ Len(items) = 0 /\ main = "start" /\ collector = "receiving" /\ reported = 0
    BY EmptySeq DEF Init
  <1> QED BY <1>1 DEF HandOver, Late, ProgressExact

\* A step that changes none of what the hand-over is about keeps it.
LEMMA HandOverKept ==
    ASSUME HandOver, UNCHANGED <<collector, resultsClosed, results, next, reported>>,
           Len(items') = Len(items),
           main' \in Late => main \in Late,
           main' = "waiting" => main \in Late \cup {"waiting"},
           cancelled => cancelled'
    PROVE  HandOver'
    BY DEF HandOver, ProgressExact, Late

\* Once results is closed, nothing is sent on it any more.
LEMMA HandOverWorkers ==
    ASSUME TypeInv, NoSendOnClosedChannel, HandOver, NEW w \in Workers,
           WorkerStep(w) \/ ItemDeadline(w)
    PROVE  HandOver'
  <1>1. UNCHANGED <<collector, main, next, cancelled, items, reported, resultsClosed>>
    BY DEF WorkerStep, CheckReturns, Resolve, ResolveFails, LimiterRefuses, ProviderFails,
       ProviderAnswers, MergeItem, Emit, WorkerExits, ItemDeadline, KeepAllButWorker
  <1>2. ~resultsClosed
    BY WorkerStepLocal DEF NoSendOnClosedChannel
  <1> QED BY <1>1, <1>2 DEF HandOver, ProgressExact, Late

\* Every step respects the hand-over.
LEMMA HandOverStep ==
    TypeInv /\ NoSendOnClosedChannel /\ HandOver /\ [Next]_vars => HandOver'
  <1> SUFFICES ASSUME TypeInv, NoSendOnClosedChannel, HandOver, [Next]_vars
               PROVE  HandOver'
    OBVIOUS
  <1> USE DEF poolVars
  <1>1. /\ next \in 1..(Len(Endpoints) + 1) /\ Positions = 1..Len(Endpoints)
        /\ items \in Seq(Item) /\ results \in Seq(Item) /\ Len(items) \in Nat
        /\ Len(Endpoints) \in Nat
    BY ConstantTypes, LenProperties DEF TypeInv, PoolTypeOK
  <1>2. CASE Reject \/ Begin
    BY <1>2, HandOverKept DEF Reject, Begin, Late
  <1>3. CASE StopSending
    BY <1>1, <1>3 DEF StopSending, HandOver, Late, ProgressExact
  <1>4. ASSUME NEW w \in Workers, Dispatch(w) PROVE HandOver'
    BY <1>4 DEF Dispatch, HandOver, Late, ProgressExact
  <1>5. CASE GatheringDone
    <2>1. main' \in {"planning", "finishing"}
      BY <1>5 DEF GatheringDone
    <2> QED BY <1>5, <2>1 DEF GatheringDone, HandOver, Late, ProgressExact
  <1>6. CASE PlanItem
    <2>1. Len(items') = Len(items)
      <3> DEFINE p == planned + 1
                 cleared == [items[p] EXCEPT !.pending = <<>>]
      <3>1. p \in 1..Len(items) /\ DOMAIN items = 1..Len(items)
        BY <1>1, <1>6, LenProperties DEF PlanItem, TypeInv, RetryTypeOK
      <3>2. items' = [items EXCEPT ![p] = cleared]
        BY <1>6 DEF PlanItem
      <3> HIDE DEF p, cleared
      <3> QED BY <1>1, <3>1, <3>2
    <2> QED BY <1>6, <2>1, HandOverKept DEF PlanItem
  <1>7. CASE PlanDone
    <2>1. main' \in {"retrying", "finishing"} /\ main = "planning"
      BY <1>7 DEF PlanDone
    <2> QED BY <1>7, <2>1, HandOverKept DEF PlanDone, Late
  <1>8. CASE AbsorbRetry
    BY <1>8, AbsorbRetryItems, HandOverKept DEF AbsorbRetry
  <1>9. CASE RetriesDrained \/ Finish
    BY <1>9, HandOverKept DEF RetriesDrained, Finish, Late
  <1>10. CASE CloseResults
    BY <1>10 DEF CloseResults, HandOver, Late, ProgressExact
  <1>11. CASE Collect
    <2>1. Len(items') = Len(items) + 1
      <3>1. Head(results) \in Item
        BY <1>1, <1>11, HeadTailProperties DEF Collect
      <3> QED BY <1>1, <1>11, <3>1, AppendProperties DEF Collect
    <2>2. collector = "receiving" /\ collector' = "reporting" /\ main' = main
          /\ UNCHANGED <<reported, next, cancelled>>
      BY <1>11 DEF Collect
    <2>3. (Len(items) + 1) - 1 = Len(items)
      BY <1>1
    <2> QED BY <2>1, <2>2, <2>3 DEF HandOver, Late, ProgressExact
  <1>12. CASE ReportProgress
    <2>1. collector = "reporting" /\ collector' = "receiving" /\ reported' = reported + 1
          /\ UNCHANGED <<main, next, cancelled, items>>
      BY <1>12 DEF ReportProgress
    <2>2. reported + 1 = Len(items)
      BY <1>1, <2>1 DEF HandOver, ProgressExact
    <2> QED BY <2>1, <2>2 DEF HandOver, Late, ProgressExact
  <1>13. CASE CollectorDone
    BY <1>13 DEF CollectorDone, HandOver, Late, ProgressExact
  <1>14. CASE SenderStep
    BY <1>14, HandOverKept DEF SenderStep, StopRetrying, CloseRetryResults, SendRetry
  <1>15. ASSUME NEW v \in Retriers, RetrierStep(v) PROVE HandOver'
    <2>1. UNCHANGED <<collector, resultsClosed, results, next, reported, main, cancelled, items>>
      BY <1>15 DEF RetrierStep, RetryFails, RetryAnswers, RetryOutcome, RetrierExits
    <2> QED BY <2>1, HandOverKept
  <1>16. CASE Cancel \/ UNCHANGED vars
    BY <1>16, HandOverKept DEF Cancel, vars
  <1> QED BY <1>2, <1>3, <1>4, <1>5, <1>6, <1>7, <1>8, <1>9, <1>10, <1>11, <1>12, <1>13,
             <1>14, <1>15, <1>16, HandOverWorkers DEF Next, MainStep, CollectorStep

\* When main reads the items, nobody else can write them any more: all workers
\* are done, every item is gathered and reported, and without a cancellation
\* there is one for every endpoint.
THEOREM GatheringComplete == Spec => []GatheredBeforeUse
  <1>1. TypeInv /\ NoSendOnClosedChannel /\ HandOver /\ EachEndpointOnce => GatheredBeforeUse
    <2> SUFFICES ASSUME TypeInv, NoSendOnClosedChannel, HandOver, EachEndpointOnce,
                        main \in Late
                 PROVE  /\ \A w \in Workers : ~Busy(w)
                        /\ results = <<>>
                        /\ reported = Len(items)
                        /\ ~cancelled => Gathered = Positions
      BY DEF GatheredBeforeUse, Late
    <2>1. collector = "done" /\ resultsClosed /\ results = <<>>
      BY DEF HandOver
    <2>2. \A w \in Workers : ~Busy(w)
      BY <2>1 DEF NoSendOnClosedChannel, Busy
    <2>3. reported = Len(items)
      BY <2>1 DEF HandOver, ProgressExact
    <2>4. ~cancelled => Gathered = Positions
      <3>1. InPool = {} /\ InTransit = {}
        BY <2>1, <2>2 DEF InPool, Held, InTransit
      <3>2. Gathered = 1..(next - 1)
        BY <3>1 DEF EachEndpointOnce, NothingLost
      <3>3. ~cancelled => next = Len(Endpoints) + 1
        BY DEF HandOver
      <3> QED BY <3>2, <3>3, ConstantTypes
    <2> QED BY <2>1, <2>2, <2>3, <2>4
  <1>2. Init => NoSendOnClosedChannel
    BY DEF Init, NoSendOnClosedChannel
  <1> QED BY <1>1, <1>2, TypeInit, TypeStep, ChannelsStep, EndpointsInit, EndpointsStep,
             HandOverInit, HandOverStep, PTL DEF Spec

-----------------------------------------------------------------------------
(* The verdict an item carries is always that of the answers it holds, so  *)
(* a late answer never leaves an earlier verdict standing, and nothing is  *)
(* taken for clean without a provider's word; and the answer Run returns   *)
(* is filtered and sorted.                                                 *)

MergedItem(item) ==
    LET merged == Merge(ReportsOf(item.results))
    IN  /\ item.successes = Len(item.results)
        /\ item.score = merged.score
        /\ item.purity = merged.purity
        /\ item.country = merged.country

\* An item that leaves its worker, or has not met a provider yet, is merged;
\* only while its worker asks is it behind.
Fresh ==
    conf.abuse =>
        /\ \A w \in Workers :
              worker[w].pc \in {"resolving", "sending"} => MergedItem(worker[w].item)
        /\ \A i \in DOMAIN results : MergedItem(results[i])
        /\ \A i \in DOMAIN items : MergedItem(items[i])

-----------------------------------------------------------------------------
\* With no answer there is no verdict.
LEMMA MergeNone ==
    ASSUME NEW told, DOMAIN told = {}
    PROVE  /\ Merge(ReportsOf(told)).score = 0
           /\ Merge(ReportsOf(told)).purity = "unknown"
           /\ Merge(ReportsOf(told)).country = NoCountry
  <1>1. ReportsOf(told) = <<>>
    BY DEF ReportsOf
  <1>2. DOMAIN <<>> = {}
    OBVIOUS
  <1>3. FirstCountry(<<>>) = NoCountry
    BY <1>2, Zenon DEF FirstCountry
  <1>4. Highest({0}) = 0
    BY DEF Highest
  <1> DEFINE none == {NormalizeResult(<<>>[i]) : i \in DOMAIN <<>>}
             signals == [score      |-> Highest({0} \cup {r.score : r \in none}),
                         anonymizer |-> \E r \in none : r.anonymizer,
                         datacenter |-> \E r \in none : r.datacenter,
                         purity     |-> "unknown",
                         country    |-> FirstCountry(<<>>)]
  <1>5. {0} \cup {r.score : r \in none} = {0}
    BY <1>2
  <1>6. Merge(<<>>) = signals
    BY DEF Merge
  <1>7. signals.score = Highest({0} \cup {r.score : r \in none}) /\ signals.purity = "unknown"
        /\ signals.country = FirstCountry(<<>>)
    OBVIOUS
  <1> QED BY <1>1, <1>3, <1>4, <1>5, <1>6, <1>7, Zenon

\* An item no provider was asked about is merged.
LEMMA NewItemMerged ==
    ASSUME NEW at \in Positions, NEW reachable \in BOOLEAN
    PROVE  MergedItem(NewItem(at, reachable))
  <1> DEFINE item == NewItem(at, reachable)
  <1>1. /\ item.results = <<>> /\ item.successes = 0 /\ item.score = 0
        /\ item.purity = "unknown" /\ item.country = NoCountry
    BY DEF NewItem
  <1>2. DOMAIN <<>> = {} /\ Len(<<>>) = 0
    OBVIOUS
  <1> HIDE DEF item
  <1>3. MergedItem(item)
    BY <1>1, <1>2, MergeNone DEF MergedItem
  <1> QED BY <1>3 DEF item

\* applyMergedProviderResults, with the successes counted, merges the item.
LEMMA ApplyMergedMerges ==
    ASSUME NEW item \in Item, item.successes = Len(item.results)
    PROVE  MergedItem(ApplyMerged(item))
  <1> DEFINE merged == Merge(ReportsOf(item.results))
  <1>1. ApplyMerged(item) = [item EXCEPT !.score = merged.score, !.purity = merged.purity,
                                         !.country = merged.country]
    BY DEF ApplyMerged
  <1> HIDE DEF merged
  <1>2. /\ ApplyMerged(item).successes = item.successes
        /\ ApplyMerged(item).results = item.results
        /\ ApplyMerged(item).score = merged.score
        /\ ApplyMerged(item).purity = merged.purity
        /\ ApplyMerged(item).country = merged.country
    BY <1>1 DEF Item
  <1> QED BY <1>2 DEF MergedItem, merged

\* What is put aside, what fails and what is cleared does not matter to it.
LEMMA MergedKept ==
    ASSUME NEW item, NEW other, MergedItem(item),
           other.results = item.results, other.successes = item.successes,
           other.score = item.score, other.purity = item.purity, other.country = item.country
    PROVE  MergedItem(other)
    BY DEF MergedItem

-----------------------------------------------------------------------------
\* At the start there is no item.
LEMMA FreshInit == Init => Fresh
  <1> SUFFICES ASSUME Init PROVE Fresh
    OBVIOUS
  <1>1. /\ DOMAIN results = {} /\ DOMAIN items = {}
        /\ \A w \in Workers : worker[w].pc = "idle"
    BY IdleOK DEF Init
  <1> QED BY <1>1 DEF Fresh

\* A worker's step keeps the others' items and the gathered ones.
LEMMA FreshWorker ==
    ASSUME TypeInv, Fresh, NEW w \in Workers, WorkerStep(w) \/ ItemDeadline(w),
           UNCHANGED <<conf, results, items>>,
           conf.abuse /\ worker'[w].pc \in {"resolving", "sending"}
              => MergedItem(worker'[w].item)
    PROVE  Fresh'
  <1>1. \A v \in Workers : v # w => worker'[v] = worker[v]
    BY WorkerStepLocal
  <1>2. ASSUME conf.abuse, NEW v \in Workers, worker'[v].pc \in {"resolving", "sending"}
        PROVE  MergedItem(worker'[v].item)
    BY <1>1, <1>2 DEF Fresh
  <1> QED BY <1>2 DEF Fresh, MergedItem

\* Every step of a worker.
LEMMA FreshWorkerStep ==
    ASSUME TypeInv, Fresh, NEW w \in Workers, WorkerStep(w) \/ ItemDeadline(w)
    PROVE  Fresh'
  <1> DEFINE s == worker[w]
  <1>1. s \in WorkerState /\ StateOK(s) /\ DOMAIN worker = Workers
    BY OneWorker
  <1>2. CASE Emit(w)
    <2>1. /\ s.pc = "sending" /\ s.item \in Item /\ worker' = [worker EXCEPT ![w] = IdleWorker]
          /\ results' = Append(results, s.item) /\ UNCHANGED <<conf, items>>
          /\ results \in Seq(Item)
      BY <1>1, <1>2 DEF Emit, StateOK, TypeInv, PoolTypeOK
    <2>2. /\ DOMAIN results' = 1..(Len(results) + 1) /\ DOMAIN results = 1..Len(results)
          /\ \A i \in 1..Len(results) : results'[i] = results[i]
          /\ results'[Len(results) + 1] = s.item /\ Len(results) \in Nat
      BY <2>1, AppendProperties, LenProperties
    <2>3. \A i \in DOMAIN results' : i \in DOMAIN results \/ i = Len(results) + 1
      BY <2>2
    <2>4. IdleWorker.pc = "idle"
      BY IdleOK
    <2>5. \A v \in Workers : v # w => worker'[v] = worker[v]
      BY <1>1, <2>1
    <2>6. worker'[w].pc = "idle"
      BY <1>1, <2>1, <2>4
    <2>7. conf.abuse => MergedItem(s.item)
      BY <2>1 DEF Fresh
    <2>8. ASSUME conf.abuse, NEW i \in DOMAIN results' PROVE MergedItem(results'[i])
      BY <2>2, <2>3, <2>7, <2>8 DEF Fresh
    <2>9. ASSUME conf.abuse, NEW v \in Workers, worker'[v].pc \in {"resolving", "sending"}
          PROVE  MergedItem(worker'[v].item)
      BY <2>5, <2>6, <2>9 DEF Fresh
    <2> QED BY <2>1, <2>8, <2>9 DEF Fresh, MergedItem
  <1>3. CASE ~Emit(w)
    <2>1. UNCHANGED <<conf, results, items>>
      BY <1>3 DEF WorkerStep, CheckReturns, Resolve, ResolveFails, LimiterRefuses,
         ProviderFails, ProviderAnswers, MergeItem, WorkerExits, ItemDeadline, KeepAllButWorker
    <2>2. ASSUME conf.abuse, worker'[w].pc \in {"resolving", "sending"}
          PROVE  MergedItem(worker'[w].item)
      <3>1. CASE CheckReturns(w)
        <4>1. PICK reachable \in BOOLEAN :
                worker' = [worker EXCEPT
                   ![w].item = IF ~conf.abuse /\ reachable
                                 THEN [NewItem(s.at, reachable) EXCEPT !.purity = "clean"]
                                 ELSE NewItem(s.at, reachable),
                   ![w].pc   = IF conf.abuse THEN "resolving" ELSE "sending"]
          BY <3>1 DEF CheckReturns
        <4>2. worker'[w].item = NewItem(s.at, reachable)
          BY <1>1, <2>2, <4>1 DEF WorkerState
        <4>3. s.at \in Positions
          BY <1>1, <3>1 DEF StateOK, CheckReturns
        <4> QED BY <4>2, <4>3, NewItemMerged
      <3>2. CASE Resolve(w)
        BY <1>1, <2>2, <3>2 DEF Resolve, WorkerState
      <3>3. CASE ResolveFails(w)
        <4> DEFINE item == [s.item EXCEPT !.errs = Append(@, DnsFailed)]
        <4>1. s.pc = "resolving" /\ s.item \in Item /\ MergedItem(s.item)
          BY <1>1, <2>2, <3>3 DEF ResolveFails, StateOK, Fresh
        <4>2. worker'[w].item = item
          BY <1>1, <3>3 DEF ResolveFails, WorkerState
        <4>3. /\ item.results = s.item.results /\ item.successes = s.item.successes
              /\ item.score = s.item.score /\ item.purity = s.item.purity
              /\ item.country = s.item.country
          BY <4>1 DEF Item
        <4> HIDE DEF item
        <4> QED BY <4>1, <4>2, <4>3, MergedKept
      <3>4. CASE LimiterRefuses(w)
        BY <1>1, <2>2, <3>4 DEF LimiterRefuses, Asking, WorkerState
      <3>5. CASE ProviderFails(w)
        <4>1. PICK err \in ErrorKinds :
                worker' = [worker EXCEPT
                   ![w].asked = @ + 1,
                   ![w].item.pending = IF Retryable(err) THEN Append(@, NextProvider(w)) ELSE @,
                   ![w].item.errs = IF Retryable(err) THEN @ ELSE Append(@, NextProvider(w))]
          BY <3>5 DEF ProviderFails
        <4>2. worker'[w].pc = s.pc
          BY <1>1, <4>1 DEF WorkerState
        <4> QED BY <2>2, <3>5, <4>2 DEF ProviderFails, Asking
      <3>6. CASE ProviderAnswers(w)
        <4>1. PICK report \in Reports :
                worker' = [worker EXCEPT
                   ![w].asked = @ + 1,
                   ![w].item.results = Append(@, Result(NextProvider(w), report))]
          BY <3>6 DEF ProviderAnswers
        <4>2. worker'[w].pc = s.pc
          BY <1>1, <4>1 DEF WorkerState
        <4> QED BY <2>2, <3>6, <4>2 DEF ProviderAnswers, Asking
      <3>7. CASE MergeItem(w)
        <4> DEFINE counted == [s.item EXCEPT !.successes = Len(s.item.results)]
        <4>1. s.item \in Item
          BY <1>1, <3>7 DEF MergeItem, StateOK
        <4>2. worker'[w].item = ApplyMerged(counted)
          BY <1>1, <3>7 DEF MergeItem, WorkerState
        <4>3. counted \in Item /\ counted.successes = Len(counted.results)
          <5>1. Len(s.item.results) \in Nat
            BY <4>1, LenProperties DEF Item
          <5> QED BY <4>1, <5>1 DEF Item
        <4> HIDE DEF counted
        <4> QED BY <4>2, <4>3, ApplyMergedMerges
      <3>8. CASE WorkerExits(w)
        BY <1>1, <2>2, <3>8 DEF WorkerExits, WorkerState
      <3>9. CASE ItemDeadline(w)
        <4>1. worker'[w].item = s.item /\ worker'[w].pc = s.pc
          BY <1>1, <3>9 DEF ItemDeadline, WorkerState
        <4> QED BY <2>2, <4>1 DEF Fresh
      <3> QED BY <1>3, <3>1, <3>2, <3>3, <3>4, <3>5, <3>6, <3>7, <3>8, <3>9 DEF WorkerStep
    <2> QED BY <2>1, <2>2, FreshWorker
  <1> QED BY <1>2, <1>3

\* The collector gathers merged items.
LEMMA FreshCollect ==
    ASSUME TypeInv, Fresh, Collect
    PROVE  Fresh'
  <1>1. /\ results \in Seq(Item) /\ items \in Seq(Item) /\ results # <<>>
        /\ items' = Append(items, Head(results)) /\ results' = Tail(results)
        /\ UNCHANGED <<conf, worker>>
    BY DEF TypeInv, PoolTypeOK, Collect
  <1>2. /\ Len(results) \in Nat \ {0} /\ DOMAIN results = 1..Len(results)
        /\ DOMAIN results' = 1..(Len(results) - 1)
        /\ \A i \in 1..(Len(results) - 1) : results'[i] = results[i + 1]
        /\ Head(results) = results[1] /\ Head(results) \in Item
    BY <1>1, HeadTailProperties, LenProperties, EmptySeq
  <1>3. /\ Len(items) \in Nat /\ DOMAIN items = 1..Len(items)
        /\ DOMAIN items' = 1..(Len(items) + 1)
        /\ \A i \in 1..Len(items) : items'[i] = items[i]
        /\ items'[Len(items) + 1] = results[1]
    BY <1>1, <1>2, AppendProperties, LenProperties
  <1>4. ASSUME conf.abuse, NEW i \in DOMAIN results' PROVE MergedItem(results'[i])
    <2>1. i + 1 \in DOMAIN results /\ results'[i] = results[i + 1]
      BY <1>2
    <2> QED BY <1>4, <2>1 DEF Fresh
  <1>5. ASSUME conf.abuse, NEW i \in DOMAIN items' PROVE MergedItem(items'[i])
    <2>1. 1 \in DOMAIN results
      BY <1>2
    <2>2. i \in DOMAIN items \/ i = Len(items) + 1
      BY <1>3
    <2> QED BY <1>3, <1>5, <2>1, <2>2 DEF Fresh
  <1> QED BY <1>1, <1>4, <1>5 DEF Fresh, MergedItem

\* A step that changes one gathered item, and merges it or keeps it merged.
LEMMA FreshOneItem ==
    ASSUME Fresh, UNCHANGED <<conf, worker, results>>,
           DOMAIN items' = DOMAIN items,
           NEW i \in DOMAIN items,
           \A j \in DOMAIN items : j # i => items'[j] = items[j],
           MergedItem(items[i]) => MergedItem(items'[i])
    PROVE  Fresh'
  <1>1. ASSUME conf.abuse, NEW j \in DOMAIN items' PROVE MergedItem(items'[j])
    BY <1>1 DEF Fresh
  <1> QED BY <1>1 DEF Fresh, MergedItem

\* Clearing the pending list does not touch the verdict.
LEMMA FreshPlan ==
    ASSUME TypeInv, Fresh, PlanItem
    PROVE  Fresh'
  <1> DEFINE i == planned + 1
             cleared == [items[i] EXCEPT !.pending = <<>>]
  <1>1. items \in Seq(Item) /\ items' = [items EXCEPT ![i] = cleared]
        /\ UNCHANGED <<conf, worker, results>>
    BY DEF PlanItem, TypeInv, PoolTypeOK, poolVars
  <1>2. i \in 1..Len(items) /\ DOMAIN items = 1..Len(items)
    <2>1. Len(items) \in Nat /\ DOMAIN items = 1..Len(items)
      BY <1>1, LenProperties
    <2> QED BY <2>1 DEF PlanItem, TypeInv, RetryTypeOK
  <1>3. items[i] \in Item
    BY <1>1, <1>2, ElementOfSeq
  <1>4. /\ cleared.results = items[i].results /\ cleared.successes = items[i].successes
        /\ cleared.score = items[i].score /\ cleared.purity = items[i].purity
        /\ cleared.country = items[i].country
    BY <1>3 DEF Item
  <1> HIDE DEF cleared, i
  <1>5. /\ DOMAIN items' = DOMAIN items /\ items'[i] = cleared
        /\ \A j \in DOMAIN items : j # i => items'[j] = items[j]
    BY <1>1, <1>2
  <1>6. MergedItem(items[i]) => MergedItem(items'[i])
    BY <1>4, <1>5, MergedKept
  <1> QED BY <1>1, <1>2, <1>5, <1>6, FreshOneItem

\* An absorbed answer is part of the verdict at once.
LEMMA AbsorbedMerged ==
    ASSUME NEW item \in Item,
           NEW outcome \in [job: Nat, results: Seq(ResultSet), errs: Seq(ProviderNames)]
    PROVE  MergedItem(Absorbed(item, outcome))
  <1> DEFINE told == [item EXCEPT !.results = @ \o outcome.results, !.errs = @ \o outcome.errs]
             counted == [told EXCEPT !.successes = Len(told.results)]
  <1>1. item.results \o outcome.results \in Seq(ResultSet)
    BY ConcatProperties DEF Item
  <1>2. item.errs \o outcome.errs \in Seq(ProviderNames \cup {DnsFailed})
    <2>1. outcome.errs \in Seq(ProviderNames)
      OBVIOUS
    <2>2. ProviderNames \subseteq ProviderNames \cup {DnsFailed}
      OBVIOUS
    <2>3. outcome.errs \in Seq(ProviderNames \cup {DnsFailed})
      BY <2>1, <2>2, SeqMonotonic
    <2>4. item.errs \in Seq(ProviderNames \cup {DnsFailed})
      BY DEF Item
    <2> QED BY <2>3, <2>4, ConcatProperties
  <1>3. told \in Item
    BY <1>1, <1>2 DEF Item
  <1>4. Absorbed(item, outcome) = ApplyMerged(counted)
    BY DEF Absorbed
  <1> HIDE DEF told
  <1>5. counted \in Item /\ counted.successes = Len(counted.results)
    <2>1. Len(told.results) \in Nat
      BY <1>3, LenProperties DEF Item
    <2> QED BY <1>3, <2>1 DEF Item
  <1> HIDE DEF counted
  <1> QED BY <1>4, <1>5, ApplyMergedMerges

\* Absorbing an outcome merges the item again.
LEMMA FreshAbsorb ==
    ASSUME TypeInv, Fresh, AbsorbRetry
    PROVE  Fresh'
  <1> DEFINE Outcomes == [job: 1..Len(retryJobs), results: Seq(ResultSet), errs: Seq(ProviderNames)]
             outcome == Head(retryResults)
             index == retryJobs[outcome.job].index
             item == Absorbed(items[index], outcome)
  <1>1. retryResults \in Seq(Outcomes) /\ items \in Seq(Item) /\ retryResults # <<>>
    BY DEF TypeInv, PoolTypeOK, RetryTypeOK, AbsorbRetry
  <1>2. outcome \in Outcomes
    <2> HIDE DEF Outcomes
    <2> QED BY <1>1, HeadTailProperties
  <1>3. outcome \in [job: Nat, results: Seq(ResultSet), errs: Seq(ProviderNames)]
        /\ outcome.job \in 1..Len(retryJobs)
    BY <1>2
  <1>4. index \in 1..Len(items)
    <2>1. retryJobs[outcome.job] \in [index: 1..Len(items), provider: ProviderNames]
      BY <1>3, RetryFacts, ElementOfSeq
    <2> QED BY <2>1
  <1>5. DOMAIN items = 1..Len(items) /\ items[index] \in Item
    BY <1>1, <1>4, ElementOfSeq, LenProperties
  <1>6. items' = [items EXCEPT ![index] = item] /\ UNCHANGED <<conf, worker, results>>
    BY DEF AbsorbRetry, poolVars
  <1>7. MergedItem(item)
    <2> HIDE DEF outcome
    <2> QED BY <1>3, <1>5, AbsorbedMerged
  <1> HIDE DEF item, index, outcome
  <1>8. /\ DOMAIN items' = DOMAIN items /\ items'[index] = item
        /\ \A j \in DOMAIN items : j # index => items'[j] = items[j]
    BY <1>4, <1>5, <1>6
  <1> QED BY <1>4, <1>5, <1>6, <1>7, <1>8, FreshOneItem

\* Every step keeps the items merged.
LEMMA FreshStep == TypeInv /\ Fresh /\ [Next]_vars => Fresh'
  <1> SUFFICES ASSUME TypeInv, Fresh, [Next]_vars PROVE Fresh'
    OBVIOUS
  <1>1. ASSUME UNCHANGED <<conf, worker, results, items>> PROVE Fresh'
    BY <1>1 DEF Fresh, MergedItem
  <1>2. ASSUME NEW w \in Workers, Dispatch(w) PROVE Fresh'
    <2>1. worker' = [worker EXCEPT ![w] = [IdleWorker EXCEPT !.pc = "checking", !.at = next]]
          /\ UNCHANGED <<conf, results, items>> /\ DOMAIN worker = Workers
      BY <1>2, OneWorker DEF Dispatch
    <2>2. [IdleWorker EXCEPT !.pc = "checking", !.at = next].pc = "checking"
      BY DEF IdleWorker
    <2>3. \A v \in Workers : v # w => worker'[v] = worker[v]
      BY <2>1
    <2>4. worker'[w].pc = "checking"
      BY <2>1, <2>2
    <2>5. ASSUME conf.abuse, NEW v \in Workers, worker'[v].pc \in {"resolving", "sending"}
          PROVE  MergedItem(worker'[v].item)
      BY <2>3, <2>4, <2>5 DEF Fresh
    <2> QED BY <2>1, <2>5 DEF Fresh, MergedItem
  <1>3. CASE Reject \/ Begin \/ StopSending \/ GatheringDone \/ PlanDone \/ RetriesDrained \/ Finish
    BY <1>1, <1>3 DEF Reject, Begin, StopSending, GatheringDone, PlanDone, RetriesDrained,
       Finish, poolVars
  <1>4. CASE CloseResults \/ ReportProgress \/ CollectorDone \/ Cancel \/ UNCHANGED vars
    BY <1>1, <1>4 DEF CloseResults, ReportProgress, CollectorDone, Cancel, poolVars, vars
  <1>5. CASE SenderStep
    BY <1>1, <1>5 DEF SenderStep, StopRetrying, CloseRetryResults, SendRetry, poolVars
  <1>6. ASSUME NEW v \in Retriers, RetrierStep(v) PROVE Fresh'
    <2>1. UNCHANGED <<conf, worker, results, items>>
      BY <1>6 DEF RetrierStep, RetryFails, RetryAnswers, RetryOutcome, RetrierExits, poolVars
    <2> QED BY <1>1, <2>1
  <1> QED BY <1>2, <1>3, <1>4, <1>5, <1>6, FreshWorkerStep, FreshCollect, FreshPlan, FreshAbsorb
          DEF Next, MainStep, CollectorStep

-----------------------------------------------------------------------------
\* Score, verdict, country and successes of a gathered item are those of all
\* the answers it holds, however many come late and in whatever order.
THEOREM VerdictsFresh == Spec => []VerdictFresh
  <1>1. Fresh => VerdictFresh
    BY DEF Fresh, VerdictFresh, MergedItem
  <1> QED BY <1>1, FreshInit, FreshStep, TypeInit, TypeStep, PTL DEF Spec

\* With --abuse nothing passes for clean, in the filter, the summary or an
\* export, unless a provider has answered for it.
THEOREM CleanNeedsEvidence == Spec => []NoCleanWithoutEvidence
  <1>1. TypeInv /\ Fresh => NoCleanWithoutEvidence
    <2> SUFFICES ASSUME TypeInv, Fresh, conf.abuse, NEW i \in DOMAIN items,
                        CleanScored(items[i])
                 PROVE  Told(items[i]) # {}
      BY DEF NoCleanWithoutEvidence, IsCleanItem
    <2>1. MergedItem(items[i]) /\ items[i].purity = "clean"
      BY DEF Fresh, CleanScored
    <2>2. Merge(ReportsOf(items[i].results)).purity = "clean"
      BY <2>1 DEF MergedItem
    <2>3. DOMAIN items[i].results # {}
      BY <2>2, MergeNone
    <2> QED BY <2>3 DEF Told
  <1> QED BY <1>1, FreshInit, FreshStep, TypeInit, TypeStep, PTL DEF Spec

-----------------------------------------------------------------------------
(* What Run returns.                                                       *)

\* Once Run has gone past its checks the sort is one it knows, and what it
\* returns is what the items, which nothing changes any more, come to.
Returns ==
    /\ main \notin {"start", "rejected"} => conf.sort \in SortModes
    /\ main = "returned" =>
          answer = [visible |-> SortItems(FilterItems(items, conf.filter), conf.sort),
                    summary |-> Summarize(items)]

\* Only Finish returns, and afterwards nothing moves that the answer is about.
LEMMA ReturnSteps ==
    ASSUME HandOver, [Next]_vars
    PROVE  /\ conf' = conf
           /\ main = "returned" => UNCHANGED <<main, items, answer>>
           /\ main # "returned" /\ main' = "returned" => Finish
           /\ main \in {"start", "rejected"} /\ main' \notin {"start", "rejected"} => Begin
           /\ main' \in {"start", "rejected"} => main' = "rejected" \/ main' = main
  <1>1. CASE Reject \/ Begin \/ StopSending \/ \E w \in Workers : Dispatch(w)
    BY <1>1 DEF Reject, Begin, StopSending, Dispatch
  <1>2. CASE GatheringDone \/ PlanItem \/ PlanDone \/ AbsorbRetry \/ RetriesDrained
    BY <1>2 DEF GatheringDone, PlanItem, PlanDone, AbsorbRetry, RetriesDrained
  <1>3. CASE Finish
    BY <1>3 DEF Finish
  <1>4. ASSUME NEW w \in Workers, WorkerStep(w) \/ ItemDeadline(w)
        PROVE  UNCHANGED <<conf, main, items, answer>>
    BY <1>4 DEF WorkerStep, CheckReturns, Resolve, ResolveFails, LimiterRefuses, ProviderFails,
       ProviderAnswers, MergeItem, Emit, WorkerExits, ItemDeadline, KeepAllButWorker
  <1>5. CASE CloseResults \/ CollectorStep \/ Cancel \/ UNCHANGED vars
    <2>1. CASE Collect
      BY <2>1 DEF Collect, HandOver, Late
    <2>2. CASE CloseResults \/ ReportProgress \/ CollectorDone \/ Cancel \/ UNCHANGED vars
      BY <2>2 DEF CloseResults, ReportProgress, CollectorDone, Cancel, vars
    <2> QED BY <1>5, <2>1, <2>2 DEF CollectorStep
  <1>6. CASE SenderStep
    BY <1>6 DEF SenderStep, StopRetrying, CloseRetryResults, SendRetry
  <1>7. ASSUME NEW v \in Retriers, RetrierStep(v)
        PROVE  UNCHANGED <<conf, main, items, answer>>
    BY <1>7 DEF RetrierStep, RetryFails, RetryAnswers, RetryOutcome, RetrierExits
  <1> QED BY <1>1, <1>2, <1>3, <1>4, <1>5, <1>6, <1>7 DEF Next, MainStep

LEMMA ReturnsStep ==
    ASSUME HandOver, Returns, [Next]_vars
    PROVE  Returns'
  <1>1. main' \notin {"start", "rejected"} => conf'.sort \in SortModes
    BY ReturnSteps DEF Returns, Begin, ValidInput
  <1>2. CASE main = "returned"
    BY <1>1, <1>2, ReturnSteps DEF Returns
  <1>3. CASE Finish
    <2>1. /\ items' = items /\ conf' = conf
          /\ answer' = [visible |-> SortItems(FilterItems(items, conf.filter), conf.sort),
                        summary |-> Summarize(items)]
      BY <1>3 DEF Finish
    <2> QED BY <1>1, <2>1 DEF Returns
  <1>4. CASE main # "returned" /\ main' # "returned"
    BY <1>1, <1>4 DEF Returns
  <1> QED BY <1>2, <1>3, <1>4, ReturnSteps

\* What sorting reads is typed in an item.
LEMMA ItemsSort == \A item \in Item : Sorts(item)
  <1> SUFFICES ASSUME NEW item \in Item PROVE Sorts(item)
    OBVIOUS
  <1>1. item.at \in Positions /\ item.score \in 0..100 /\ item.latency \in Nat
    BY DEF Item
  <1> QED BY <1>1 DEF Sorts

\* The list that is returned has exactly the items that pass the filter, each
\* once, in the order of the sort, ties in the order they were gathered in.
LEMMA OrderedAnswer ==
    ASSUME TypeInv, EachEndpointOnce, Returns, main = "returned"
    PROVE  LET seen == answer.visible
               Place(p) == CHOOSE i \in DOMAIN items : items[i].at = p
           IN  /\ {seen[k].at : k \in DOMAIN seen} =
                    {items[i].at : i \in {i \in DOMAIN items : MatchesFilter(items[i], conf.filter)}}
               /\ Len(seen) = Cardinality({seen[k].at : k \in DOMAIN seen})
               /\ \A j, k \in DOMAIN seen :
                     j < k => \/ SortsBefore(conf.sort, seen[j], seen[k])
                              \/ /\ ~SortsBefore(conf.sort, seen[k], seen[j])
                                 /\ Place(seen[j].at) < Place(seen[k].at)
  <1> DEFINE kept == Matching(items, conf.filter)
             left == FilterItems(items, conf.filter)
             seen == answer.visible
             N    == Cardinality(kept)
             Place(p) == CHOOSE i \in DOMAIN items : items[i].at = p
             before   == SortedBefore(left, conf.sort)
  <1>1. /\ items \in Seq(Item) /\ conf.sort \in SortModes
        /\ seen = SortItems(left, conf.sort)
    BY DEF TypeInv, PoolTypeOK, Returns
  <1>2. /\ left \in Seq(Item) /\ N \in Nat /\ Len(left) = N
        /\ InOrder(left, items, kept, Ascending(kept))
    BY <1>1, FilterInOrder
  <1>3. /\ seen \in Seq(Item) /\ Len(seen) = N
        /\ InOrder(seen, left, DOMAIN left, Stable(DOMAIN left, before))
    BY <1>1, <1>2, ItemsSort, SortInOrder
  <1>4. /\ DOMAIN left = 1..N /\ DOMAIN seen = 1..N /\ Cardinality(DOMAIN left) = N
        /\ DOMAIN items = 1..Len(items) /\ Len(items) \in Nat
    <2>1. /\ DOMAIN left = 1..N /\ DOMAIN seen = 1..N
          /\ DOMAIN items = 1..Len(items) /\ Len(items) \in Nat
      BY <1>1, <1>2, <1>3, LenProperties
    <2>2. Cardinality(1..N) = N
      BY <1>2, FS_Interval
    <2> QED BY <2>1, <2>2
  <1>5. kept \subseteq DOMAIN items
    BY DEF Matching
  <1>6. kept = {i \in DOMAIN items : MatchesFilter(items[i], conf.filter)}
    BY DEF Matching
  <1>7. \A i \in DOMAIN items : Place(items[i].at) = i
    BY DEF EachEndpointOnce, NothingDoubled
  <1>8. \A j, k \in 1..N : <<j, k>> \in Stable(DOMAIN left, before)
           => \/ SortsBefore(conf.sort, left[j], left[k])
              \/ j < k /\ ~SortsBefore(conf.sort, left[k], left[j])
    BY <1>4 DEF Stable, SortedBefore
  <1> HIDE DEF kept, left, seen, N, Place, before
  <1>9. PICK p \in [1..N -> kept] :
           /\ left = [k \in 1..N |-> items[p[k]]]
           /\ \A i \in kept : \E k \in 1..N : p[k] = i
           /\ \A j, k \in 1..N : j < k => <<p[j], p[k]>> \in Ascending(kept)
    BY <1>2 DEF InOrder, N
  <1>10. PICK q \in [1..N -> 1..N] :
           /\ seen = [k \in 1..N |-> left[q[k]]]
           /\ \A i \in 1..N : \E k \in 1..N : q[k] = i
           /\ \A j, k \in 1..N : j < k => <<q[j], q[k]>> \in Stable(DOMAIN left, before)
    BY <1>3, <1>4 DEF InOrder
  <1>11. \A j, k \in 1..N : j < k => p[j] < p[k]
    BY <1>9 DEF Ascending
  <1>12. \A k \in 1..N : /\ q[k] \in 1..N /\ p[q[k]] \in kept
                         /\ seen[k] = items[p[q[k]]] /\ seen[k] = left[q[k]]
    BY <1>9, <1>10
  <1>13. {seen[k].at : k \in DOMAIN seen} = {items[i].at : i \in kept}
    <2>1. \A i \in kept : \E k \in 1..N : p[q[k]] = i
      BY <1>9, <1>10
    <2>2. \A i \in kept : \E k \in 1..N : seen[k].at = items[i].at
      BY <1>12, <2>1
    <2>3. \A k \in 1..N : \E i \in kept : seen[k].at = items[i].at
      BY <1>12
    <2>4. DOMAIN seen = 1..N
      BY <1>4
    <2>5. {seen[k].at : k \in 1..N} \subseteq {items[i].at : i \in kept}
      BY <2>3
    <2>6. {items[i].at : i \in kept} \subseteq {seen[k].at : k \in 1..N}
      BY <2>2
    <2> QED BY <2>4, <2>5, <2>6
  <1>14. \A j, k \in DOMAIN seen :
            j < k => \/ SortsBefore(conf.sort, seen[j], seen[k])
                     \/ /\ ~SortsBefore(conf.sort, seen[k], seen[j])
                        /\ Place(seen[j].at) < Place(seen[k].at)
    <2> SUFFICES ASSUME NEW j \in 1..N, NEW k \in 1..N, j < k
                 PROVE  \/ SortsBefore(conf.sort, seen[j], seen[k])
                        \/ /\ ~SortsBefore(conf.sort, seen[k], seen[j])
                           /\ Place(seen[j].at) < Place(seen[k].at)
      BY <1>4
    <2>1. \/ SortsBefore(conf.sort, left[q[j]], left[q[k]])
          \/ q[j] < q[k] /\ ~SortsBefore(conf.sort, left[q[k]], left[q[j]])
      BY <1>8, <1>10
    <2>2. Place(seen[j].at) = p[q[j]] /\ Place(seen[k].at) = p[q[k]]
      BY <1>5, <1>7, <1>12
    <2>3. q[j] < q[k] => p[q[j]] < p[q[k]]
      BY <1>11, <1>12
    <2>4. seen[j] = left[q[j]] /\ seen[k] = left[q[k]]
      BY <1>12
    <2> QED BY <2>1, <2>2, <2>3, <2>4
  <1>15. N = Cardinality({seen[k].at : k \in DOMAIN seen})
    <2> DEFINE ats == {seen[k].at : k \in DOMAIN seen}
               at  == [k \in 1..N |-> seen[k].at]
    <2>1. \A j, k \in 1..N : seen[j].at = seen[k].at => j = k
      <3> SUFFICES ASSUME NEW j \in 1..N, NEW k \in 1..N, j < k, seen[j].at = seen[k].at
                   PROVE  FALSE
        BY <1>2
      <3>1. p[q[j]] = p[q[k]]
        BY <1>5, <1>7, <1>12
      <3>2. q[j] = q[k]
        <4>1. ~(q[j] < q[k]) /\ ~(q[k] < q[j])
          <5>1. p[q[j]] \in Int /\ p[q[k]] \in Int
            BY <1>4, <1>5, <1>12
          <5> QED BY <1>11, <1>12, <3>1, <5>1
        <4> QED BY <1>12, <4>1
      <3>3. \/ SortsBefore(conf.sort, left[q[j]], left[q[j]])
            \/ q[j] < q[j]
        BY <1>8, <1>10, <3>2
      <3>4. ~(q[j] < q[j])
        BY <1>12
      <3>5. Sorts(left[q[j]])
        BY <1>2, <1>4, <1>12, ElementOfSeq, ItemsSort
      <3> QED BY <1>1, <3>3, <3>4, <3>5, SortsByKey
    <2>2. at \in Surjection(1..N, ats) /\ at \in Injection(1..N, ats)
      BY <1>4, <2>1 DEF Surjection, Injection, IsInjective
    <2>3. IsFiniteSet(1..N) /\ Cardinality(1..N) = N
      BY <1>2, FS_Interval
    <2> HIDE DEF ats, at
    <2>4. Cardinality(ats) = N
      BY <2>2, <2>3, FS_Surjection
    <2> QED BY <2>4 DEF ats
  <1>16. Len(seen) = Cardinality({seen[k].at : k \in DOMAIN seen})
    BY <1>3, <1>15
  <1> QED BY <1>6, <1>13, <1>14, <1>16 DEF seen, Place

\* What Run returns is a list of items and eight counts; the average is one,
\* since it is computed only when something was reached.
LEMMA AnswerType ==
    ASSUME TypeInv, Returns
    PROVE  AnswerTypeOK
  <1> SUFFICES ASSUME main = "returned"
               PROVE  /\ answer.visible \in Seq(Item)
                      /\ answer.summary \in [total: Nat, reachable: Nat, unreachable: Nat,
                                             abusive: Nat, suspicious: Nat, clean: Nat,
                                             errors: Nat, avgLatency: Nat]
    BY DEF AnswerTypeOK
  <1>1. PICK list \in Seq(Item) : list = items
    BY DEF TypeInv, PoolTypeOK
  <1>2. /\ conf.sort \in SortModes
        /\ answer.visible = SortItems(FilterItems(list, conf.filter), conf.sort)
        /\ answer.summary = Summarize(list)
    BY <1>1 DEF Returns
  <1>3. FilterItems(list, conf.filter) \in Seq(Item)
    BY FilterInOrder
  <1>4. answer.visible \in Seq(Item)
    BY <1>2, <1>3, SortInOrder, ItemsSort
  <1>5. \A i \in DOMAIN list : list[i].latency \in Nat
    <2>1. DOMAIN list = 1..Len(list)
      BY LenProperties
    <2>2. \A i \in DOMAIN list : list[i] \in Item
      BY <2>1, ElementOfSeq
    <2>3. \A item \in Item : item.latency \in Nat
      BY DEF Item
    <2> QED BY <2>2, <2>3
  <1> QED BY <1>2, <1>4, <1>5, SummaryType

\* The pool, the retry phase and the answer keep their types.
THEOREM AllTypes == Spec => []TypeOK
  <1>1. TypeInv /\ Returns => TypeOK
    BY AnswerType DEF TypeOK, TypeInv
  <1>2. Init => Returns
    BY DEF Init, Returns
  <1>3. HandOver /\ Returns /\ [Next]_vars => Returns'
    BY ReturnsStep
  <1>4. Init => NoSendOnClosedChannel
    BY DEF Init, NoSendOnClosedChannel
  <1> QED BY <1>1, <1>2, <1>3, <1>4, TypeInit, TypeStep, ChannelsStep, EndpointsInit,
             EndpointsStep, HandOverInit, HandOverStep, PTL DEF Spec

\* Run returns the filtered list, sorted: nothing that passes is missing or
\* doubled, and items that compare equal stay in the order they came in.
THEOREM AnswerInOrder == Spec => []AnswerOrdered
  <1>1. TypeInv /\ EachEndpointOnce /\ Returns => AnswerOrdered
    BY OrderedAnswer DEF AnswerOrdered
  <1>2. Init => Returns
    BY DEF Init, Returns
  <1>3. HandOver /\ Returns /\ [Next]_vars => Returns'
    BY ReturnsStep
  <1>4. Init => NoSendOnClosedChannel
    BY DEF Init, NoSendOnClosedChannel
  <1> QED BY <1>1, <1>2, <1>3, <1>4, TypeInit, TypeStep, ChannelsStep, EndpointsInit,
             EndpointsStep, HandOverInit, HandOverStep, PTL DEF Spec

-----------------------------------------------------------------------------
(***************************************************************************)
(* Every provider is accounted for, once.  The argument is book-keeping:   *)
(* an item's ledger says that the providers that have answered, those that *)
(* have failed and those that are still open for it are disjoint, and are  *)
(* all of them together.  What is open is, in turn, what the worker has    *)
(* not asked yet, what it has put aside, and the retry jobs that are not   *)
(* settled.  Four invariants beside TypeInv, together with Books:          *)
(*   Accounts   every item's ledger is right, wherever the item is;        *)
(*   JobPlaces  a retry job is in one place, and its outcome its own;      *)
(*   Settling   what has been planned, closed or drained stays so;         *)
(*   Plain      without providers nothing is pending and nothing planned.  *)
(* With them the engine is shown to take only the steps of BatchPromise.   *)
(***************************************************************************)

\* The providers a worker has still to ask, when it has asked n.
NotAsked(n) == {Providers[j] : j \in (n + 1)..Len(Providers)}

\* The book-keeping of one item, open being the providers it still waits for.
Ledger(item, open) ==
    /\ \A j, k \in DOMAIN item.results :
          item.results[j].provider = item.results[k].provider => j = k
    /\ Distinct(item.errs)
    /\ Told(item) \cap Failed(item) = {}
    /\ (Told(item) \cup Failed(item)) \cap open = {}
    /\ item.total > 0 => Told(item) \cup Failed(item) \cup open = ProviderNames

WorkerLedger(s) ==
    /\ s.pc = "resolving" =>
          s.item.results = <<>> /\ s.item.errs = <<>> /\ s.item.total = 0
    /\ s.pc = "asking" => Ledger(s.item, Pending(s.item) \cup NotAsked(s.asked))
    /\ s.pc = "sending" => Ledger(s.item, Pending(s.item))

Accounts ==
    /\ \A w \in Workers : WorkerLedger(worker[w])
    /\ \A i \in DOMAIN results : Ledger(results[i], Pending(results[i]))
    /\ \A i \in DOMAIN items : Ledger(items[i], Pending(items[i]) \cup Unsettled(i))

\* A retry job is open until its outcome is absorbed.
AskingFor(k)   == \E v \in Retriers : retrier[v].pc = "asking" /\ retrier[v].job = k
AnsweredFor(k) == \E r \in DOMAIN retryResults : retryResults[r].job = k
OpenJobs == {k \in DOMAIN retryJobs : k >= retryNext \/ AskingFor(k) \/ AnsweredFor(k)}

\* An outcome is one answer, or one failure, of the provider of its job.
OutcomeOf(outcome, name) ==
    \/ outcome.results = <<>> /\ outcome.errs = <<name>>
    \/ \E told \in ResultSet : /\ told.provider = name
                               /\ outcome.results = <<told>> /\ outcome.errs = <<>>

\* No two jobs are for the same item and provider, and no job is with two
\* retriers, with one and in the channel, or in the channel twice.
JobPlaces ==
    /\ \A j, k \in DOMAIN retryJobs :
          retryJobs[j].index = retryJobs[k].index
            /\ retryJobs[j].provider = retryJobs[k].provider => j = k
    /\ \A k \in DOMAIN retryJobs : retryJobs[k].index <= planned
    /\ \A v \in Retriers : retrier[v].pc = "asking" =>
          /\ retrier[v].job < retryNext
          /\ ~AnsweredFor(retrier[v].job)
          /\ \A u \in Retriers :
                retrier[u].pc = "asking" /\ retrier[u].job = retrier[v].job => u = v
    /\ \A r \in DOMAIN retryResults :
          /\ retryResults[r].job < retryNext
          /\ OutcomeOf(retryResults[r], retryJobs[retryResults[r].job].provider)
          /\ \A q \in DOMAIN retryResults : retryResults[q].job = retryResults[r].job => q = r

-----------------------------------------------------------------------------
(* Ledgers.                                                                *)

\* A ledger is about the answers, the errors and the number of providers only.
LEMMA LedgerKept ==
    ASSUME NEW item, NEW other, NEW open, Ledger(item, open),
           other.results = item.results, other.errs = item.errs, other.total = item.total
    PROVE  Ledger(other, open)
  <1>1. Told(other) = Told(item) /\ Failed(other) = Failed(item)
    BY DEF Told, Failed
  <1> QED BY <1>1 DEF Ledger

\* With nothing told, nothing is wrong; every provider is open, or none was to be asked.
LEMMA LedgerEmpty ==
    ASSUME NEW item, NEW open, item.results = <<>>, item.errs = <<>> \/ item.errs = <<DnsFailed>>,
           item.total = 0 \/ open = ProviderNames
    PROVE  Ledger(item, open)
  <1>1. DOMAIN item.results = {} /\ Told(item) = {}
    BY DEF Told
  <1>2. Distinct(item.errs) /\ Failed(item) = {}
    <2>1. CASE item.errs = <<>>
      BY <2>1 DEF Distinct, Failed
    <2>2. CASE item.errs = <<DnsFailed>>
      BY <2>2 DEF Distinct, Failed
    <2> QED BY <2>1, <2>2
  <1> QED BY <1>1, <1>2 DEF Ledger

\* An open provider answers.
LEMMA LedgerTold ==
    ASSUME NEW item \in Item, NEW open, Ledger(item, open), NEW told \in ResultSet,
           told.provider \in open, NEW other,
           other.results = Append(item.results, told), other.errs = item.errs,
           other.total = item.total
    PROVE  Ledger(other, open \ {told.provider})
  <1>1. item.results \in Seq(ResultSet)
    BY DEF Item
  <1> DEFINE n == Len(item.results)
  <1>2. /\ n \in Nat /\ DOMAIN item.results = 1..n /\ DOMAIN other.results = 1..(n + 1)
        /\ \A k \in 1..n : other.results[k] = item.results[k]
        /\ other.results[n + 1] = told
    BY <1>1, AppendProperties, LenProperties
  <1> HIDE DEF n
  <1>3. Told(other) = Told(item) \cup {told.provider}
    <2>1. \A k \in 1..(n + 1) : k \in 1..n \/ k = n + 1
      BY <1>2
    <2> QED BY <1>2, <2>1 DEF Told
  <1>4. Failed(other) = Failed(item)
    BY DEF Failed
  <1>5. told.provider \notin Told(item)
    BY DEF Ledger
  <1>6. \A k \in 1..n : item.results[k].provider # told.provider
    BY <1>2, <1>5 DEF Told
  <1>7. \A j, k \in DOMAIN other.results :
            other.results[j].provider = other.results[k].provider => j = k
    BY <1>2, <1>6 DEF Ledger
  <1> QED BY <1>3, <1>4, <1>5, <1>7 DEF Ledger

\* An open provider fails.
LEMMA LedgerFailed ==
    ASSUME NEW item \in Item, NEW open, Ledger(item, open), NEW name \in ProviderNames,
           name \in open, NEW other,
           other.results = item.results, other.errs = Append(item.errs, name),
           other.total = item.total
    PROVE  Ledger(other, open \ {name})
  <1>1. item.errs \in Seq(ProviderNames \cup {DnsFailed})
    BY DEF Item
  <1> DEFINE n == Len(item.errs)
  <1>2. /\ n \in Nat /\ DOMAIN item.errs = 1..n /\ DOMAIN other.errs = 1..(n + 1)
        /\ \A k \in 1..n : other.errs[k] = item.errs[k]
        /\ other.errs[n + 1] = name
    BY <1>1, AppendProperties, LenProperties
  <1> HIDE DEF n
  <1>3. name # DnsFailed
    BY DnsFailedAssumption
  <1>4. Failed(other) = Failed(item) \cup {name}
    <2>1. \A k \in 1..(n + 1) : k \in 1..n \/ k = n + 1
      BY <1>2
    <2> QED BY <1>2, <1>3, <2>1 DEF Failed
  <1>5. Told(other) = Told(item)
    BY DEF Told
  <1>6. name \notin Failed(item)
    BY DEF Ledger
  <1>7. \A k \in 1..n : item.errs[k] # name
    BY <1>2, <1>3, <1>6 DEF Failed
  <1>8. Distinct(other.errs)
    BY <1>2, <1>7 DEF Ledger, Distinct
  <1> QED BY <1>4, <1>5, <1>6, <1>8 DEF Ledger

-----------------------------------------------------------------------------
(* A worker's ledger.                                                      *)

\* Before the first is asked all are to be asked, after the last none.
LEMMA NotAskedEnds ==
    /\ NotAsked(0) = ProviderNames
    /\ NotAsked(Len(Providers)) = {}
  <1>1. NotAsked(0) = ProviderNames
    BY ConstantTypes DEF NotAsked, ProviderNames
  <1>2. (Len(Providers) + 1)..Len(Providers) = {}
    BY ConstantTypes
  <1> QED BY <1>1, <1>2 DEF NotAsked

\* The next provider is the one that leaves the list of those to be asked; it
\* was not asked before, so it is not among those put aside.
LEMMA NextAsked ==
    ASSUME NEW s, StateOK(s), s.pc = "asking", s.asked < Len(Providers)
    PROVE  /\ Providers[s.asked + 1] \in NotAsked(s.asked)
           /\ Providers[s.asked + 1] \in ProviderNames
           /\ NotAsked(s.asked + 1) = NotAsked(s.asked) \ {Providers[s.asked + 1]}
           /\ Providers[s.asked + 1] \notin Pending(s.item)
  <1> DEFINE n == s.asked
  <1>1. n \in 0..Len(Providers) /\ Len(Providers) \in Nat /\ n < Len(Providers)
        /\ DOMAIN Providers = 1..Len(Providers)
    BY ConstantTypes DEF StateOK, WorkerState
  <1>2. \A k \in DOMAIN s.item.pending : \E j \in 1..n : s.item.pending[k] = Providers[j]
    BY DEF StateOK
  <1> HIDE DEF n
  <1>3. Providers[n + 1] \in NotAsked(n)
    BY <1>1 DEF NotAsked
  <1>4. \A j, k \in 1..Len(Providers) : Providers[j] = Providers[k] => j = k
    BY <1>1, ProvidersAssumption
  <1>5. NotAsked(n + 1) = NotAsked(n) \ {Providers[n + 1]}
    <2>1. \A j \in (n + 2)..Len(Providers) : j \in (n + 1)..Len(Providers) /\ Providers[j] # Providers[n + 1]
      BY <1>1, <1>4
    <2>2. \A j \in (n + 1)..Len(Providers) : j = n + 1 \/ j \in (n + 2)..Len(Providers)
      BY <1>1
    <2>3. (n + 1) + 1 = n + 2
      BY <1>1
    <2> QED BY <2>1, <2>2, <2>3 DEF NotAsked
  <1>6. Providers[n + 1] \notin Pending(s.item)
    <2>1. \A j \in 1..n : Providers[j] # Providers[n + 1]
      BY <1>1, <1>4
    <2> QED BY <1>2, <2>1 DEF Pending
  <1>7. Providers[n + 1] \in ProviderNames
    BY <1>1, ConstantTypes
  <1> QED BY <1>3, <1>5, <1>6, <1>7 DEF n

\* A name that is put aside joins the pending ones.
LEMMA PendingGrows ==
    ASSUME NEW item \in Item, NEW name \in ProviderNames, NEW other,
           other.pending = Append(item.pending, name)
    PROVE  Pending(other) = Pending(item) \cup {name}
  <1>1. item.pending \in Seq(ProviderNames)
    BY DEF Item
  <1> DEFINE n == Len(item.pending)
  <1>2. /\ n \in Nat /\ DOMAIN item.pending = 1..n /\ DOMAIN other.pending = 1..(n + 1)
        /\ \A k \in 1..n : other.pending[k] = item.pending[k]
        /\ other.pending[n + 1] = name
    BY <1>1, AppendProperties, LenProperties
  <1> HIDE DEF n
  <1>3. \A k \in 1..(n + 1) : k \in 1..n \/ k = n + 1
    BY <1>2
  <1> QED BY <1>2, <1>3 DEF Pending

\* What is unsettled depends on the retry phase alone.
LEMMA UnsettledKept ==
    ASSUME UNCHANGED <<retryJobs, retryNext, retrier, retryResults>>
    PROVE  \A i : Unsettled(i)' = Unsettled(i)
    BY DEF Unsettled

\* A step of one worker that leaves its own ledger right leaves all ledgers right.
LEMMA AccountsOneWorker ==
    ASSUME Accounts, NEW w \in Workers, UNCHANGED <<results, items, retryVars>>,
           \A v \in Workers : v # w => worker'[v] = worker[v],
           WorkerLedger(worker'[w])
    PROVE  Accounts'
  <1>1. \A i : Unsettled(i)' = Unsettled(i)
    BY UnsettledKept DEF retryVars
  <1>2. \A v \in Workers : WorkerLedger(worker'[v])
    BY DEF Accounts
  <1>3. \A i \in DOMAIN results' : Ledger(results'[i], Pending(results'[i]))
    BY DEF Accounts
  <1>4. \A i \in DOMAIN items' : Ledger(items'[i], Pending(items'[i]) \cup Unsettled(i)')
    BY <1>1 DEF Accounts
  <1> QED BY <1>2, <1>3, <1>4 DEF Accounts, WorkerLedger, Ledger, Pending, Told, Failed

\* The connection check makes an item nobody was asked about.
LEMMA CheckReturnsLedger ==
    ASSUME TypeInv, NEW w \in Workers, CheckReturns(w)
    PROVE  WorkerLedger(worker'[w])
  <1> DEFINE s == worker[w]
  <1>1. s \in WorkerState /\ DOMAIN worker = Workers
    BY OneWorker
  <1>2. PICK reachable \in BOOLEAN :
            worker' = [worker EXCEPT
               ![w].item = IF ~conf.abuse /\ reachable
                             THEN [NewItem(s.at, reachable) EXCEPT !.purity = "clean"]
                             ELSE NewItem(s.at, reachable),
               ![w].pc   = IF conf.abuse THEN "resolving" ELSE "sending"]
    BY DEF CheckReturns
  <1> DEFINE new == NewItem(s.at, reachable)
             item == IF ~conf.abuse /\ reachable THEN [new EXCEPT !.purity = "clean"] ELSE new
  <1>3. worker'[w].pc = (IF conf.abuse THEN "resolving" ELSE "sending") /\ worker'[w].item = item
    BY <1>1, <1>2 DEF WorkerState
  <1>4. item.results = <<>> /\ item.errs = <<>> /\ item.total = 0
    BY DEF NewItem
  <1> HIDE DEF item, new
  <1>5. Ledger(item, Pending(item))
    BY <1>4, LedgerEmpty
  <1> QED BY <1>3, <1>4, <1>5 DEF WorkerLedger

\* The name is resolved: all providers are to be asked.
LEMMA ResolveLedger ==
    ASSUME TypeInv, NEW w \in Workers, WorkerLedger(worker[w]), Resolve(w)
    PROVE  WorkerLedger(worker'[w])
  <1> DEFINE s == worker[w]
             item == [s.item EXCEPT !.total = Len(Providers)]
  <1>1. s \in WorkerState /\ StateOK(s) /\ DOMAIN worker = Workers /\ s.pc = "resolving"
    BY OneWorker DEF Resolve
  <1>2. /\ s.item \in Item /\ s.item.pending = <<>>
        /\ s.item.results = <<>> /\ s.item.errs = <<>>
    BY <1>1 DEF StateOK, WorkerLedger
  <1>3. worker'[w].pc = "asking" /\ worker'[w].asked = 0 /\ worker'[w].item = item
    BY <1>1 DEF Resolve, WorkerState
  <1>4. item.results = <<>> /\ item.errs = <<>> /\ item.pending = <<>>
    BY <1>2 DEF Item
  <1> HIDE DEF item
  <1>5. Pending(item) \cup NotAsked(0) = ProviderNames
    BY <1>4, NotAskedEnds DEF Pending
  <1>6. Ledger(item, Pending(item) \cup NotAsked(0))
    BY <1>4, <1>5, LedgerEmpty
  <1> QED BY <1>3, <1>6 DEF WorkerLedger

\* The name is not resolved: none is to be asked.
LEMMA ResolveFailsLedger ==
    ASSUME TypeInv, NEW w \in Workers, WorkerLedger(worker[w]), ResolveFails(w)
    PROVE  WorkerLedger(worker'[w])
  <1> DEFINE s == worker[w]
             item == [s.item EXCEPT !.errs = Append(@, DnsFailed)]
  <1>1. s \in WorkerState /\ StateOK(s) /\ DOMAIN worker = Workers /\ s.pc = "resolving"
    BY OneWorker DEF ResolveFails
  <1>2. /\ s.item \in Item /\ s.item.results = <<>> /\ s.item.errs = <<>> /\ s.item.total = 0
    BY <1>1 DEF StateOK, WorkerLedger
  <1>3. worker'[w].pc = "sending" /\ worker'[w].item = item
    BY <1>1 DEF ResolveFails, WorkerState
  <1>4. Append(<<>>, DnsFailed) = <<DnsFailed>>
    OBVIOUS
  <1>5. item.results = <<>> /\ item.errs = <<DnsFailed>> /\ item.total = 0
    BY <1>2, <1>4 DEF Item
  <1> HIDE DEF item
  <1>6. Ledger(item, Pending(item))
    BY <1>5, LedgerEmpty
  <1> QED BY <1>3, <1>6 DEF WorkerLedger

\* What a step of asking finds: the ledger, and the name that is next.
LEMMA AskingLedger ==
    ASSUME TypeInv, NEW w \in Workers, WorkerLedger(worker[w]), Asking(w)
    PROVE  LET s == worker[w]
               n == NextProvider(w)
           IN  /\ s \in WorkerState /\ DOMAIN worker = Workers /\ s.pc = "asking"
               /\ s.item \in Item /\ n \in ProviderNames
               /\ Ledger(s.item, Pending(s.item) \cup NotAsked(s.asked))
               /\ n \in NotAsked(s.asked) /\ n \notin Pending(s.item)
               /\ NotAsked(s.asked + 1) = NotAsked(s.asked) \ {n}
  <1> DEFINE s == worker[w]
  <1>1. s \in WorkerState /\ StateOK(s) /\ DOMAIN worker = Workers
        /\ s.pc = "asking" /\ s.asked < Len(Providers)
    BY OneWorker DEF Asking
  <1>2. s.item \in Item
    BY <1>1 DEF StateOK
  <1>3. Ledger(s.item, Pending(s.item) \cup NotAsked(s.asked))
    BY <1>1 DEF WorkerLedger
  <1> HIDE DEF s
  <1>4. /\ Providers[s.asked + 1] \in NotAsked(s.asked)
        /\ Providers[s.asked + 1] \in ProviderNames
        /\ NotAsked(s.asked + 1) = NotAsked(s.asked) \ {Providers[s.asked + 1]}
        /\ Providers[s.asked + 1] \notin Pending(s.item)
    BY <1>1, NextAsked
  <1> QED BY <1>1, <1>2, <1>3, <1>4 DEF s, NextProvider

\* The next provider is put aside.
LEMMA AsideLedger ==
    ASSUME TypeInv, NEW w \in Workers, WorkerLedger(worker[w]), Asking(w),
           worker' = [worker EXCEPT ![w].asked = @ + 1,
                                    ![w].item.pending = Append(@, NextProvider(w))]
    PROVE  WorkerLedger(worker'[w])
  <1> DEFINE s == worker[w]
             n == NextProvider(w)
             item == [s.item EXCEPT !.pending = Append(@, n)]
  <1>1. /\ s \in WorkerState /\ DOMAIN worker = Workers /\ s.pc = "asking"
        /\ s.item \in Item /\ n \in ProviderNames
        /\ Ledger(s.item, Pending(s.item) \cup NotAsked(s.asked))
        /\ n \in NotAsked(s.asked) /\ n \notin Pending(s.item)
        /\ NotAsked(s.asked + 1) = NotAsked(s.asked) \ {n}
    BY AskingLedger
  <1>2. worker'[w].pc = "asking" /\ worker'[w].asked = s.asked + 1 /\ worker'[w].item = item
    BY <1>1 DEF WorkerState
  <1>3. /\ item.results = s.item.results /\ item.errs = s.item.errs
        /\ item.total = s.item.total /\ item.pending = Append(s.item.pending, n)
    BY <1>1 DEF Item
  <1> HIDE DEF item, n
  <1>4. Pending(item) = Pending(s.item) \cup {n}
    BY <1>1, <1>3, PendingGrows
  <1>5. Pending(item) \cup NotAsked(s.asked + 1) = Pending(s.item) \cup NotAsked(s.asked)
    BY <1>1, <1>4
  <1>6. Ledger(item, Pending(s.item) \cup NotAsked(s.asked))
    BY <1>1, <1>3, LedgerKept
  <1> QED BY <1>2, <1>5, <1>6 DEF WorkerLedger

\* The next provider fails for good.
LEMMA FailedLedger ==
    ASSUME TypeInv, NEW w \in Workers, WorkerLedger(worker[w]), Asking(w),
           worker' = [worker EXCEPT ![w].asked = @ + 1,
                                    ![w].item.errs = Append(@, NextProvider(w))]
    PROVE  WorkerLedger(worker'[w])
  <1> DEFINE s == worker[w]
             n == NextProvider(w)
             item == [s.item EXCEPT !.errs = Append(@, n)]
  <1>1. /\ s \in WorkerState /\ DOMAIN worker = Workers /\ s.pc = "asking"
        /\ s.item \in Item /\ n \in ProviderNames
        /\ Ledger(s.item, Pending(s.item) \cup NotAsked(s.asked))
        /\ n \in NotAsked(s.asked) /\ n \notin Pending(s.item)
        /\ NotAsked(s.asked + 1) = NotAsked(s.asked) \ {n}
    BY AskingLedger
  <1>2. worker'[w].pc = "asking" /\ worker'[w].asked = s.asked + 1 /\ worker'[w].item = item
    BY <1>1 DEF WorkerState
  <1>3. /\ item.results = s.item.results /\ item.errs = Append(s.item.errs, n)
        /\ item.total = s.item.total /\ item.pending = s.item.pending
    BY <1>1 DEF Item
  <1> HIDE DEF item, n
  <1>4. Pending(item) = Pending(s.item)
    BY <1>3 DEF Pending
  <1>5. Pending(item) \cup NotAsked(s.asked + 1) = (Pending(s.item) \cup NotAsked(s.asked)) \ {n}
    BY <1>1, <1>4
  <1>6. Ledger(item, (Pending(s.item) \cup NotAsked(s.asked)) \ {n})
    BY <1>1, <1>3, LedgerFailed
  <1> QED BY <1>2, <1>5, <1>6 DEF WorkerLedger

\* The next provider answers.
LEMMA ToldLedger ==
    ASSUME TypeInv, NEW w \in Workers, WorkerLedger(worker[w]), ProviderAnswers(w)
    PROVE  WorkerLedger(worker'[w])
  <1> DEFINE s == worker[w]
             n == NextProvider(w)
  <1>0. Asking(w)
    BY DEF ProviderAnswers
  <1>1. /\ s \in WorkerState /\ DOMAIN worker = Workers /\ s.pc = "asking"
        /\ s.item \in Item /\ n \in ProviderNames
        /\ Ledger(s.item, Pending(s.item) \cup NotAsked(s.asked))
        /\ n \in NotAsked(s.asked) /\ n \notin Pending(s.item)
        /\ NotAsked(s.asked + 1) = NotAsked(s.asked) \ {n}
    BY <1>0, AskingLedger
  <1>2. PICK report \in Reports :
          worker' = [worker EXCEPT ![w].asked = @ + 1,
                                   ![w].item.results = Append(@, Result(n, report))]
    BY DEF ProviderAnswers
  <1> DEFINE told == Result(n, report)
             item == [s.item EXCEPT !.results = Append(@, told)]
  <1>3. told \in ResultSet /\ told.provider = n
    <2>1. told \in ResultSet
      BY <1>1, ResultType
    <2> QED BY <2>1 DEF Result
  <1>4. worker'[w].pc = "asking" /\ worker'[w].asked = s.asked + 1 /\ worker'[w].item = item
    BY <1>1, <1>2 DEF WorkerState
  <1> HIDE DEF told
  <1>5. /\ item.results = Append(s.item.results, told) /\ item.errs = s.item.errs
        /\ item.total = s.item.total /\ item.pending = s.item.pending
    BY <1>1 DEF Item
  <1> HIDE DEF item, n
  <1>6. Pending(item) = Pending(s.item)
    BY <1>5 DEF Pending
  <1>7. Pending(item) \cup NotAsked(s.asked + 1) = (Pending(s.item) \cup NotAsked(s.asked)) \ {n}
    BY <1>1, <1>6
  <1>8. Ledger(item, (Pending(s.item) \cup NotAsked(s.asked)) \ {n})
    BY <1>1, <1>3, <1>5, LedgerTold
  <1> QED BY <1>4, <1>7, <1>8 DEF WorkerLedger

\* All are asked: what is open is what was put aside.
LEMMA MergeLedger ==
    ASSUME TypeInv, NEW w \in Workers, WorkerLedger(worker[w]), MergeItem(w)
    PROVE  WorkerLedger(worker'[w])
  <1> DEFINE s == worker[w]
             counted == [s.item EXCEPT !.successes = Len(s.item.results)]
             item == ApplyMerged(counted)
  <1>1. s \in WorkerState /\ StateOK(s) /\ DOMAIN worker = Workers /\ s.pc = "asking"
        /\ s.asked = Len(Providers)
    BY OneWorker DEF MergeItem
  <1>2. s.item \in Item /\ Ledger(s.item, Pending(s.item) \cup NotAsked(Len(Providers)))
    BY <1>1 DEF StateOK, WorkerLedger
  <1>3. worker'[w].pc = "sending" /\ worker'[w].item = item
    BY <1>1 DEF MergeItem, WorkerState
  <1>4. /\ counted \in Item /\ counted.results = s.item.results /\ counted.errs = s.item.errs
        /\ counted.total = s.item.total /\ counted.pending = s.item.pending
    <2>1. Len(s.item.results) \in Nat
      BY <1>2, LenProperties DEF Item
    <2> QED BY <1>2, <2>1 DEF Item
  <1> HIDE DEF counted
  <1>5. /\ item.results = counted.results /\ item.errs = counted.errs
        /\ item.total = counted.total /\ item.pending = counted.pending
    BY <1>4 DEF ApplyMerged, Item
  <1> HIDE DEF item
  <1>6. Pending(item) = Pending(s.item) \cup NotAsked(Len(Providers))
    BY <1>4, <1>5, NotAskedEnds DEF Pending
  <1>7. Ledger(item, Pending(item))
    BY <1>2, <1>4, <1>5, <1>6, LedgerKept
  <1> QED BY <1>3, <1>7 DEF WorkerLedger

\* The provider fails: for now, or for good.
LEMMA ProviderFailsLedger ==
    ASSUME TypeInv, NEW w \in Workers, WorkerLedger(worker[w]), ProviderFails(w)
    PROVE  WorkerLedger(worker'[w])
  <1>1. worker[w].item \in Item /\ worker[w] \in WorkerState /\ DOMAIN worker = Workers /\ Asking(w)
    BY AskingItem DEF ProviderFails
  <1>2. PICK err \in ErrorKinds :
          worker' = [worker EXCEPT
             ![w].asked = @ + 1,
             ![w].item.pending = IF Retryable(err) THEN Append(@, NextProvider(w)) ELSE @,
             ![w].item.errs = IF Retryable(err) THEN @ ELSE Append(@, NextProvider(w))]
    BY DEF ProviderFails
  <1> DEFINE s == worker[w]
             aside == [s.item EXCEPT !.pending = Append(@, NextProvider(w))]
             failed == [s.item EXCEPT !.errs = Append(@, NextProvider(w))]
  <1>3. CASE Retryable(err)
    <2>1. worker' = [worker EXCEPT ![w].asked = @ + 1,
                                   ![w].item.pending = Append(@, NextProvider(w)),
                                   ![w].item.errs = @]
      BY <1>2, <1>3, Zenon
    <2>2. [s.item EXCEPT !.pending = Append(@, NextProvider(w)), !.errs = @] = aside
      BY <1>1 DEF Item
    <2>3. worker' = [worker EXCEPT ![w].asked = @ + 1,
              ![w].item = [s.item EXCEPT !.pending = Append(@, NextProvider(w)), !.errs = @]]
      BY <1>1, <2>1 DEF WorkerState
    <2>4. worker' = [worker EXCEPT ![w].asked = @ + 1, ![w].item = aside]
      <3> HIDE DEF aside
      <3> QED BY <2>2, <2>3, Zenon
    <2>5. worker' = [worker EXCEPT ![w].asked = @ + 1,
                                   ![w].item.pending = Append(@, NextProvider(w))]
      BY <1>1, <2>4 DEF WorkerState
    <2> QED BY <1>1, <2>5, AsideLedger
  <1>4. CASE ~Retryable(err)
    <2>1. worker' = [worker EXCEPT ![w].asked = @ + 1,
                                   ![w].item.pending = @,
                                   ![w].item.errs = Append(@, NextProvider(w))]
      BY <1>2, <1>4, Zenon
    <2>2. [s.item EXCEPT !.pending = @, !.errs = Append(@, NextProvider(w))] = failed
      BY <1>1 DEF Item
    <2>3. worker' = [worker EXCEPT ![w].asked = @ + 1,
              ![w].item = [s.item EXCEPT !.pending = @, !.errs = Append(@, NextProvider(w))]]
      BY <1>1, <2>1 DEF WorkerState
    <2>4. worker' = [worker EXCEPT ![w].asked = @ + 1, ![w].item = failed]
      <3> HIDE DEF failed
      <3> QED BY <2>2, <2>3, Zenon
    <2>5. worker' = [worker EXCEPT ![w].asked = @ + 1,
                                   ![w].item.errs = Append(@, NextProvider(w))]
      BY <1>1, <2>4 DEF WorkerState
    <2> QED BY <1>1, <2>5, FailedLedger
  <1> QED BY <1>3, <1>4

\* A worker that has nothing to account for.
LEMMA IdleLedger ==
    ASSUME NEW s, s.pc \notin {"resolving", "asking", "sending"}
    PROVE  WorkerLedger(s)
    BY DEF WorkerLedger

\* A step of a worker other than the send of its item keeps its ledger.
LEMMA WorkerKeepsLedger ==
    ASSUME TypeInv, NEW w \in Workers, WorkerLedger(worker[w]),
           WorkerStep(w) \/ ItemDeadline(w), ~Emit(w)
    PROVE  WorkerLedger(worker'[w]) /\ UNCHANGED <<results, items, retryVars>>
  <1>1. UNCHANGED <<results, items, retryVars>>
    BY DEF WorkerStep, CheckReturns, Resolve, ResolveFails, LimiterRefuses,
       ProviderFails, ProviderAnswers, MergeItem, WorkerExits, ItemDeadline, KeepAllButWorker
  <1>2. worker[w] \in WorkerState /\ DOMAIN worker = Workers
    BY OneWorker
  <1>3. CASE LimiterRefuses(w)
    BY <1>1, <1>3, AsideLedger DEF LimiterRefuses
  <1>4. CASE WorkerExits(w)
    <2>1. worker'[w].pc = "exited"
      BY <1>2, <1>4 DEF WorkerExits, WorkerState
    <2> QED BY <1>1, <2>1, IdleLedger
  <1>5. CASE ItemDeadline(w)
    <2>1. worker'[w].pc = worker[w].pc /\ worker'[w].item = worker[w].item
          /\ worker'[w].asked = worker[w].asked
      BY <1>2, <1>5 DEF ItemDeadline, WorkerState
    <2> QED BY <1>1, <2>1 DEF WorkerLedger
  <1>6. WorkerLedger(worker'[w])
    BY <1>3, <1>4, <1>5, CheckReturnsLedger, ResolveLedger, ResolveFailsLedger,
       ProviderFailsLedger, ToldLedger, MergeLedger DEF WorkerStep
  <1> QED BY <1>1, <1>6

\* The ledger goes with the item into the channel.
LEMMA EmitAccounts ==
    ASSUME TypeInv, Accounts, NEW w \in Workers, Emit(w)
    PROVE  Accounts'
  <1> DEFINE s == worker[w]
  <1>1. /\ s \in WorkerState /\ StateOK(s) /\ DOMAIN worker = Workers
    BY OneWorker
  <1>2. /\ s.pc = "sending" /\ s.item \in Item /\ worker' = [worker EXCEPT ![w] = IdleWorker]
        /\ results' = Append(results, s.item) /\ UNCHANGED <<items, retryVars>>
        /\ results \in Seq(Item)
    BY <1>1 DEF Emit, StateOK, TypeInv, PoolTypeOK
  <1>3. /\ DOMAIN results' = 1..(Len(results) + 1) /\ DOMAIN results = 1..Len(results)
        /\ \A i \in 1..Len(results) : results'[i] = results[i]
        /\ results'[Len(results) + 1] = s.item /\ Len(results) \in Nat
    BY <1>2, AppendProperties, LenProperties
  <1>4. \A i \in DOMAIN results' : i \in DOMAIN results \/ i = Len(results) + 1
    BY <1>3
  <1>5. Ledger(s.item, Pending(s.item))
    BY <1>2 DEF Accounts, WorkerLedger
  <1>6. ASSUME NEW i \in DOMAIN results' PROVE Ledger(results'[i], Pending(results'[i]))
    BY <1>3, <1>4, <1>5 DEF Accounts
  <1>7. \A v \in Workers : v # w => worker'[v] = worker[v]
    BY <1>2
  <1>8. WorkerLedger(worker'[w])
    <2>1. worker'[w] = IdleWorker
      BY <1>1, <1>2
    <2> QED BY <2>1, IdleOK, IdleLedger
  <1>9. ASSUME NEW v \in Workers PROVE WorkerLedger(worker'[v])
    BY <1>7, <1>8 DEF Accounts
  <1>10. \A i \in DOMAIN items' : Ledger(items'[i], Pending(items'[i]) \cup Unsettled(i)')
    <2>1. \A i : Unsettled(i)' = Unsettled(i)
      BY <1>2, UnsettledKept DEF retryVars
    <2> QED BY <1>2, <2>1 DEF Accounts
  <1> QED BY <1>6, <1>9, <1>10 DEF Accounts, WorkerLedger, Ledger, Pending, Told, Failed

\* Nothing is unsettled for an item that has no retry job.
LEMMA UnsettledNone ==
    ASSUME NEW i, \A k \in DOMAIN retryJobs : retryJobs[k].index # i
    PROVE  Unsettled(i) = {}
    BY DEF Unsettled

\* The collector takes the item with its ledger; no retry is planned for it yet.
LEMMA CollectAccounts ==
    ASSUME TypeInv, Accounts, Collect
    PROVE  Accounts'
  <1>1. /\ results \in Seq(Item) /\ items \in Seq(Item) /\ results # <<>>
        /\ items' = Append(items, Head(results)) /\ results' = Tail(results)
        /\ UNCHANGED <<worker, retryVars>>
    BY DEF TypeInv, PoolTypeOK, Collect
  <1>2. /\ Len(results) \in Nat \ {0} /\ DOMAIN results = 1..Len(results)
        /\ DOMAIN results' = 1..(Len(results) - 1)
        /\ \A i \in 1..(Len(results) - 1) : results'[i] = results[i + 1]
        /\ Head(results) = results[1] /\ Head(results) \in Item
    BY <1>1, HeadTailProperties, LenProperties, EmptySeq
  <1>3. /\ Len(items) \in Nat /\ DOMAIN items = 1..Len(items)
        /\ DOMAIN items' = 1..(Len(items) + 1)
        /\ \A i \in 1..Len(items) : items'[i] = items[i]
        /\ items'[Len(items) + 1] = results[1]
    BY <1>1, <1>2, AppendProperties, LenProperties
  <1>4. \A i : Unsettled(i)' = Unsettled(i)
    BY <1>1, UnsettledKept DEF retryVars
  <1>5. Unsettled(Len(items) + 1) = {}
    <2>1. ASSUME NEW k \in DOMAIN retryJobs PROVE retryJobs[k].index # Len(items) + 1
      <3>1. retryJobs[k] \in [index: 1..Len(items), provider: ProviderNames]
        BY RetryFacts, ElementOfSeq
      <3>2. retryJobs[k].index \in 1..Len(items)
        BY <3>1
      <3> QED BY <1>3, <3>2
    <2> QED BY <2>1, UnsettledNone
  <1>6. ASSUME NEW i \in DOMAIN results' PROVE Ledger(results'[i], Pending(results'[i]))
    <2>1. i + 1 \in DOMAIN results /\ results'[i] = results[i + 1]
      BY <1>2
    <2> QED BY <2>1 DEF Accounts
  <1>7. ASSUME NEW i \in DOMAIN items'
        PROVE  Ledger(items'[i], Pending(items'[i]) \cup Unsettled(i)')
    <2>1. CASE i \in DOMAIN items
      BY <1>3, <1>4, <2>1 DEF Accounts
    <2>2. CASE i = Len(items) + 1
      <3>1. 1 \in DOMAIN results
        BY <1>2
      <3>2. Ledger(results[1], Pending(results[1]))
        BY <3>1 DEF Accounts
      <3>3. Pending(results[1]) \cup Unsettled(i)' = Pending(results[1])
        BY <1>4, <1>5, <2>2
      <3> QED BY <1>3, <2>2, <3>2, <3>3
    <2> QED BY <1>3, <2>1, <2>2
  <1>8. ASSUME NEW v \in Workers PROVE WorkerLedger(worker'[v])
    BY <1>1 DEF Accounts
  <1> QED BY <1>6, <1>7, <1>8 DEF Accounts, WorkerLedger, Ledger, Pending, Told, Failed

-----------------------------------------------------------------------------
(* Planning the retries.                                                   *)

\* What is unsettled is what the open jobs are for, before and after a step.
LEMMA UnsettledOpen ==
    ASSUME NEW i, NEW name
    PROVE  /\ name \in Unsettled(i) <=>
                 \E k \in OpenJobs : retryJobs[k].index = i /\ retryJobs[k].provider = name
           /\ name \in Unsettled(i)' <=>
                 \E k \in OpenJobs' : retryJobs'[k].index = i /\ retryJobs'[k].provider = name
           /\ OpenJobs \subseteq DOMAIN retryJobs
           /\ OpenJobs' \subseteq DOMAIN retryJobs'
  BY DEF Unsettled, OpenJobs, AskingFor, AnsweredFor

\* What one iteration of the loop over the items does: a job for each pending
\* provider is added, and the item is as it was but for the pending list.
LEMMA PlanItemEffect ==
    ASSUME TypeInv, PlanItem
    PROVE  LET i == planned + 1
               names == items[i].pending
               n == Len(retryJobs)
           IN  /\ i \in 1..Len(items) /\ Len(items) \in Nat /\ DOMAIN items = 1..Len(items)
               /\ items[i] \in Item /\ planned' = i /\ planned \in Nat
               /\ DOMAIN names = 1..Len(names) /\ Len(names) \in Nat /\ Distinct(names)
               /\ n \in Nat /\ DOMAIN retryJobs = 1..n /\ DOMAIN retryJobs' = 1..(n + Len(names))
               /\ Len(retryJobs') = n + Len(names)
               /\ \A k \in 1..n : retryJobs'[k] = retryJobs[k]
               /\ \A k \in 1..Len(names) : /\ retryJobs'[n + k].index = i
                                           /\ retryJobs'[n + k].provider = names[k]
               /\ DOMAIN items' = DOMAIN items
               /\ items'[i] = [items[i] EXCEPT !.pending = <<>>]
               /\ \A j \in DOMAIN items : j # i => items'[j] = items[j]
               /\ retryNext \in 1..(n + 1)
               /\ UNCHANGED <<conf, cancelled, main, poolVars, retryNext, retryClosed, retrier,
                              retryResults, retryResultsClosed>>
  <1> DEFINE i == planned + 1
             names == items[i].pending
             n == Len(retryJobs)
             new == [k \in DOMAIN names |-> [index |-> i, provider |-> names[k]]]
             cleared == [items[i] EXCEPT !.pending = <<>>]
             Jobs == [index: 1..Len(items), provider: ProviderNames]
  <1>1. /\ items \in Seq(Item) /\ planned \in 0..Len(items) /\ planned < Len(items)
        /\ retryJobs \in Seq(Jobs) /\ retryNext \in 1..(n + 1)
        /\ \A j \in DOMAIN items : Distinct(items[j].pending)
    BY DEF TypeInv, PoolTypeOK, RetryTypeOK, PlanItem
  <1>2. Len(items) \in Nat /\ DOMAIN items = 1..Len(items) /\ i \in 1..Len(items) /\ planned \in Nat
    BY <1>1, LenProperties
  <1>3. items[i] \in Item
    BY <1>1, <1>2, ElementOfSeq
  <1>4. names \in Seq(ProviderNames) /\ Distinct(names) /\ Unique(names) = names
    BY <1>1, <1>2, <1>3, UniqueNames DEF Item
  <1>5. DOMAIN names = 1..Len(names) /\ Len(names) \in Nat /\ names \in [1..Len(names) -> ProviderNames]
    BY <1>4, LenProperties
  <1>6. retryJobs' = retryJobs \o new /\ items' = [items EXCEPT ![i] = cleared] /\ planned' = i
    BY <1>4 DEF PlanItem
  <1>7. new \in Seq(Jobs) /\ Len(new) = Len(names)
    <2>1. new \in [1..Len(names) -> Jobs]
      BY <1>2, <1>5
    <2> HIDE DEF new, Jobs
    <2>2. new \in Seq(Jobs)
      BY <1>5, <2>1, SeqDef
    <2>3. DOMAIN new = 1..Len(new) /\ DOMAIN new = 1..Len(names) /\ Len(new) \in Nat
      BY <2>1, <2>2, LenProperties
    <2> QED BY <1>5, <2>2, <2>3
  <1>8. \A k \in 1..Len(names) : new[k].index = i /\ new[k].provider = names[k]
    BY <1>5
  <1> HIDE DEF new, names, cleared, Jobs
  <1>9. /\ n \in Nat /\ DOMAIN retryJobs = 1..n /\ Len(retryJobs') = n + Len(names)
        /\ DOMAIN retryJobs' = 1..(n + Len(names))
        /\ \A k \in 1..(n + Len(names)) :
              retryJobs'[k] = IF k <= n THEN retryJobs[k] ELSE new[k - n]
    <2>1. n \in Nat /\ DOMAIN retryJobs = 1..n
      BY <1>1, LenProperties
    <2>2. /\ retryJobs' \in Seq(Jobs) /\ Len(retryJobs') = n + Len(new)
          /\ \A k \in 1..(n + Len(new)) :
                retryJobs'[k] = IF k <= n THEN retryJobs[k] ELSE new[k - n]
      BY <1>1, <1>6, <1>7, ConcatProperties
    <2>3. DOMAIN retryJobs' = 1..Len(retryJobs')
      BY <2>2, LenProperties
    <2> QED BY <1>7, <2>1, <2>2, <2>3
  <1>10. \A k \in 1..n : retryJobs'[k] = retryJobs[k]
    BY <1>5, <1>9
  <1>11. ASSUME NEW k \in 1..Len(names)
         PROVE  retryJobs'[n + k].index = i /\ retryJobs'[n + k].provider = names[k]
    <2>1. n + k \in 1..(n + Len(names)) /\ ~(n + k <= n) /\ (n + k) - n = k
      BY <1>5, <1>9
    <2>2. retryJobs'[n + k] = new[k]
      BY <1>9, <2>1
    <2> QED BY <1>8, <2>2
  <1>12. /\ DOMAIN items' = DOMAIN items /\ items'[i] = cleared
         /\ \A j \in DOMAIN items : j # i => items'[j] = items[j]
    BY <1>2, <1>6
  <1>13. UNCHANGED <<conf, cancelled, main, poolVars, retryNext, retryClosed, retrier,
                     retryResults, retryResultsClosed>>
    BY DEF PlanItem
  <1> QED BY <1>1, <1>2, <1>3, <1>4, <1>5, <1>6, <1>9, <1>10, <1>11, <1>12, <1>13
          DEF names, cleared

\* What was pending becomes unsettled, and nothing else does.
LEMMA PlanUnsettled ==
    ASSUME TypeInv, PlanItem, NEW i, i = planned + 1
    PROVE  /\ \A j : j # i => Unsettled(j)' = Unsettled(j)
           /\ Unsettled(i)' = Unsettled(i) \cup Pending(items[i])
           /\ Pending(items'[i]) = {}
  <1> DEFINE names == items[i].pending
             n == Len(retryJobs)
             m == Len(names)
  <1>1. /\ n \in Nat /\ m \in Nat /\ DOMAIN retryJobs = 1..n /\ DOMAIN retryJobs' = 1..(n + m)
        /\ \A k \in 1..n : retryJobs'[k] = retryJobs[k]
        /\ \A k \in 1..m : retryJobs'[n + k].index = i /\ retryJobs'[n + k].provider = names[k]
        /\ DOMAIN names = 1..m /\ retryNext \in 1..(n + 1)
        /\ UNCHANGED <<retryNext, retrier, retryResults>>
        /\ items[i] \in Item /\ items'[i] = [items[i] EXCEPT !.pending = <<>>]
    BY PlanItemEffect
  <1>4. Pending(items'[i]) = {}
    <2>1. items'[i].pending = <<>>
      BY <1>1 DEF Item
    <2> QED BY <2>1 DEF Pending
  <1>5. Pending(items[i]) = {names[k] : k \in 1..m}
    BY <1>1 DEF Pending
  <1> HIDE DEF names, n, m
  <1>6. \A k \in 1..(n + m) : k \in 1..n \/ (k - n \in 1..m /\ n + (k - n) = k)
    BY <1>1
  <1>7. \A k \in 1..m : n + k \in 1..(n + m)
    BY <1>1
  <1>8. 1..n \subseteq 1..(n + m)
    BY <1>1
  <1>11. /\ OpenJobs' = OpenJobs \cup {n + k : k \in 1..m}
         /\ OpenJobs \subseteq 1..n
    <2> DEFINE Open(k) == k >= retryNext \/ AskingFor(k) \/ AnsweredFor(k)
    <2>1. OpenJobs' = {k \in 1..(n + m) : Open(k)} /\ OpenJobs = {k \in 1..n : Open(k)}
      BY <1>1 DEF OpenJobs, AskingFor, AnsweredFor
    <2>2. \A k \in 1..m : Open(n + k)
      BY <1>1
    <2> HIDE DEF Open
    <2> QED BY <1>6, <1>7, <1>8, <2>1, <2>2
  <1>9. ASSUME NEW j, j # i PROVE Unsettled(j)' = Unsettled(j)
    <2>1. ASSUME NEW k \in OpenJobs', retryJobs'[k].index = j
          PROVE  k \in OpenJobs /\ retryJobs'[k] = retryJobs[k]
      BY <1>1, <1>9, <1>11, <2>1
    <2>2. \A k \in OpenJobs : k \in OpenJobs' /\ retryJobs'[k] = retryJobs[k]
      BY <1>1, <1>11
    <2>3. \A name : name \in Unsettled(j)' <=>
              \E k \in OpenJobs' : retryJobs'[k].index = j /\ retryJobs'[k].provider = name
      BY UnsettledOpen
    <2>4. \A name : name \in Unsettled(j) <=>
              \E k \in OpenJobs : retryJobs[k].index = j /\ retryJobs[k].provider = name
      BY UnsettledOpen
    <2>5. \A name : name \in Unsettled(j)' <=> name \in Unsettled(j)
      BY <2>1, <2>2, <2>3, <2>4
    <2> QED BY <2>5
  <1>12. \A x : x \in Unsettled(i)' <=>
            \E k \in OpenJobs' : retryJobs'[k].index = i /\ retryJobs'[k].provider = x
    BY UnsettledOpen
  <1>10. Unsettled(i)' = Unsettled(i) \cup {names[k] : k \in 1..m}
    <2>1. ASSUME NEW x \in Unsettled(i)' PROVE x \in Unsettled(i) \cup {names[k] : k \in 1..m}
      <3>1. PICK k \in OpenJobs' : retryJobs'[k].index = i /\ retryJobs'[k].provider = x
        BY <1>12
      <3>2. CASE k \in OpenJobs
        BY <1>1, <1>11, <3>1, <3>2, UnsettledOpen
      <3>3. CASE k \in {n + j : j \in 1..m}
        BY <1>1, <3>1, <3>3
      <3> QED BY <1>11, <3>2, <3>3
    <2>2. ASSUME NEW x \in Unsettled(i) PROVE x \in Unsettled(i)'
      <3>1. PICK k \in OpenJobs : retryJobs[k].index = i /\ retryJobs[k].provider = x
        BY UnsettledOpen
      <3>2. k \in OpenJobs' /\ retryJobs'[k].index = i /\ retryJobs'[k].provider = x
        BY <1>1, <1>11, <3>1
      <3> QED BY <1>12, <3>2
    <2>3. ASSUME NEW k \in 1..m PROVE names[k] \in Unsettled(i)'
      <3>1. /\ n + k \in OpenJobs' /\ retryJobs'[n + k].index = i
            /\ retryJobs'[n + k].provider = names[k]
        BY <1>1, <1>11
      <3> QED BY <1>12, <3>1
    <2>4. \A x : x \in Unsettled(i)' <=> x \in Unsettled(i) \cup {names[k] : k \in 1..m}
      BY <2>1, <2>2, <2>3
    <2> QED BY <2>4
  <1> QED BY <1>4, <1>5, <1>9, <1>10

\* Planning moves a name from the pending to the unsettled ones: it stays open.
LEMMA PlanAccounts ==
    ASSUME TypeInv, Accounts, PlanItem
    PROVE  Accounts'
  <1> PICK i : i = planned + 1
    OBVIOUS
  <1>1. /\ i \in 1..Len(items) /\ DOMAIN items = 1..Len(items) /\ items[i] \in Item
        /\ DOMAIN items' = DOMAIN items
        /\ items'[i] = [items[i] EXCEPT !.pending = <<>>]
        /\ \A j \in DOMAIN items : j # i => items'[j] = items[j]
        /\ UNCHANGED <<worker, results>>
    BY PlanItemEffect DEF poolVars
  <1>2. /\ items'[i].results = items[i].results /\ items'[i].errs = items[i].errs
        /\ items'[i].total = items[i].total
    BY <1>1 DEF Item
  <1>3. /\ \A j : j # i => Unsettled(j)' = Unsettled(j)
        /\ Unsettled(i)' = Unsettled(i) \cup Pending(items[i])
        /\ Pending(items'[i]) = {}
    BY PlanUnsettled
  <1>4. ASSUME NEW j \in DOMAIN items'
        PROVE  Ledger(items'[j], Pending(items'[j]) \cup Unsettled(j)')
    <2>1. CASE j # i
      BY <1>1, <1>3, <2>1 DEF Accounts
    <2>2. CASE j = i
      <3>1. Ledger(items[i], Pending(items[i]) \cup Unsettled(i))
        BY <1>1 DEF Accounts
      <3>2. Pending(items'[i]) \cup Unsettled(i)' = Pending(items[i]) \cup Unsettled(i)
        BY <1>3
      <3>3. Ledger(items'[i], Pending(items[i]) \cup Unsettled(i))
        BY <1>2, <3>1, LedgerKept
      <3> QED BY <2>2, <3>2, <3>3
    <2> QED BY <2>1, <2>2
  <1>5. ASSUME NEW j \in DOMAIN results' PROVE Ledger(results'[j], Pending(results'[j]))
    BY <1>1 DEF Accounts
  <1>6. ASSUME NEW w \in Workers PROVE WorkerLedger(worker'[w])
    BY <1>1 DEF Accounts
  <1> QED BY <1>4, <1>5, <1>6 DEF Accounts, WorkerLedger, Ledger, Pending, Told, Failed

\* The outcomes in the channel are of jobs that exist.
LEMMA OutcomeTypes ==
    ASSUME TypeInv
    PROVE  /\ retryResults \in Seq([job: 1..Len(retryJobs), results: Seq(ResultSet),
                                    errs: Seq(ProviderNames)])
           /\ Len(retryResults) \in Nat /\ DOMAIN retryResults = 1..Len(retryResults)
           /\ \A r \in DOMAIN retryResults : retryResults[r].job \in 1..Len(retryJobs)
  <1> DEFINE Outcomes == [job: 1..Len(retryJobs), results: Seq(ResultSet), errs: Seq(ProviderNames)]
  <1>1. retryResults \in Seq(Outcomes)
    BY DEF TypeInv, RetryTypeOK
  <1>2. Len(retryResults) \in Nat /\ DOMAIN retryResults = 1..Len(retryResults)
    BY <1>1, LenProperties
  <1>3. \A r \in DOMAIN retryResults : retryResults[r] \in Outcomes
    BY <1>1, <1>2, ElementOfSeq
  <1> QED BY <1>1, <1>2, <1>3

\* The new jobs are for an item that had none and for distinct providers.
LEMMA PlanJobs ==
    ASSUME TypeInv, JobPlaces, PlanItem
    PROVE  JobPlaces'
  <1> PICK i : i = planned + 1
    OBVIOUS
  <1> DEFINE names == items[i].pending
             n == Len(retryJobs)
             m == Len(names)
  <1>1. /\ n \in Nat /\ m \in Nat /\ DOMAIN retryJobs = 1..n /\ DOMAIN retryJobs' = 1..(n + m)
        /\ \A k \in 1..n : retryJobs'[k] = retryJobs[k]
        /\ \A k \in 1..m : retryJobs'[n + k].index = i /\ retryJobs'[n + k].provider = names[k]
        /\ DOMAIN names = 1..m /\ Distinct(names) /\ retryNext \in 1..(n + 1)
        /\ planned' = i /\ planned \in Nat
        /\ UNCHANGED <<retryNext, retrier, retryResults>>
    BY PlanItemEffect
  <1>2. \A r \in DOMAIN retryResults : retryResults[r].job \in 1..n
    BY OutcomeTypes
  <1> HIDE DEF names, n, m
  <1>3. \A k \in 1..(n + m) : k \in 1..n \/ (k - n \in 1..m /\ n + (k - n) = k)
    BY <1>1
  <1>4. ASSUME NEW k \in 1..(n + m)
        PROVE  \/ k \in 1..n /\ retryJobs'[k] = retryJobs[k] /\ retryJobs'[k].index <= planned
               \/ /\ k - n \in 1..m /\ n + (k - n) = k
                  /\ retryJobs'[k].index = i /\ retryJobs'[k].provider = names[k - n]
    <2>1. CASE k \in 1..n
      BY <1>1, <2>1 DEF JobPlaces
    <2>2. CASE k - n \in 1..m /\ n + (k - n) = k
      BY <1>1, <2>2
    <2> QED BY <1>3, <2>1, <2>2
  <1>5. \A k \in 1..n : retryJobs[k].index \in Nat
    <2>1. ASSUME NEW k \in 1..n PROVE retryJobs[k].index \in Nat
      <3>1. retryJobs[k] \in [index: 1..Len(items), provider: ProviderNames]
        BY <2>1, RetryFacts, ElementOfSeq DEF n
      <3>2. retryJobs[k].index \in 1..Len(items)
        BY <3>1
      <3> QED BY <3>2
    <2> QED BY <2>1
  <1>9. ASSUME NEW k \in 1..n
        PROVE  retryJobs'[k].index \in Nat /\ retryJobs'[k].index <= planned
    <2>1. retryJobs'[k] = retryJobs[k]
      BY <1>1
    <2>2. retryJobs[k].index <= planned
      BY <1>1 DEF JobPlaces
    <2> QED BY <1>5, <2>1, <2>2
  <1>6. ASSUME NEW j \in 1..(n + m), NEW k \in 1..(n + m),
               retryJobs'[j].index = retryJobs'[k].index,
               retryJobs'[j].provider = retryJobs'[k].provider
        PROVE  j = k
    <2>1. CASE j \in 1..n /\ k \in 1..n
      <3>1. \A a, b \in 1..n : retryJobs[a].index = retryJobs[b].index
                 /\ retryJobs[a].provider = retryJobs[b].provider => a = b
        BY <1>1 DEF JobPlaces
      <3>2. retryJobs'[j] = retryJobs[j] /\ retryJobs'[k] = retryJobs[k]
        BY <1>1, <2>1
      <3> QED BY <1>6, <2>1, <3>1, <3>2
    <2>2. CASE j \in 1..n /\ k \notin 1..n
      <3>1. retryJobs'[j].index \in Nat /\ retryJobs'[j].index <= planned
        BY <1>9, <2>2
      <3>2. retryJobs'[k].index = planned + 1
        BY <1>1, <1>4, <2>2
      <3> QED BY <1>1, <1>6, <3>1, <3>2
    <2>3. CASE j \notin 1..n /\ k \in 1..n
      <3>1. retryJobs'[k].index \in Nat /\ retryJobs'[k].index <= planned
        BY <1>9, <2>3
      <3>2. retryJobs'[j].index = planned + 1
        BY <1>1, <1>4, <2>3
      <3> QED BY <1>1, <1>6, <3>1, <3>2
    <2>4. CASE j \notin 1..n /\ k \notin 1..n
      <3>1. /\ j - n \in 1..m /\ n + (j - n) = j /\ k - n \in 1..m /\ n + (k - n) = k
            /\ names[j - n] = names[k - n]
        BY <1>4, <1>6, <2>4
      <3>2. j - n = k - n
        BY <1>1, <3>1 DEF Distinct
      <3> QED BY <3>1, <3>2
    <2> QED BY <2>1, <2>2, <2>3, <2>4
  <1>7. ASSUME NEW k \in 1..(n + m) PROVE retryJobs'[k].index <= planned'
    BY <1>1, <1>4, <1>5
  <1>8. \A r \in DOMAIN retryResults : retryJobs'[retryResults[r].job] = retryJobs[retryResults[r].job]
    BY <1>1, <1>2
  <1> QED BY <1>1, <1>6, <1>7, <1>8 DEF JobPlaces, AnsweredFor, OutcomeOf

-----------------------------------------------------------------------------
(* The retry phase.                                                        *)

\* With the same jobs still open, nothing is settled.
LEMMA OpenKept ==
    ASSUME UNCHANGED retryJobs, OpenJobs' = OpenJobs
    PROVE  \A i : Unsettled(i)' = Unsettled(i)
  <1>1. ASSUME NEW i PROVE Unsettled(i)' = Unsettled(i)
    <2>1. \A name : name \in Unsettled(i)' <=>
              \E k \in OpenJobs' : retryJobs'[k].index = i /\ retryJobs'[k].provider = name
      BY UnsettledOpen
    <2>2. \A name : name \in Unsettled(i) <=>
              \E k \in OpenJobs : retryJobs[k].index = i /\ retryJobs[k].provider = name
      BY UnsettledOpen
    <2>3. \A name : name \in Unsettled(i)' <=> name \in Unsettled(i)
      BY <2>1, <2>2
    <2> QED BY <2>3
  <1> QED BY <1>1

\* The sender hands the next job to an idle retrier: it is open before and after.
LEMMA SendRetryPlaces ==
    ASSUME TypeInv, JobPlaces, NEW v \in Retriers, SendRetry(v)
    PROVE  JobPlaces' /\ OpenJobs' = OpenJobs
  <1> DEFINE k0 == retryNext
             n == Len(retryJobs)
  <1>1. /\ retrier' = [retrier EXCEPT ![v] = [pc |-> "asking", job |-> retryNext]]
        /\ retrier[v].pc = "idle" /\ retryNext' = retryNext + 1
        /\ retryNext \in 1..n /\ DOMAIN retrier = Retriers /\ n \in Nat
        /\ DOMAIN retryJobs = 1..n
        /\ UNCHANGED <<planned, retryJobs, retryResults>>
    BY RetryFacts DEF SendRetry
  <1>2. /\ retrier'[v].pc = "asking" /\ retrier'[v].job = retryNext
        /\ \A u \in Retriers : u # v => retrier'[u] = retrier[u]
    BY <1>1
  <1>3. /\ \A u \in Retriers : retrier[u].pc = "asking" => retrier[u].job \in 1..n
        /\ \A r \in DOMAIN retryResults : retryResults[r].job \in 1..n
    BY RetryFacts, OutcomeTypes
  <1> HIDE DEF n
  <1>4. \A u \in Retriers : u # v /\ retrier'[u].pc = "asking" => retrier'[u].job < retryNext
    BY <1>2 DEF JobPlaces
  <1>5. ~AnsweredFor(retryNext)
    BY <1>1, <1>3 DEF JobPlaces, AnsweredFor
  <1>6. ASSUME NEW u \in Retriers, retrier'[u].pc = "asking"
        PROVE  /\ retrier'[u].job < retryNext'
               /\ ~\E r \in DOMAIN retryResults' : retryResults'[r].job = retrier'[u].job
               /\ \A q \in Retriers :
                     retrier'[q].pc = "asking" /\ retrier'[q].job = retrier'[u].job => q = u
    <2>1. CASE u = v
      BY <1>1, <1>2, <1>3, <1>4, <1>5, <2>1 DEF AnsweredFor
    <2>2. CASE u # v
      <3>1. retrier[u].pc = "asking" /\ retrier[u].job \in 1..n /\ retrier'[u].job = retrier[u].job
        BY <1>2, <1>3, <1>6, <2>2
      <3>2. retrier[u].job < retryNext
        BY <3>1 DEF JobPlaces
      <3>3. ~AnsweredFor(retrier[u].job)
        BY <3>1 DEF JobPlaces
      <3>4. ASSUME NEW q \in Retriers, retrier'[q].pc = "asking", retrier'[q].job = retrier'[u].job
            PROVE  q = u
        <4>1. q # v
          BY <1>1, <1>2, <3>1, <3>2, <3>4
        <4> QED BY <1>2, <3>1, <3>4, <4>1 DEF JobPlaces
      <3> QED BY <1>1, <3>1, <3>2, <3>3, <3>4 DEF AnsweredFor
    <2> QED BY <2>1, <2>2
  <1>7. ASSUME NEW r \in DOMAIN retryResults PROVE retryResults[r].job < retryNext'
    BY <1>1, <1>3 DEF JobPlaces
  <1>8. JobPlaces'
    BY <1>1, <1>6, <1>7 DEF JobPlaces, AnsweredFor, OutcomeOf
  <1>9. OpenJobs' = OpenJobs
    <2>1. ASSUME NEW k \in 1..n
          PROVE  (k >= retryNext' \/ \E u \in Retriers : retrier'[u].pc = "asking" /\ retrier'[u].job = k)
                   <=> (k >= retryNext \/ AskingFor(k))
      <3>1. CASE k = retryNext
        BY <1>1, <1>2, <3>1
      <3>2. CASE k # retryNext
        <4>1. k >= retryNext' <=> k >= retryNext
          BY <1>1, <3>2
        <4>2. (\E u \in Retriers : retrier'[u].pc = "asking" /\ retrier'[u].job = k) <=> AskingFor(k)
          BY <1>1, <1>2, <3>2 DEF AskingFor
        <4> QED BY <4>1, <4>2
      <3> QED BY <3>1, <3>2
    <2> QED BY <1>1, <2>1 DEF OpenJobs, AskingFor, AnsweredFor
  <1> QED BY <1>8, <1>9

\* A retrier that sends the outcome of its job leaves the job to the channel.
LEMMA RetryOutcomePlaces ==
    ASSUME TypeInv, JobPlaces, NEW v \in Retriers, NEW reports, NEW errs,
           RetryOutcome(v, reports, errs),
           OutcomeOf([job |-> retrier[v].job, results |-> reports, errs |-> errs],
                     RetriedProvider(v))
    PROVE  JobPlaces' /\ OpenJobs' = OpenJobs
  <1> PICK job : job = retrier[v].job
    OBVIOUS
  <1> DEFINE Outcomes == [job: 1..Len(retryJobs), results: Seq(ResultSet), errs: Seq(ProviderNames)]
             outcome == [job |-> job, results |-> reports, errs |-> errs]
             m == Len(retryResults)
  <1>1. /\ retrier[v].pc = "asking" /\ retrier' = [retrier EXCEPT ![v] = IdleRetrier]
        /\ retryResults' = Append(retryResults, outcome)
        /\ DOMAIN retrier = Retriers
        /\ UNCHANGED <<planned, retryJobs, retryNext>>
    BY RetryFacts DEF RetryOutcome
  <1>2. /\ retryResults' = [k \in 1..(m + 1) |-> IF k = m + 1 THEN outcome ELSE retryResults[k]]
        /\ m \in Nat /\ DOMAIN retryResults = 1..m
    BY <1>1, OutcomeTypes
  <1>3. outcome.job = job /\ OutcomeOf(outcome, retryJobs[job].provider)
    BY DEF RetriedProvider
  <1> HIDE DEF outcome, m
  <1>4. /\ DOMAIN retryResults' = 1..(m + 1) /\ retryResults'[m + 1] = outcome
        /\ \A k \in 1..m : retryResults'[k] = retryResults[k]
        /\ \A k \in 1..(m + 1) : k \in 1..m \/ k = m + 1
    BY <1>2
  <1>5. /\ retrier'[v].pc = "idle"
        /\ \A u \in Retriers : u # v => retrier'[u] = retrier[u]
    BY <1>1 DEF IdleRetrier
  <1>6. /\ job < retryNext
        /\ \A r \in 1..m : retryResults[r].job # job
        /\ \A u \in Retriers : retrier[u].pc = "asking" /\ retrier[u].job = job => u = v
    BY <1>1, <1>2 DEF JobPlaces, AnsweredFor
  <1>7. ASSUME NEW u \in Retriers, retrier'[u].pc = "asking"
        PROVE  /\ retrier'[u].job < retryNext'
               /\ ~\E r \in DOMAIN retryResults' : retryResults'[r].job = retrier'[u].job
               /\ \A q \in Retriers :
                     retrier'[q].pc = "asking" /\ retrier'[q].job = retrier'[u].job => q = u
    <2>1. u # v /\ retrier'[u] = retrier[u] /\ retrier[u].pc = "asking"
      BY <1>5, <1>7
    <2>2. retrier[u].job < retryNext /\ ~AnsweredFor(retrier[u].job)
      BY <2>1 DEF JobPlaces
    <2>3. retrier[u].job # job
      BY <1>6, <2>1
    <2>4. ~\E r \in DOMAIN retryResults' : retryResults'[r].job = retrier'[u].job
      BY <1>2, <1>3, <1>4, <2>1, <2>2, <2>3 DEF AnsweredFor
    <2>5. \A q \in Retriers : retrier'[q].pc = "asking" => retrier'[q] = retrier[q]
      BY <1>5
    <2>6. \A q \in Retriers :
              retrier[q].pc = "asking" /\ retrier[q].job = retrier[u].job => q = u
      BY <2>1 DEF JobPlaces
    <2> QED BY <1>1, <2>1, <2>2, <2>4, <2>5, <2>6
  <1>8. ASSUME NEW r \in DOMAIN retryResults'
        PROVE  /\ retryResults'[r].job < retryNext'
               /\ OutcomeOf(retryResults'[r], retryJobs'[retryResults'[r].job].provider)
               /\ \A q \in DOMAIN retryResults' :
                     retryResults'[q].job = retryResults'[r].job => q = r
    <2>1. CASE r = m + 1
      <3>1. retryResults'[r] = outcome
        BY <1>4, <2>1
      <3>2. \A q \in DOMAIN retryResults' : retryResults'[q].job = job => q = m + 1
        BY <1>4, <1>6
      <3> QED BY <1>1, <1>3, <1>6, <2>1, <3>1, <3>2
    <2>2. CASE r \in 1..m
      <3>1. /\ retryResults[r].job < retryNext
            /\ OutcomeOf(retryResults[r], retryJobs[retryResults[r].job].provider)
            /\ \A q \in 1..m : retryResults[q].job = retryResults[r].job => q = r
        BY <1>2, <2>2 DEF JobPlaces
      <3> QED BY <1>1, <1>3, <1>4, <1>6, <2>2, <3>1
    <2> QED BY <1>4, <2>1, <2>2
  <1>9. JobPlaces'
    BY <1>1, <1>7, <1>8 DEF JobPlaces, AnsweredFor, OutcomeOf
  <1>10. OpenJobs' = OpenJobs
    <2>1. ASSUME NEW k
          PROVE  ((\E u \in Retriers : retrier'[u].pc = "asking" /\ retrier'[u].job = k)
                    \/ (\E r \in DOMAIN retryResults' : retryResults'[r].job = k))
                   <=> (AskingFor(k) \/ AnsweredFor(k))
      <3>1. CASE k = job
        <4>1. AskingFor(k)
          BY <1>1, <3>1 DEF AskingFor
        <4>2. m + 1 \in DOMAIN retryResults' /\ retryResults'[m + 1].job = k
          BY <1>2, <1>3, <1>4, <3>1
        <4> QED BY <4>1, <4>2
      <3>2. CASE k # job
        <4>1. (\E u \in Retriers : retrier'[u].pc = "asking" /\ retrier'[u].job = k) <=> AskingFor(k)
          BY <1>5, <3>2 DEF AskingFor
        <4>2. (\E r \in DOMAIN retryResults' : retryResults'[r].job = k) <=> AnsweredFor(k)
          BY <1>2, <1>3, <1>4, <3>2 DEF AnsweredFor
        <4> QED BY <4>1, <4>2
      <3> QED BY <3>1, <3>2
    <2> QED BY <1>1, <2>1 DEF OpenJobs, AskingFor, AnsweredFor
  <1> QED BY <1>9, <1>10

\* Every step of a retrier leaves the same jobs open.
LEMMA RetrierPlaces ==
    ASSUME TypeInv, JobPlaces, NEW v \in Retriers, RetrierStep(v)
    PROVE  JobPlaces' /\ OpenJobs' = OpenJobs
  <1>1. retrier[v].pc = "asking" => RetriedProvider(v) \in ProviderNames
    <2>1. ASSUME NEW k \in 1..Len(retryJobs) PROVE retryJobs[k].provider \in ProviderNames
      <3>1. retryJobs[k] \in [index: 1..Len(items), provider: ProviderNames]
        BY RetryFacts, ElementOfSeq
      <3> QED BY <3>1
    <2> QED BY <2>1, RetryFacts DEF RetriedProvider
  <1>2. CASE RetryFails(v)
    <2>1. OutcomeOf([job |-> retrier[v].job, results |-> <<>>, errs |-> <<RetriedProvider(v)>>],
                    RetriedProvider(v))
      BY DEF OutcomeOf
    <2> QED BY <1>2, <2>1, RetryOutcomePlaces DEF RetryFails
  <1>3. CASE RetryAnswers(v)
    <2>1. PICK report \in Reports :
              RetryOutcome(v, <<Result(RetriedProvider(v), report)>>, <<>>)
      BY <1>3 DEF RetryAnswers
    <2> DEFINE told == Result(RetriedProvider(v), report)
    <2>2. told \in ResultSet
      BY <1>1, <2>1, ResultType DEF RetryOutcome
    <2>3. told.provider = RetriedProvider(v)
      BY DEF Result
    <2> HIDE DEF told
    <2>4. OutcomeOf([job |-> retrier[v].job, results |-> <<told>>, errs |-> <<>>],
                    RetriedProvider(v))
      BY <2>2, <2>3 DEF OutcomeOf
    <2> QED BY <2>1, <2>4, RetryOutcomePlaces DEF told
  <1>4. CASE RetrierExits(v)
    <2>1. /\ retrier[v].pc = "idle" /\ retrier' = [retrier EXCEPT ![v].pc = "exited"]
          /\ UNCHANGED <<planned, retryJobs, retryNext, retryResults>> /\ DOMAIN retrier = Retriers
          /\ retrier[v] \in [pc: {"idle", "asking", "exited"}, job: 0..Len(retryJobs)]
      BY <1>4, RetryFacts DEF RetrierExits
    <2>2. /\ retrier'[v].pc = "exited" /\ \A u \in Retriers : u # v => retrier'[u] = retrier[u]
      BY <2>1
    <2>3. \A u \in Retriers : /\ retrier'[u].pc = "asking" <=> retrier[u].pc = "asking"
                              /\ retrier'[u].pc = "asking" => retrier'[u].job = retrier[u].job
      BY <2>1, <2>2
    <2>4. JobPlaces'
      BY <2>1, <2>3 DEF JobPlaces, AnsweredFor, OutcomeOf
    <2>5. OpenJobs' = OpenJobs
      BY <2>1, <2>3 DEF OpenJobs, AskingFor, AnsweredFor
    <2> QED BY <2>4, <2>5
  <1> QED BY <1>2, <1>3, <1>4 DEF RetrierStep

\* Whoever leaves the jobs, the retriers and their channel alone.
LEMMA PlacesKept ==
    ASSUME JobPlaces, UNCHANGED <<planned, retryJobs, retryNext, retrier, retryResults>>
    PROVE  JobPlaces' /\ OpenJobs' = OpenJobs
  <1>1. JobPlaces'
    BY DEF JobPlaces, AnsweredFor, OutcomeOf
  <1>2. OpenJobs' = OpenJobs
    BY DEF OpenJobs, AskingFor, AnsweredFor
  <1> QED BY <1>1, <1>2

-----------------------------------------------------------------------------
(* Absorbing the outcomes.                                                 *)

\* What an item has when it has absorbed an outcome.
LEMMA AbsorbedFields ==
    ASSUME NEW item \in Item,
           NEW outcome \in [job: Nat, results: Seq(ResultSet), errs: Seq(ProviderNames)]
    PROVE  /\ Absorbed(item, outcome).results = item.results \o outcome.results
           /\ Absorbed(item, outcome).errs = item.errs \o outcome.errs
           /\ Absorbed(item, outcome).total = item.total
           /\ Absorbed(item, outcome).pending = item.pending
           /\ Absorbed(item, outcome).at = item.at
  <1> DEFINE told == [item EXCEPT !.results = @ \o outcome.results, !.errs = @ \o outcome.errs]
             counted == [told EXCEPT !.successes = Len(told.results)]
             merged == Merge(ReportsOf(counted.results))
  <1>1. /\ told.results = item.results \o outcome.results
        /\ told.errs = item.errs \o outcome.errs
        /\ told.total = item.total /\ told.pending = item.pending /\ told.at = item.at
        /\ DOMAIN told = DOMAIN item
        /\ {"results", "errs", "total", "pending", "at"} \subseteq DOMAIN told
    BY DEF Item
  <1>2. Absorbed(item, outcome) = ApplyMerged(counted)
    BY DEF Absorbed
  <1> HIDE DEF told
  <1>3. /\ counted.results = told.results /\ counted.errs = told.errs
        /\ counted.total = told.total /\ counted.pending = told.pending /\ counted.at = told.at
        /\ DOMAIN counted = DOMAIN told
    BY <1>1
  <1> HIDE DEF counted
  <1>4. ApplyMerged(counted) = [counted EXCEPT !.score = merged.score, !.purity = merged.purity,
                                               !.country = merged.country]
    BY DEF ApplyMerged
  <1> HIDE DEF merged
  <1> QED BY <1>1, <1>2, <1>3, <1>4

\* What a step does that absorbs the first outcome: it is of this job, the job
\* is for this item and this provider, and the provider answers or fails there.
Settles(job, index, name) ==
    /\ job = retryResults[1].job
    /\ index = retryJobs[job].index /\ name = retryJobs[job].provider
    /\ job \in DOMAIN retryJobs /\ index \in DOMAIN items /\ name \in ProviderNames
    /\ items[index] \in Item /\ DOMAIN items' = DOMAIN items
    /\ \A j \in DOMAIN items : j # index => items'[j] = items[j]
    /\ items'[index].at = items[index].at
    /\ items'[index].total = items[index].total
    /\ items'[index].pending = items[index].pending
    /\ \/ /\ items'[index].results = items[index].results
          /\ items'[index].errs = Append(items[index].errs, name)
       \/ \E told \in ResultSet :
            /\ told.provider = name
            /\ items'[index].results = Append(items[index].results, told)
            /\ items'[index].errs = items[index].errs
    /\ Len(retryResults) \in Nat \ {0}
    /\ DOMAIN retryResults = 1..Len(retryResults)
    /\ DOMAIN retryResults' = 1..(Len(retryResults) - 1)
    /\ \A r \in DOMAIN retryResults' : retryResults'[r] = retryResults[r + 1]

LEMMA AbsorbEffect ==
    ASSUME TypeInv, JobPlaces, AbsorbRetry
    PROVE  \E job, index, name : Settles(job, index, name)
  <1> PICK job : job = retryResults[1].job
    OBVIOUS
  <1> PICK index : index = retryJobs[job].index
    OBVIOUS
  <1> PICK name : name = retryJobs[job].provider
    OBVIOUS
  <1> DEFINE Outcomes == [job: 1..Len(retryJobs), results: Seq(ResultSet), errs: Seq(ProviderNames)]
             Jobs == [index: 1..Len(items), provider: ProviderNames]
             outcome == retryResults[1]
             item == Absorbed(items[index], outcome)
  <1>1. retryResults \in Seq(Outcomes) /\ items \in Seq(Item) /\ retryResults # <<>>
    BY DEF TypeInv, PoolTypeOK, RetryTypeOK, AbsorbRetry
  <1>2. /\ Len(retryResults) \in Nat \ {0} /\ DOMAIN retryResults = 1..Len(retryResults)
        /\ Head(retryResults) = outcome /\ outcome \in Outcomes
        /\ retryResults' = Tail(retryResults)
    <2> HIDE DEF Outcomes
    <2> QED BY <1>1, HeadTailProperties, LenProperties, EmptySeq DEF AbsorbRetry
  <1>3. /\ DOMAIN retryResults' = 1..(Len(retryResults) - 1)
        /\ \A r \in DOMAIN retryResults' : retryResults'[r] = retryResults[r + 1]
    <2> HIDE DEF Outcomes
    <2>1. /\ retryResults' \in Seq(Outcomes) /\ Len(retryResults') = Len(retryResults) - 1
          /\ \A r \in 1..Len(retryResults') : retryResults'[r] = retryResults[r + 1]
      BY <1>1, <1>2, HeadTailProperties
    <2>2. DOMAIN retryResults' = 1..Len(retryResults')
      BY <2>1, LenProperties
    <2> QED BY <2>1, <2>2
  <1>4. outcome \in [job: Nat, results: Seq(ResultSet), errs: Seq(ProviderNames)]
        /\ job \in 1..Len(retryJobs) /\ job = outcome.job
    BY <1>2
  <1>5. DOMAIN retryJobs = 1..Len(retryJobs) /\ retryJobs[job] \in Jobs
    BY <1>4, RetryFacts, ElementOfSeq
  <1>6. index \in 1..Len(items) /\ name \in ProviderNames
    BY <1>5
  <1>7. DOMAIN items = 1..Len(items) /\ items[index] \in Item
    BY <1>1, <1>6, ElementOfSeq, LenProperties
  <1>8. items' = [items EXCEPT ![index] = item]
    BY <1>2 DEF AbsorbRetry
  <1>9. OutcomeOf(outcome, name)
    BY <1>2 DEF JobPlaces
  <1> HIDE DEF outcome
  <1>10. /\ item.results = items[index].results \o outcome.results
         /\ item.errs = items[index].errs \o outcome.errs
         /\ item.total = items[index].total /\ item.pending = items[index].pending
         /\ item.at = items[index].at
    BY <1>4, <1>7, AbsorbedFields
  <1> HIDE DEF item
  <1>11. /\ items[index].results \in Seq(ResultSet)
         /\ items[index].errs \in Seq(ProviderNames \cup {DnsFailed})
    BY <1>7 DEF Item
  <1>12. \/ item.results = items[index].results /\ item.errs = Append(items[index].errs, name)
         \/ \E told \in ResultSet : /\ told.provider = name
                                    /\ item.results = Append(items[index].results, told)
                                    /\ item.errs = items[index].errs
    <2>1. CASE outcome.results = <<>> /\ outcome.errs = <<name>>
      <3>1. items[index].results \o <<>> = items[index].results
        BY <1>11, ConcatEmptySeq
      <3>2. items[index].errs \o <<name>> = Append(items[index].errs, name)
        <4> DEFINE Names == ProviderNames \cup {DnsFailed}
        <4>1. name \in Names /\ items[index].errs \in Seq(Names)
          BY <1>6, <1>11
        <4> HIDE DEF Names
        <4> QED BY <4>1, AppendIsConcat
      <3> QED BY <1>10, <2>1, <3>1, <3>2
    <2>2. ASSUME NEW told \in ResultSet, told.provider = name,
                 outcome.results = <<told>>, outcome.errs = <<>>
          PROVE  item.results = Append(items[index].results, told) /\ item.errs = items[index].errs
      <3>1. items[index].errs \o <<>> = items[index].errs
        BY <1>11, ConcatEmptySeq
      <3>2. items[index].results \o <<told>> = Append(items[index].results, told)
        BY <1>11, AppendIsConcat
      <3> QED BY <1>10, <2>2, <3>1, <3>2
    <2> QED BY <1>9, <2>1, <2>2 DEF OutcomeOf
  <1>13. /\ DOMAIN items' = DOMAIN items /\ items'[index] = item
         /\ \A j \in DOMAIN items : j # index => items'[j] = items[j]
    BY <1>6, <1>7, <1>8
  <1>15. job \in DOMAIN retryJobs /\ index \in DOMAIN items
    BY <1>2, <1>4, <1>5, <1>6, <1>7
  <1>16. Settles(job, index, name)
    BY <1>2, <1>3, <1>6, <1>7, <1>10, <1>12, <1>13, <1>15 DEF Settles
  <1> QED BY <1>16

\* The job of the outcome is settled, and no other.
LEMMA AbsorbPlaces ==
    ASSUME TypeInv, JobPlaces, AbsorbRetry,
           NEW job, NEW index, NEW name, Settles(job, index, name)
    PROVE  JobPlaces' /\ job \in OpenJobs /\ OpenJobs' = OpenJobs \ {job}
  <1> DEFINE m == Len(retryResults)
  <1>1. /\ m \in Nat \ {0} /\ DOMAIN retryResults = 1..m /\ 1 \in 1..m
        /\ DOMAIN retryResults' = 1..(m - 1)
        /\ \A r \in 1..(m - 1) : retryResults'[r] = retryResults[r + 1]
        /\ job \in DOMAIN retryJobs
        /\ UNCHANGED <<retryJobs, retryNext, planned, retrier>>
        /\ job = retryResults[1].job
    <2>1. /\ m \in Nat \ {0} /\ DOMAIN retryResults = 1..m
          /\ DOMAIN retryResults' = 1..(m - 1)
          /\ \A r \in DOMAIN retryResults' : retryResults'[r] = retryResults[r + 1]
          /\ job \in DOMAIN retryJobs /\ job = retryResults[1].job
      BY DEF Settles
    <2>2. UNCHANGED <<retryJobs, retryNext, planned, retrier>>
      BY DEF AbsorbRetry
    <2>3. 1 \in 1..m
      BY <2>1
    <2> QED BY <2>1, <2>2, <2>3
  <1> HIDE DEF m
  <1>2. \A r \in 1..(m - 1) : r + 1 \in 1..m /\ r + 1 # 1
    BY <1>1
  <1>3. \A r \in 1..m : r = 1 \/ (r - 1 \in 1..(m - 1) /\ (r - 1) + 1 = r)
    BY <1>1
  <1>4. /\ job < retryNext
        /\ \A r \in 1..m : retryResults[r].job = job => r = 1
        /\ ~AskingFor(job)
    BY <1>1 DEF JobPlaces, AskingFor, AnsweredFor
  <1>5. ASSUME NEW k
        PROVE  (\E r \in DOMAIN retryResults' : retryResults'[r].job = k)
                  <=> AnsweredFor(k) /\ k # job
    <2>1. ASSUME NEW r \in 1..(m - 1), retryResults'[r].job = k
          PROVE  AnsweredFor(k) /\ k # job
      <3>1. r + 1 \in 1..m /\ r + 1 # 1 /\ retryResults[r + 1].job = k
        BY <1>1, <1>2, <2>1
      <3> QED BY <1>1, <1>4, <3>1 DEF AnsweredFor
    <2>2. ASSUME NEW r \in 1..m, retryResults[r].job = k, k # job
          PROVE  \E q \in 1..(m - 1) : retryResults'[q].job = k
      <3>1. r # 1
        BY <1>1, <2>2
      <3>2. r - 1 \in 1..(m - 1) /\ retryResults'[r - 1].job = k
        BY <1>1, <1>3, <2>2, <3>1
      <3> QED BY <3>2
    <2> QED BY <1>1, <2>1, <2>2 DEF AnsweredFor
  <1>6. ASSUME NEW v \in Retriers, retrier[v].pc = "asking"
        PROVE  ~\E r \in DOMAIN retryResults' : retryResults'[r].job = retrier[v].job
    BY <1>5, <1>6 DEF JobPlaces
  <1>7. ASSUME NEW r \in 1..(m - 1)
        PROVE  /\ retryResults'[r].job < retryNext
               /\ OutcomeOf(retryResults'[r], retryJobs[retryResults'[r].job].provider)
               /\ \A q \in 1..(m - 1) : retryResults'[q].job = retryResults'[r].job => q = r
    <2>1. r + 1 \in 1..m /\ retryResults'[r] = retryResults[r + 1]
      BY <1>1, <1>2
    <2>2. /\ retryResults[r + 1].job < retryNext
          /\ OutcomeOf(retryResults[r + 1], retryJobs[retryResults[r + 1].job].provider)
          /\ \A q \in 1..m : retryResults[q].job = retryResults[r + 1].job => q = r + 1
      BY <1>1, <2>1 DEF JobPlaces
    <2>3. ASSUME NEW q \in 1..(m - 1), retryResults'[q].job = retryResults'[r].job
          PROVE  q = r
      <3>1. q + 1 \in 1..m /\ retryResults'[q] = retryResults[q + 1]
        BY <1>1, <1>2
      <3>2. q + 1 = r + 1
        BY <2>1, <2>2, <2>3, <3>1
      <3> QED BY <3>2
    <2> QED BY <2>1, <2>2, <2>3
  <1>8. JobPlaces'
    BY <1>1, <1>6, <1>7 DEF JobPlaces, AnsweredFor, OutcomeOf
  <1>9. job \in OpenJobs
    BY <1>1 DEF OpenJobs, AnsweredFor
  <1>10. ~(job >= retryNext)
    <2>1. retryNext \in Nat /\ job \in Nat
      BY <1>1, RetryFacts
    <2> QED BY <1>4, <2>1
  <1>11. OpenJobs' = OpenJobs \ {job}
    <2>1. OpenJobs' = {k \in DOMAIN retryJobs : k >= retryNext \/ AskingFor(k)
                          \/ \E r \in DOMAIN retryResults' : retryResults'[r].job = k}
      BY <1>1 DEF OpenJobs, AskingFor, AnsweredFor
    <2>2. \A k \in DOMAIN retryJobs : k \in OpenJobs' <=> k \in OpenJobs /\ k # job
      BY <1>4, <1>5, <1>10, <2>1 DEF OpenJobs
    <2> QED BY <2>1, <2>2 DEF OpenJobs
  <1> QED BY <1>8, <1>9, <1>11

\* What is absorbed is settled, and nothing else is.
LEMMA AbsorbUnsettled ==
    ASSUME TypeInv, JobPlaces, AbsorbRetry,
           NEW job, NEW index, NEW name, Settles(job, index, name)
    PROVE  /\ name \in Unsettled(index)
           /\ Unsettled(index)' = Unsettled(index) \ {name}
           /\ \A i : i # index => Unsettled(i)' = Unsettled(i)
  <1>1. /\ job \in OpenJobs /\ OpenJobs' = OpenJobs \ {job} /\ UNCHANGED retryJobs
        /\ OpenJobs \subseteq DOMAIN retryJobs
        /\ index = retryJobs[job].index /\ name = retryJobs[job].provider
    <2>3. index = retryJobs[job].index /\ name = retryJobs[job].provider
      BY DEF Settles
    <2>1. job \in OpenJobs /\ OpenJobs' = OpenJobs \ {job}
      BY AbsorbPlaces
    <2>2. UNCHANGED retryJobs /\ OpenJobs \subseteq DOMAIN retryJobs
      BY DEF AbsorbRetry, OpenJobs
    <2> QED BY <2>1, <2>2, <2>3
  <1>2. name \in Unsettled(index)
    BY <1>1, UnsettledOpen
  <1>3. ASSUME NEW i, NEW x
        PROVE  x \in Unsettled(i)' <=> x \in Unsettled(i) /\ ~(i = index /\ x = name)
    <2>1. x \in Unsettled(i)' <=>
              \E k \in OpenJobs : k # job /\ retryJobs[k].index = i /\ retryJobs[k].provider = x
      BY <1>1, UnsettledOpen
    <2>2. x \in Unsettled(i) <=>
              \E k \in OpenJobs : retryJobs[k].index = i /\ retryJobs[k].provider = x
      BY UnsettledOpen
    <2>3. \A k \in OpenJobs : retryJobs[k].index = index /\ retryJobs[k].provider = name => k = job
      BY <1>1 DEF JobPlaces
    <2> QED BY <1>1, <2>1, <2>2, <2>3
  <1>4. ASSUME NEW i, i # index PROVE Unsettled(i)' = Unsettled(i)
    <2>1. \A x : x \in Unsettled(i)' <=> x \in Unsettled(i)
      BY <1>3, <1>4
    <2> QED BY <2>1
  <1>5. Unsettled(index)' = Unsettled(index) \ {name}
    <2>1. \A x : x \in Unsettled(index)' <=> x \in Unsettled(index) \ {name}
      BY <1>3
    <2> QED BY <2>1
  <1> QED BY <1>2, <1>4, <1>5

\* The outcome of an open job closes it: the name leaves the open ones and is told or failed.
LEMMA AbsorbAccounts ==
    ASSUME TypeInv, JobPlaces, AbsorbRetry, Accounts,
           \A i \in DOMAIN items : i <= planned => items[i].pending = <<>>
    PROVE  Accounts'
  <1>0. PICK job, index, name : Settles(job, index, name)
    BY AbsorbEffect
  <1>1. /\ job \in DOMAIN retryJobs /\ index \in DOMAIN items /\ name \in ProviderNames
        /\ items[index] \in Item /\ DOMAIN items' = DOMAIN items
        /\ \A j \in DOMAIN items : j # index => items'[j] = items[j]
        /\ items'[index].total = items[index].total
        /\ items'[index].pending = items[index].pending
        /\ \/ /\ items'[index].results = items[index].results
              /\ items'[index].errs = Append(items[index].errs, name)
           \/ \E told \in ResultSet :
                /\ told.provider = name
                /\ items'[index].results = Append(items[index].results, told)
                /\ items'[index].errs = items[index].errs
    BY <1>0 DEF Settles
  <1>9. UNCHANGED <<worker, results>>
    BY DEF AbsorbRetry, poolVars
  <1>2. /\ name \in Unsettled(index)
        /\ Unsettled(index)' = Unsettled(index) \ {name}
        /\ \A i : i # index => Unsettled(i)' = Unsettled(i)
    BY <1>0, AbsorbUnsettled
  <1>3. Pending(items[index]) = {} /\ Pending(items'[index]) = {}
    <2>1. items[index].pending = <<>>
      BY <1>0, <1>1 DEF JobPlaces, Settles
    <2>2. items'[index].pending = <<>>
      BY <1>1, <2>1
    <2> QED BY <2>1, <2>2 DEF Pending
  <1>4. Ledger(items[index], Unsettled(index))
    <2>1. Ledger(items[index], Pending(items[index]) \cup Unsettled(index))
      BY <1>1 DEF Accounts
    <2>2. Pending(items[index]) \cup Unsettled(index) = Unsettled(index)
      BY <1>3
    <2> QED BY <2>1, <2>2
  <1>5. Ledger(items'[index], Unsettled(index) \ {name})
    <2>1. CASE /\ items'[index].results = items[index].results
               /\ items'[index].errs = Append(items[index].errs, name)
      BY <1>1, <1>2, <1>4, <2>1, LedgerFailed
    <2>2. ASSUME NEW told \in ResultSet, told.provider = name,
                 items'[index].results = Append(items[index].results, told),
                 items'[index].errs = items[index].errs
          PROVE  Ledger(items'[index], Unsettled(index) \ {name})
      <3>1. Ledger(items'[index], Unsettled(index) \ {told.provider})
        BY <1>1, <1>2, <1>4, <2>2, LedgerTold
      <3> QED BY <2>2, <3>1
    <2> QED BY <1>1, <2>1, <2>2
  <1>6. ASSUME NEW i \in DOMAIN items'
        PROVE  Ledger(items'[i], Pending(items'[i]) \cup Unsettled(i)')
    <2>1. CASE i # index
      BY <1>1, <1>2, <2>1 DEF Accounts
    <2>2. CASE i = index
      <3>1. Pending(items'[index]) \cup Unsettled(index)' = Unsettled(index) \ {name}
        BY <1>2, <1>3
      <3> QED BY <1>5, <2>2, <3>1
    <2> QED BY <2>1, <2>2
  <1>7. ASSUME NEW i \in DOMAIN results' PROVE Ledger(results'[i], Pending(results'[i]))
    BY <1>9 DEF Accounts
  <1>8. ASSUME NEW v \in Workers PROVE WorkerLedger(worker'[v])
    BY <1>9 DEF Accounts
  <1> QED BY <1>6, <1>7, <1>8 DEF Accounts, WorkerLedger, Ledger, Pending, Told, Failed

-----------------------------------------------------------------------------
(* What is never taken back.                                               *)

\* Without --abuse no provider is asked, so nothing is ever to be retried.
PlainWorker(s) ==
    /\ s.pc \notin {"resolving", "asking"}
    /\ s.pc = "sending" => s.item.pending = <<>>

Plain ==
    ~conf.abuse =>
        /\ main # "planning" /\ retryJobs = <<>>
        /\ \A w \in Workers : PlainWorker(worker[w])
        /\ \A i \in DOMAIN results : results[i].pending = <<>>
        /\ \A i \in DOMAIN items : items[i].pending = <<>>

\* What is planned has nothing pending, and all is planned before the retries
\* start; the channels are closed in turn, the first when every job is sent or
\* the context is done; and main goes on with no job open unless it is done.
Settling ==
    /\ \A i \in DOMAIN items : i <= planned => items[i].pending = <<>>
    /\ main \in {"retrying", "finishing", "returned"} /\ conf.abuse => planned = Len(items)
    /\ retryClosed => main \in {"retrying", "finishing", "returned"}
    /\ retryClosed => cancelled \/ retryNext = Len(retryJobs) + 1
    /\ retryResultsClosed => retryClosed
    /\ main \in {"finishing", "returned"} => cancelled \/ OpenJobs = {}

\* The steps that leave the items, the jobs and those who work on them alone.
LEMMA ControlFrame ==
    ASSUME \/ Reject \/ Begin \/ StopSending \/ GatheringDone \/ PlanDone \/ RetriesDrained
           \/ Finish \/ CloseResults \/ ReportProgress \/ CollectorDone \/ StopRetrying
           \/ CloseRetryResults \/ Cancel \/ UNCHANGED vars
    PROVE  UNCHANGED <<conf, worker, results, items, planned, retryJobs, retryNext, retrier,
                       retryResults>>
    BY DEF Reject, Begin, StopSending, GatheringDone, PlanDone, RetriesDrained, Finish,
       CloseResults, ReportProgress, CollectorDone, StopRetrying, CloseRetryResults, Cancel,
       vars, poolVars, retryVars

\* The steps of a worker, and what the others leave alone.
LEMMA WorkerFrame ==
    ASSUME NEW w \in Workers, WorkerStep(w) \/ ItemDeadline(w) \/ Dispatch(w)
    PROVE  UNCHANGED <<conf, cancelled, main, items, retryVars>>
    BY DEF WorkerStep, CheckReturns, Resolve, ResolveFails, LimiterRefuses, ProviderFails,
       ProviderAnswers, MergeItem, Emit, WorkerExits, ItemDeadline, Dispatch, KeepAllButWorker

\* A hand-over of a job or of an outcome leaves the items as they are.
LEMMA RetryFrame ==
    ASSUME NEW v \in Retriers, SendRetry(v) \/ RetrierStep(v)
    PROVE  UNCHANGED <<conf, cancelled, main, poolVars, items, planned, retryJobs, retryClosed,
                       retryResultsClosed>>
    BY DEF SendRetry, RetrierStep, RetryFails, RetryAnswers, RetryOutcome, RetrierExits

\* Every step is one of these.
LEMMA StepCases ==
    ASSUME [Next]_vars
    PROVE  \/ \/ Reject \/ Begin \/ StopSending \/ GatheringDone \/ PlanDone \/ RetriesDrained
              \/ Finish \/ CloseResults \/ ReportProgress \/ CollectorDone \/ StopRetrying
              \/ CloseRetryResults \/ Cancel \/ UNCHANGED vars
           \/ \E w \in Workers : Dispatch(w)
           \/ \E w \in Workers : Emit(w)
           \/ \E w \in Workers : (WorkerStep(w) \/ ItemDeadline(w)) /\ ~Emit(w)
           \/ Collect
           \/ PlanItem
           \/ AbsorbRetry
           \/ \E v \in Retriers : SendRetry(v) \/ RetrierStep(v)
    BY DEF Next, MainStep, CollectorStep, SenderStep, WorkerStep

\* Jobs stay in their places, whoever takes a step.
LEMMA JobPlacesStep ==
    ASSUME TypeInv, JobPlaces, [Next]_vars
    PROVE  JobPlaces'
  <1>1. ASSUME UNCHANGED <<planned, retryJobs, retryNext, retrier, retryResults>>
        PROVE  JobPlaces'
    BY <1>1, PlacesKept
  <1>2. ASSUME NEW w \in Workers, WorkerStep(w) \/ ItemDeadline(w) \/ Dispatch(w)
        PROVE  JobPlaces'
    BY <1>1, <1>2, WorkerFrame DEF retryVars
  <1>3. CASE Collect
    BY <1>1, <1>3 DEF Collect, retryVars
  <1>4. ASSUME NEW v \in Retriers, SendRetry(v) \/ RetrierStep(v) PROVE JobPlaces'
    BY <1>4, SendRetryPlaces, RetrierPlaces
  <1>5. CASE AbsorbRetry
    <2>1. PICK job, index, name : Settles(job, index, name)
      BY <1>5, AbsorbEffect
    <2> QED BY <1>5, <2>1, AbsorbPlaces
  <1>6. CASE PlanItem
    BY <1>6, PlanJobs
  <1> QED BY <1>1, <1>2, <1>3, <1>4, <1>5, <1>6, ControlFrame, StepCases
          DEF WorkerStep

\* The ledgers stay right, whoever takes a step.
LEMMA AccountsStep ==
    ASSUME TypeInv, Accounts, JobPlaces, Settling, [Next]_vars
    PROVE  Accounts'
  <1>1. ASSUME UNCHANGED <<worker, results, items, retryJobs>>, OpenJobs' = OpenJobs
        PROVE  Accounts'
    <2>1. \A i \in DOMAIN items' : Ledger(items'[i], Pending(items'[i]) \cup Unsettled(i)')
      BY <1>1, OpenKept DEF Accounts
    <2>2. \A i \in DOMAIN results' : Ledger(results'[i], Pending(results'[i]))
      BY <1>1 DEF Accounts
    <2>3. \A w \in Workers : WorkerLedger(worker'[w])
      BY <1>1 DEF Accounts
    <2> QED BY <2>1, <2>2, <2>3 DEF Accounts, WorkerLedger, Ledger, Pending, Told, Failed
  <1>2. ASSUME NEW w \in Workers, Dispatch(w) PROVE Accounts'
    <2>1. /\ UNCHANGED <<results, items, retryVars>> /\ DOMAIN worker = Workers
          /\ worker' = [worker EXCEPT ![w] = [IdleWorker EXCEPT !.pc = "checking", !.at = next]]
      BY <1>2, OneWorker DEF Dispatch
    <2>2. worker'[w].pc = "checking" /\ \A v \in Workers : v # w => worker'[v] = worker[v]
      BY <2>1 DEF IdleWorker
    <2>3. WorkerLedger(worker'[w])
      BY <2>2, IdleLedger
    <2> QED BY <2>1, <2>2, <2>3, AccountsOneWorker
  <1>3. ASSUME NEW w \in Workers, WorkerStep(w) \/ ItemDeadline(w), ~Emit(w) PROVE Accounts'
    <2>1. WorkerLedger(worker[w])
      BY DEF Accounts
    <2>2. WorkerLedger(worker'[w]) /\ UNCHANGED <<results, items, retryVars>>
      BY <1>3, <2>1, WorkerKeepsLedger
    <2>3. \A v \in Workers : v # w => worker'[v] = worker[v]
      BY <1>3, WorkerStepLocal
    <2> QED BY <2>2, <2>3, AccountsOneWorker
  <1>4. ASSUME NEW v \in Retriers, SendRetry(v) \/ RetrierStep(v) PROVE Accounts'
    <2>1. OpenJobs' = OpenJobs
      BY <1>4, SendRetryPlaces, RetrierPlaces
    <2>2. UNCHANGED <<worker, results, items, retryJobs>>
      BY <1>4, RetryFrame DEF poolVars
    <2> QED BY <1>1, <2>1, <2>2
  <1>5. CASE AbsorbRetry
    BY <1>5, AbsorbAccounts DEF Settling
  <1>6. ASSUME UNCHANGED <<worker, results, items, planned, retryJobs, retryNext, retrier,
                           retryResults>>
        PROVE  Accounts'
    BY <1>1, <1>6, PlacesKept
  <1> QED BY <1>2, <1>3, <1>4, <1>5, <1>6, EmitAccounts, CollectAccounts, PlanAccounts,
             ControlFrame, StepCases

\* Without --abuse the items have nothing pending, wherever they are.
LEMMA PlainStep ==
    ASSUME TypeInv, JobPlaces, Plain, [Next]_vars
    PROVE  Plain'
  <1>1. CASE conf.abuse /\ conf' = conf
    BY <1>1 DEF Plain
  <1> USE DEF PlainWorker
  <1>2. ASSUME ~conf.abuse, conf' = conf, main' # "planning", UNCHANGED <<results, items, retryJobs>>,
               \A w \in Workers : PlainWorker(worker'[w])
        PROVE  Plain'
    BY <1>2 DEF Plain
  <1>3. ASSUME ~conf.abuse
        PROVE  /\ main # "planning" /\ retryJobs = <<>>
               /\ \A w \in Workers : PlainWorker(worker[w])
               /\ \A i \in DOMAIN results : results[i].pending = <<>>
               /\ \A i \in DOMAIN items : items[i].pending = <<>>
    BY <1>3 DEF Plain
  <1>4. ASSUME NEW w \in Workers, WorkerStep(w) \/ ItemDeadline(w) \/ Dispatch(w), ~Emit(w),
               ~conf.abuse
        PROVE  Plain'
    <2>1. worker[w] \in WorkerState /\ DOMAIN worker = Workers
      BY OneWorker
    <2>2. PlainWorker(worker[w])
      BY <1>3, <1>4
    <2>3. PlainWorker(worker'[w])
      <3>1. CASE CheckReturns(w)
        <4>1. PICK reachable \in BOOLEAN :
                 worker'[w] = [worker[w] EXCEPT
                   !.item = IF ~conf.abuse /\ reachable
                              THEN [NewItem(worker[w].at, reachable) EXCEPT !.purity = "clean"]
                              ELSE NewItem(worker[w].at, reachable),
                   !.pc = IF conf.abuse THEN "resolving" ELSE "sending"]
          BY <2>1, <3>1 DEF CheckReturns, WorkerState
        <4>2. NewItem(worker[w].at, reachable).pending = <<>>
          BY DEF NewItem
        <4>3. [NewItem(worker[w].at, reachable) EXCEPT !.purity = "clean"].pending = <<>>
          BY DEF NewItem
        <4> DEFINE plain == NewItem(worker[w].at, reachable)
                   clean == [plain EXCEPT !.purity = "clean"]
        <4> HIDE DEF plain, clean
        <4>4. worker'[w].pc = "sending" /\ worker'[w].item \in {plain, clean}
          BY <1>4, <2>1, <4>1 DEF WorkerState, plain, clean
        <4> QED BY <4>2, <4>3, <4>4 DEF plain, clean
      <3>2. CASE WorkerExits(w)
        BY <2>1, <3>2 DEF WorkerExits, WorkerState
      <3>3. CASE ItemDeadline(w)
        BY <2>1, <2>2, <3>3 DEF ItemDeadline, WorkerState
      <3>4. CASE Dispatch(w)
        BY <2>1, <3>4 DEF Dispatch, IdleWorker
      <3> QED BY <1>4, <2>2, <3>1, <3>2, <3>3, <3>4 DEF WorkerStep, Resolve, ResolveFails,
                 LimiterRefuses, ProviderFails, ProviderAnswers, MergeItem, Asking
    <2>4. \A v \in Workers : v # w => worker'[v] = worker[v]
      BY <1>4, <2>1, WorkerStepLocal DEF Dispatch
    <2>5. UNCHANGED <<conf, main, items, retryJobs>> /\ results' = results
      <3>1. UNCHANGED <<conf, main, items, retryJobs>>
        BY <1>4, WorkerFrame DEF retryVars
      <3>2. results' = results
        BY <1>4, WorkerKeepsLedger DEF Dispatch, WorkerStep, CheckReturns, Resolve, ResolveFails,
           LimiterRefuses, ProviderFails, ProviderAnswers, MergeItem, WorkerExits, ItemDeadline,
           KeepAllButWorker
      <3> QED BY <3>1, <3>2
    <2> QED BY <1>2, <1>3, <1>4, <2>3, <2>4, <2>5
  <1>5. ASSUME NEW w \in Workers, Emit(w), ~conf.abuse PROVE Plain'
    <2> DEFINE item == worker[w].item
    <2>1. /\ worker[w].pc = "sending" /\ results' = Append(results, item)
          /\ worker' = [worker EXCEPT ![w] = IdleWorker] /\ DOMAIN worker = Workers
          /\ UNCHANGED <<conf, main, items, retryJobs>>
      BY <1>5, OneWorker DEF Emit, retryVars
    <2>2. item.pending = <<>>
      BY <1>3, <1>5, <2>1
    <2>3. item \in Item /\ results \in Seq(Item)
      BY <2>1, OneWorker DEF StateOK, TypeInv, PoolTypeOK
    <2> HIDE DEF item
    <2>4. /\ DOMAIN results' = 1..(Len(results) + 1) /\ DOMAIN results = 1..Len(results)
          /\ \A i \in 1..Len(results) : results'[i] = results[i]
          /\ results'[Len(results) + 1] = item /\ Len(results) \in Nat
      BY <2>1, <2>3, AppendProperties, LenProperties
    <2>5. \A i \in DOMAIN results' : i \in DOMAIN results \/ i = Len(results) + 1
      BY <2>4
    <2>6. \A i \in DOMAIN results' : results'[i].pending = <<>>
      BY <1>3, <1>5, <2>2, <2>4, <2>5
    <2>7. \A v \in Workers : PlainWorker(worker'[v])
      <3>1. worker'[w].pc = "idle"
        BY <2>1 DEF IdleWorker
      <3> QED BY <1>3, <1>5, <2>1, <3>1
    <2> QED BY <1>3, <1>5, <2>1, <2>6, <2>7 DEF Plain
  <1>6. CASE Collect /\ ~conf.abuse
    <2>1. /\ results \in Seq(Item) /\ items \in Seq(Item) /\ results # <<>>
          /\ items' = Append(items, Head(results)) /\ results' = Tail(results)
          /\ UNCHANGED <<conf, main, worker, retryJobs>>
      BY <1>6 DEF TypeInv, PoolTypeOK, Collect, retryVars
    <2>2. /\ Len(results) \in Nat \ {0} /\ DOMAIN results = 1..Len(results)
          /\ DOMAIN results' = 1..(Len(results) - 1)
          /\ \A i \in 1..(Len(results) - 1) : results'[i] = results[i + 1]
          /\ Head(results) = results[1] /\ Head(results) \in Item
      BY <2>1, HeadTailProperties, LenProperties, EmptySeq
    <2>3. /\ Len(items) \in Nat /\ DOMAIN items = 1..Len(items)
          /\ DOMAIN items' = 1..(Len(items) + 1)
          /\ \A i \in 1..Len(items) : items'[i] = items[i]
          /\ items'[Len(items) + 1] = results[1]
      BY <2>1, <2>2, AppendProperties, LenProperties
    <2>4. \A i \in 1..Len(results) : results[i].pending = <<>>
      BY <1>3, <1>6, <2>2
    <2>5. \A i \in DOMAIN results' : results'[i].pending = <<>>
      BY <2>2, <2>4
    <2>6. \A i \in DOMAIN items' : i \in DOMAIN items \/ i = Len(items) + 1
      BY <2>3
    <2>7. \A i \in DOMAIN items' : items'[i].pending = <<>>
      BY <1>3, <1>6, <2>2, <2>3, <2>4, <2>6
    <2> QED BY <1>3, <1>6, <2>1, <2>5, <2>7 DEF Plain
  <1>7. CASE PlanItem /\ ~conf.abuse
    BY <1>3, <1>7 DEF PlanItem
  <1>8. CASE AbsorbRetry /\ ~conf.abuse
    <2>1. PICK job, index, name : Settles(job, index, name)
      BY <1>8, AbsorbEffect
    <2>2. DOMAIN retryJobs = {}
      BY <1>3, <1>8
    <2> QED BY <2>1, <2>2 DEF Settles
  <1>9. ASSUME NEW v \in Retriers, SendRetry(v) \/ RetrierStep(v), ~conf.abuse PROVE Plain'
    BY <1>3, <1>9, RetryFrame DEF Plain, poolVars
  <1>10. CASE /\ ~conf.abuse
              /\ \/ Reject \/ Begin \/ StopSending \/ GatheringDone \/ PlanDone \/ RetriesDrained
                 \/ Finish \/ CloseResults \/ ReportProgress \/ CollectorDone \/ StopRetrying
                 \/ CloseRetryResults \/ Cancel \/ UNCHANGED vars
    <2>1. UNCHANGED <<conf, worker, results, items, retryJobs>>
      BY <1>10, ControlFrame
    <2>2. main' # "planning"
      BY <1>3, <1>10 DEF Reject, Begin, StopSending, GatheringDone, PlanDone, RetriesDrained,
         Finish, CloseResults, ReportProgress, CollectorDone, StopRetrying, CloseRetryResults,
         Cancel, vars
    <2> QED BY <1>2, <1>3, <1>10, <2>1, <2>2
  <1>11. conf' = conf
    <2>1. CASE Collect \/ PlanItem \/ AbsorbRetry
      BY <2>1 DEF Collect, PlanItem, AbsorbRetry
    <2>2. ASSUME NEW w \in Workers, Dispatch(w) \/ WorkerStep(w) \/ ItemDeadline(w)
          PROVE  conf' = conf
      BY <2>2, WorkerFrame
    <2>3. ASSUME NEW v \in Retriers, SendRetry(v) \/ RetrierStep(v) PROVE conf' = conf
      BY <2>3, RetryFrame
    <2> QED BY <2>1, <2>2, <2>3, ControlFrame, StepCases DEF WorkerStep
  <1>12. CASE ~conf.abuse
    BY <1>4, <1>5, <1>6, <1>7, <1>8, <1>9, <1>10, <1>12, StepCases DEF Emit, Dispatch
  <1> QED BY <1>1, <1>11, <1>12

\* What is settled stays settled, whoever takes a step.
LEMMA SettlingStep ==
    ASSUME TypeInv, NoSendOnClosedChannel, HandOver, JobPlaces, Plain, Settling, [Next]_vars
    PROVE  Settling'
  <1> DEFINE Retried == {"retrying", "finishing", "returned"}
  <1>1. ASSUME UNCHANGED <<conf, main, items, planned, retryJobs, retryNext, retryClosed,
                           retryResultsClosed>>,
               OpenJobs' = OpenJobs, cancelled => cancelled'
        PROVE  Settling'
    BY <1>1 DEF Settling
  <1>2. ASSUME NEW w \in Workers, WorkerStep(w) \/ ItemDeadline(w) \/ Dispatch(w)
        PROVE  Settling'
    <2>1. UNCHANGED <<conf, cancelled, main, items, retryVars>>
      BY <1>2, WorkerFrame
    <2>2. OpenJobs' = OpenJobs
      BY <2>1, PlacesKept DEF retryVars
    <2> QED BY <1>1, <2>1, <2>2 DEF retryVars
  <1>3. CASE Collect
    <2>1. main \notin Retried
      BY <1>3 DEF Collect, HandOver, Late
    <2>2. /\ results \in Seq(Item) /\ items \in Seq(Item) /\ results # <<>>
          /\ items' = Append(items, Head(results)) /\ planned \in 0..Len(items)
          /\ UNCHANGED <<conf, main, cancelled, retryVars>>
      BY <1>3 DEF TypeInv, PoolTypeOK, RetryTypeOK, Collect
    <2>3. Head(results) \in Item
      BY <2>2, HeadTailProperties
    <2>4. /\ Len(items) \in Nat /\ DOMAIN items = 1..Len(items)
          /\ DOMAIN items' = 1..(Len(items) + 1)
          /\ \A i \in 1..Len(items) : items'[i] = items[i]
      BY <2>2, <2>3, AppendProperties, LenProperties
    <2>5. \A i \in DOMAIN items' : i <= planned => i \in DOMAIN items
      BY <2>2, <2>4
    <2>6. \A i \in DOMAIN items' : i <= planned' => items'[i].pending = <<>>
      BY <2>2, <2>4, <2>5 DEF Settling, retryVars
    <2> QED BY <2>1, <2>2, <2>6 DEF Settling, retryVars
  <1>4. CASE PlanItem
    <2> PICK p : p = planned + 1
      OBVIOUS
    <2>1. /\ main = "planning" /\ main' = main /\ planned' = p
          /\ UNCHANGED <<retryClosed, retryResultsClosed>>
      BY <1>4 DEF PlanItem
    <2>2. /\ items[p] \in Item /\ DOMAIN items' = DOMAIN items /\ planned \in Nat
          /\ items'[p] = [items[p] EXCEPT !.pending = <<>>]
          /\ \A j \in DOMAIN items : j # p => items'[j] = items[j]
          /\ DOMAIN items = 1..Len(items)
      BY <1>4, PlanItemEffect
    <2>3. items'[p].pending = <<>>
      BY <2>2 DEF Item
    <2>4. \A i \in DOMAIN items : i <= p => i <= planned \/ i = p
      BY <2>2
    <2>5. \A i \in DOMAIN items' : i <= planned' => items'[i].pending = <<>>
      BY <2>1, <2>2, <2>3, <2>4 DEF Settling
    <2> QED BY <2>1, <2>5 DEF Settling
  <1>5. CASE AbsorbRetry
    <2>1. /\ main = "retrying"
          /\ UNCHANGED <<conf, cancelled, main, planned, retryJobs, retryNext, retryClosed,
                         retryResultsClosed>>
      BY <1>5 DEF AbsorbRetry
    <2>2. /\ Len(items') = Len(items) /\ DOMAIN items' = DOMAIN items
          /\ \A i \in DOMAIN items : items'[i].pending = items[i].pending
      BY <1>5, AbsorbRetryItems
    <2> QED BY <2>1, <2>2 DEF Settling
  <1>6. ASSUME NEW v \in Retriers, SendRetry(v) PROVE Settling'
    <2>1. /\ main = "retrying" /\ ~retryClosed
          /\ UNCHANGED <<conf, cancelled, main, items, planned, retryJobs, retryClosed,
                         retryResultsClosed>>
      BY <1>6 DEF SendRetry
    <2> QED BY <2>1 DEF Settling
  <1>7. ASSUME NEW v \in Retriers, RetrierStep(v) PROVE Settling'
    <2>1. OpenJobs' = OpenJobs
      BY <1>7, RetrierPlaces
    <2>2. UNCHANGED <<conf, cancelled, main, items, planned, retryJobs, retryNext, retryClosed,
                      retryResultsClosed>>
      BY <1>7 DEF RetrierStep, RetryFails, RetryAnswers, RetryOutcome, RetrierExits
    <2> QED BY <1>1, <2>1, <2>2
  <1>8. ASSUME UNCHANGED <<conf, worker, results, items, planned, retryJobs, retryNext, retrier,
                           retryResults>>
        PROVE  OpenJobs' = OpenJobs
    BY <1>8, PlacesKept
  <1>9. CASE Reject \/ Begin \/ StopSending \/ CloseResults \/ ReportProgress \/ CollectorDone
             \/ Cancel \/ UNCHANGED vars
    <2>1. OpenJobs' = OpenJobs
      BY <1>8, <1>9, ControlFrame
    <2>2. /\ UNCHANGED <<conf, items, planned, retryJobs, retryNext, retryClosed,
                         retryResultsClosed>>
          /\ cancelled => cancelled'
      BY <1>9 DEF Reject, Begin, StopSending, CloseResults, ReportProgress, CollectorDone, Cancel,
         vars, poolVars, retryVars
    <2>3. main' = main \/ (main \notin Retried /\ main' \notin Retried)
      BY <1>9 DEF Reject, Begin, StopSending, CloseResults, ReportProgress, CollectorDone, Cancel,
         vars
    <2> QED BY <2>1, <2>2, <2>3 DEF Settling
  <1>10. CASE GatheringDone
    <2>1. OpenJobs' = OpenJobs
      BY <1>8, <1>10, ControlFrame
    <2>2. /\ main = "waiting" /\ main' = IF conf.abuse THEN "planning" ELSE "finishing"
          /\ UNCHANGED <<conf, cancelled, items, retryVars>>
      BY <1>10 DEF GatheringDone
    <2>3. ~conf.abuse => OpenJobs = {}
      BY DEF Plain, OpenJobs
    <2>4. ~retryClosed /\ ~retryResultsClosed
      BY <2>2 DEF Settling
    <2> QED BY <2>1, <2>2, <2>3, <2>4 DEF Settling, retryVars
  <1>11. CASE PlanDone
    <2>1. OpenJobs' = OpenJobs
      BY <1>8, <1>11, ControlFrame
    <2>2. /\ main = "planning" /\ planned = Len(items)
          /\ main' = IF retryJobs = <<>> THEN "finishing" ELSE "retrying"
          /\ UNCHANGED <<conf, cancelled, items, retryVars>>
      BY <1>11 DEF PlanDone
    <2>3. retryJobs = <<>> => OpenJobs = {}
      BY DEF OpenJobs
    <2>4. ~retryClosed /\ ~retryResultsClosed
      BY <2>2 DEF Settling
    <2> QED BY <2>1, <2>2, <2>3, <2>4 DEF Settling, retryVars
  <1>12. CASE RetriesDrained
    <2>1. OpenJobs' = OpenJobs
      BY <1>8, <1>12, ControlFrame
    <2>2. /\ main = "retrying" /\ main' = "finishing" /\ retryResults = <<>> /\ retryResultsClosed
          /\ UNCHANGED <<conf, cancelled, items, retryVars>>
      BY <1>12 DEF RetriesDrained
    <2>3. cancelled \/ OpenJobs = {}
      <3>1. cancelled \/ retryNext = Len(retryJobs) + 1
        BY <2>2 DEF Settling
      <3>2. \A k : ~AskingFor(k)
        BY <2>2 DEF NoSendOnClosedChannel, AskingFor
      <3>3. \A k : ~AnsweredFor(k)
        BY <2>2 DEF AnsweredFor
      <3>4. retryNext = Len(retryJobs) + 1 => \A k \in DOMAIN retryJobs : ~(k >= retryNext)
        BY RetryFacts
      <3> QED BY <3>1, <3>2, <3>3, <3>4 DEF OpenJobs
    <2> QED BY <2>1, <2>2, <2>3 DEF Settling, retryVars
  <1>13. CASE Finish
    <2>1. OpenJobs' = OpenJobs
      BY <1>8, <1>13, ControlFrame
    <2>2. main = "finishing" /\ main' = "returned" /\ UNCHANGED <<conf, cancelled, items, retryVars>>
      BY <1>13 DEF Finish
    <2> QED BY <2>1, <2>2 DEF Settling, retryVars
  <1>14. CASE StopRetrying
    <2>1. OpenJobs' = OpenJobs
      BY <1>8, <1>14, ControlFrame
    <2>2. /\ main = "retrying" /\ retryClosed' = TRUE
          /\ retryNext \notin DOMAIN retryJobs \/ cancelled
          /\ UNCHANGED <<conf, cancelled, main, items, planned, retryJobs, retryNext,
                         retryResultsClosed>>
      BY <1>14 DEF StopRetrying
    <2>3. cancelled \/ retryNext = Len(retryJobs) + 1
      BY <2>2, RetryFacts
    <2> QED BY <2>1, <2>2, <2>3 DEF Settling
  <1>15. CASE CloseRetryResults
    <2>1. OpenJobs' = OpenJobs
      BY <1>8, <1>15, ControlFrame
    <2>2. /\ retryClosed
          /\ UNCHANGED <<conf, cancelled, main, items, planned, retryJobs, retryNext, retryClosed>>
      BY <1>15 DEF CloseRetryResults
    <2> QED BY <2>1, <2>2 DEF Settling
  <1> QED BY <1>2, <1>3, <1>4, <1>5, <1>6, <1>7, <1>9, <1>10, <1>11, <1>12, <1>13, <1>14, <1>15,
             StepCases DEF WorkerStep

-----------------------------------------------------------------------------
(* The theorems.                                                           *)

\* Everything the book-keeping rests on.
Books ==
    /\ TypeInv /\ NoSendOnClosedChannel /\ EachEndpointOnce /\ HandOver
    /\ JobPlaces /\ Accounts /\ Plain /\ Settling

\* The books are right at the start: there is nothing in them.
LEMMA BooksInit == Init => Books
  <1> SUFFICES ASSUME Init PROVE Books
    OBVIOUS
  <1>1. TypeInv /\ EachEndpointOnce /\ HandOver
    BY TypeInit, EndpointsInit, HandOverInit
  <1>2. NoSendOnClosedChannel
    BY DEF Init, NoSendOnClosedChannel
  <1>3. /\ \A w \in Workers : worker[w].pc = "idle"
        /\ \A v \in Retriers : retrier[v].pc = "idle"
        /\ results = <<>> /\ items = <<>> /\ retryJobs = <<>> /\ retryResults = <<>>
        /\ main = "start" /\ ~retryClosed /\ ~retryResultsClosed
    BY DEF Init, IdleWorker, IdleRetrier
  <1>4. JobPlaces
    BY <1>3 DEF JobPlaces
  <1>5. Accounts
    BY <1>3, IdleLedger DEF Accounts
  <1>6. Plain /\ Settling
    BY <1>3 DEF Plain, PlainWorker, Settling
  <1> QED BY <1>1, <1>2, <1>4, <1>5, <1>6 DEF Books

\* Every step keeps the books.
LEMMA BooksStep == Books /\ [Next]_vars => Books'
  <1> SUFFICES ASSUME Books, [Next]_vars PROVE Books'
    OBVIOUS
  <1> USE DEF Books
  <1>1. TypeInv'
    BY TypeStep
  <1>2. NoSendOnClosedChannel'
    BY ChannelsStep
  <1>3. EachEndpointOnce'
    BY EndpointsStep
  <1>4. HandOver'
    BY HandOverStep
  <1>5. JobPlaces'
    BY JobPlacesStep
  <1>6. Accounts'
    BY AccountsStep
  <1>7. Plain'
    BY PlainStep
  <1>8. Settling'
    BY SettlingStep
  <1> QED BY <1>1, <1>2, <1>3, <1>4, <1>5, <1>6, <1>7, <1>8

LEMMA BooksKept == Spec => []Books
  BY BooksInit, BooksStep, PTL DEF Spec

\* Uncancelled, Run ends with nothing pending and no retry open.
LEMMA NothingOwed ==
    ASSUME Books, main \in {"finishing", "returned"}, ~cancelled, NEW i \in DOMAIN items
    PROVE  Pending(items[i]) = {} /\ Unsettled(i) = {}
  <1>1. OpenJobs = {}
    BY DEF Books, Settling
  <1>2. items[i].pending = <<>>
    <2>1. CASE conf.abuse
      <3>1. planned = Len(items)
        BY <2>1 DEF Books, Settling
      <3>2. DOMAIN items = 1..Len(items) /\ Len(items) \in Nat
        BY LenProperties DEF Books, TypeInv, PoolTypeOK
      <3>3. i <= planned
        BY <3>1, <3>2
      <3> QED BY <3>3 DEF Books, Settling
    <2>2. CASE ~conf.abuse
      BY <2>2 DEF Books, Plain
    <2> QED BY <2>1, <2>2
  <1> QED BY <1>1, <1>2, UnsettledOpen DEF Pending

\* A provider answers for an endpoint at most once, whatever the schedule, the
\* timeouts and the retries: never a result and an error, never two of either,
\* and none that is still to be retried has answered.
THEOREM AnswersOnce == Spec => []ProviderAnswersOnce
  <1>1. Books => ProviderAnswersOnce
    <2> SUFFICES ASSUME Books, NEW i \in DOMAIN items
                 PROVE  Ledger(items[i], Pending(items[i]) \cup Unsettled(i))
      BY DEF ProviderAnswersOnce, Ledger, Distinct
    <2> QED BY DEF Books, Accounts
  <1> QED BY <1>1, BooksKept, PTL

\* When Run returns uncancelled, every provider that was to be asked about an
\* item is in its results or in its errors: no answer got lost on the way.
THEOREM AllAccounted == Spec => []ProvidersAccounted
  <1>1. Books => ProvidersAccounted
    <2> SUFFICES ASSUME Books, main = "returned", ~cancelled, NEW i \in DOMAIN items,
                        items[i].total > 0
                 PROVE  Told(items[i]) \cup Failed(items[i]) = ProviderNames
      BY DEF ProvidersAccounted
    <2>1. Ledger(items[i], Pending(items[i]) \cup Unsettled(i))
      BY DEF Books, Accounts
    <2>2. Unsettled(i) = {} /\ Pending(items[i]) = {}
      BY NothingOwed
    <2> QED BY <2>1, <2>2 DEF Ledger
  <1> QED BY <1>1, BooksKept, PTL

-----------------------------------------------------------------------------
(* Answers are never withdrawn.                                            *)

\* A sequence extends itself, and what an element is appended to.
LEMMA ExtendsItself ==
    ASSUME NEW S, NEW s \in Seq(S)
    PROVE  IsExtension(s, s)
  <1>1. Len(s) \in Nat /\ s = SubSeq(s, 1, Len(s))
    BY SubSeqFull, LenProperties
  <1> QED BY <1>1 DEF IsExtension

LEMMA AppendExtends ==
    ASSUME NEW S, NEW s \in Seq(S), NEW e \in S
    PROVE  IsExtension(s, Append(s, e))
  <1> DEFINE t == Append(s, e)
             n == Len(s)
  <1>1. /\ n \in Nat /\ t \in Seq(S) /\ Len(t) = n + 1 /\ \A k \in 1..n : t[k] = s[k]
    BY AppendProperties, LenProperties
  <1> HIDE DEF t, n
  <1>2. 1 \in 1..(Len(t) + 1) /\ n \in 0..Len(t)
    BY <1>1
  <1>3. /\ SubSeq(t, 1, n) \in Seq(S) /\ Len(SubSeq(t, 1, n)) = n
        /\ \A k \in 1..n : SubSeq(t, 1, n)[k] = s[k]
    <2>1. \A k \in 1..n : 1 + k - 1 = k
      BY <1>1
    <2> QED BY <1>1, <1>2, <2>1, SubSeqProperties
  <1>4. s = SubSeq(t, 1, n)
    BY <1>3, SeqEqual DEF n
  <1> QED BY <1>1, <1>4 DEF IsExtension, t, n

\* What a step may do to the items: AnswersOnlyGrow, without the box.
ItemsGrow ==
    \A i \in DOMAIN items :
        /\ i \in DOMAIN items'
        /\ items'[i].at = items[i].at
        /\ IsExtension(items[i].results, items'[i].results)
        /\ IsExtension(items[i].errs, items'[i].errs)

\* Only the collector, the planning and the absorption of an outcome write the
\* items.
LEMMA ItemsGrowStep ==
    ASSUME TypeInv, JobPlaces, [Next]_vars
    PROVE  ItemsGrow
  <1>1. /\ items \in Seq(Item) /\ Len(items) \in Nat /\ DOMAIN items = 1..Len(items)
    BY LenProperties DEF TypeInv, PoolTypeOK
  <1>2. ASSUME NEW i \in DOMAIN items
        PROVE  /\ items[i].results \in Seq(ResultSet)
               /\ items[i].errs \in Seq(ProviderNames \cup {DnsFailed})
               /\ IsExtension(items[i].results, items[i].results)
               /\ IsExtension(items[i].errs, items[i].errs)
    <2>1. items[i] \in Item
      BY <1>1, ElementOfSeq
    <2>2. items[i].results \in Seq(ResultSet) /\ items[i].errs \in Seq(ProviderNames \cup {DnsFailed})
      BY <2>1 DEF Item
    <2>3. IsExtension(items[i].results, items[i].results)
      BY <2>2, ExtendsItself
    <2>4. IsExtension(items[i].errs, items[i].errs)
      BY <2>2, ExtendsItself
    <2> QED BY <2>2, <2>3, <2>4
  <1>3. ASSUME items' = items PROVE ItemsGrow
    BY <1>2, <1>3 DEF ItemsGrow
  <1>4. CASE Collect
    <2>1. Head(results) \in Item
      BY <1>4, HeadTailProperties DEF Collect, TypeInv, PoolTypeOK
    <2>2. \A i \in DOMAIN items : i \in DOMAIN items' /\ items'[i] = items[i]
      <3>1. items' = Append(items, Head(results))
        BY <1>4 DEF Collect
      <3>2. /\ DOMAIN items' = 1..(Len(items) + 1)
            /\ \A i \in 1..Len(items) : items'[i] = items[i]
        BY <1>1, <2>1, <3>1, AppendProperties, LenProperties
      <3> QED BY <1>1, <3>2
    <2> QED BY <1>2, <2>2 DEF ItemsGrow
  <1>5. CASE PlanItem
    <2> PICK p : p = planned + 1
      OBVIOUS
    <2>1. /\ items[p] \in Item /\ DOMAIN items' = DOMAIN items
          /\ items'[p] = [items[p] EXCEPT !.pending = <<>>]
          /\ \A j \in DOMAIN items : j # p => items'[j] = items[j]
      BY <1>5, PlanItemEffect
    <2>2. /\ items'[p].at = items[p].at /\ items'[p].results = items[p].results
          /\ items'[p].errs = items[p].errs
      BY <2>1 DEF Item
    <2> QED BY <1>2, <2>1, <2>2 DEF ItemsGrow
  <1>6. CASE AbsorbRetry
    <2>1. PICK job, index, name : Settles(job, index, name)
      BY <1>6, AbsorbEffect
    <2>2. /\ index \in DOMAIN items /\ name \in ProviderNames
          /\ DOMAIN items' = DOMAIN items
          /\ \A j \in DOMAIN items : j # index => items'[j] = items[j]
          /\ items'[index].at = items[index].at
          /\ \/ /\ items'[index].results = items[index].results
                /\ items'[index].errs = Append(items[index].errs, name)
             \/ \E told \in ResultSet :
                  /\ items'[index].results = Append(items[index].results, told)
                  /\ items'[index].errs = items[index].errs
      BY <2>1 DEF Settles
    <2> DEFINE Names == ProviderNames \cup {DnsFailed}
    <2>3. items[index].errs \in Seq(Names) /\ name \in Names
      BY <1>2, <2>2
    <2> HIDE DEF Names
    <2>4. IsExtension(items[index].errs, Append(items[index].errs, name))
      BY <2>3, AppendExtends
    <2>5. \A told \in ResultSet : IsExtension(items[index].results, Append(items[index].results, told))
      BY <1>2, <2>2, AppendExtends
    <2>6. /\ IsExtension(items[index].results, items'[index].results)
          /\ IsExtension(items[index].errs, items'[index].errs)
      BY <1>2, <2>2, <2>4, <2>5
    <2> QED BY <1>2, <2>2, <2>6 DEF ItemsGrow
  <1>7. ASSUME NEW w \in Workers, WorkerStep(w) \/ ItemDeadline(w) \/ Dispatch(w)
        PROVE  items' = items
    BY <1>7, WorkerFrame
  <1>8. ASSUME NEW v \in Retriers, SendRetry(v) \/ RetrierStep(v) PROVE items' = items
    BY <1>8, RetryFrame
  <1> QED BY <1>3, <1>4, <1>5, <1>6, <1>7, <1>8, ControlFrame, StepCases DEF WorkerStep

\* Late answers and retries only add: no step drops an item, gives it to another
\* endpoint, or takes back an answer or an error it has.
THEOREM AnswersGrow == Spec => AnswersOnlyGrow
  <1>1. Books /\ [Next]_vars => [ItemsGrow]_vars
    BY ItemsGrowStep DEF Books
  <1> QED BY <1>1, BooksKept, PTL DEF Spec, AnswersOnlyGrow, ItemsGrow

-----------------------------------------------------------------------------
(* The promise: BatchEngine implements BatchPromise, but for its liveness. *)

\* Before the pool is started nothing is sent.
NotStarted == main \in {"start", "rejected"} => next = 1

LEMMA NotStartedStep ==
    ASSUME NotStarted, [Next]_vars
    PROVE  NotStarted'
  <1>1. CASE Reject \/ Begin \/ StopSending \/ GatheringDone \/ PlanDone \/ RetriesDrained \/ Finish
             \/ PlanItem \/ AbsorbRetry \/ CloseResults \/ ReportProgress \/ CollectorDone \/ Collect
             \/ StopRetrying \/ CloseRetryResults \/ Cancel \/ UNCHANGED vars
    BY <1>1 DEF NotStarted, Reject, Begin, StopSending, GatheringDone, PlanDone, RetriesDrained,
       Finish, PlanItem, AbsorbRetry, CloseResults, ReportProgress, CollectorDone, Collect,
       StopRetrying, CloseRetryResults, Cancel, vars, poolVars
  <1>2. ASSUME NEW w \in Workers, Dispatch(w) PROVE NotStarted'
    BY <1>2 DEF NotStarted, Dispatch
  <1>3. ASSUME NEW w \in Workers, WorkerStep(w) \/ ItemDeadline(w) PROVE NotStarted'
    <2>1. UNCHANGED <<main, next>>
      BY <1>3 DEF WorkerStep, CheckReturns, Resolve, ResolveFails, LimiterRefuses, ProviderFails,
         ProviderAnswers, MergeItem, Emit, WorkerExits, ItemDeadline, KeepAllButWorker
    <2> QED BY <2>1 DEF NotStarted
  <1>4. ASSUME NEW v \in Retriers, SendRetry(v) \/ RetrierStep(v) PROVE NotStarted'
    BY <1>4, RetryFrame DEF NotStarted, poolVars
  <1> QED BY <1>1, <1>2, <1>3, <1>4, StepCases DEF WorkerStep

\* The phase the promise sees.
Phase == CASE main = "start"                    -> "open"
           [] main \in {"returned", "rejected"} -> main
           [] OTHER                             -> "running"

\* What is owed, element by element.
LEMMA OwedElements ==
    /\ \A debt : debt \in Owed <=>
          \E i \in DOMAIN items : \E name \in Pending(items[i]) \cup Unsettled(i) :
              debt = <<items[i].at, name>>
    /\ \A debt : debt \in Owed' <=>
          \E i \in DOMAIN items' : \E name \in Pending(items'[i]) \cup Unsettled(i)' :
              debt = <<items'[i].at, name>>
  BY DEF Owed, Pending

\* Nothing is owed or answered anew when every item keeps its open providers.
LEMMA PromiseStutters ==
    ASSUME UNCHANGED <<cancelled, Phase>>, DOMAIN items' = DOMAIN items,
           \A i \in DOMAIN items :
              /\ items'[i].at = items[i].at
              /\ Pending(items'[i]) \cup Unsettled(i)' = Pending(items[i]) \cup Unsettled(i)
    PROVE  UNCHANGED (Promise!vars)
  <1>1. Gathered' = Gathered
    BY DEF Gathered
  <1>2. \A debt : debt \in Owed' <=> debt \in Owed
    BY OwedElements
  <1>3. Owed' = Owed
    BY <1>2 DEF Owed
  <1> QED BY <1>1, <1>3 DEF Promise!vars, Phase

\* While main is past the gathering, all is answered or the context is cancelled.
LEMMA AllGathered ==
    ASSUME Books, main \in Late
    PROVE  Gathered = Positions \/ cancelled
  <1>1. collector = "done" /\ resultsClosed /\ results = <<>>
    BY DEF Books, HandOver
  <1>2. InPool = {} /\ InTransit = {}
    BY <1>1 DEF Books, NoSendOnClosedChannel, Busy, InPool, Held, InTransit
  <1>3. Gathered = 1..(next - 1)
    BY <1>2 DEF Books, EachEndpointOnce, NothingLost
  <1>4. cancelled \/ next = Len(Endpoints) + 1
    BY DEF Books, HandOver
  <1> QED BY <1>3, <1>4, ConstantTypes

\* The collector answers for one endpoint; what its item has pending is owed.
LEMMA CollectAnswers ==
    ASSUME Books, NotStarted, Collect
    PROVE  \E e \in Positions : Promise!Answer(e)
  <1>1. /\ results \in Seq(Item) /\ items \in Seq(Item) /\ results # <<>>
        /\ items' = Append(items, Head(results)) /\ collector = "receiving"
        /\ UNCHANGED <<main, cancelled, retryVars>>
    BY DEF Books, TypeInv, PoolTypeOK, Collect
  <1>2. /\ 1 \in DOMAIN results /\ Head(results) = results[1] /\ results[1] \in Item
    BY <1>1, HeadTailProperties, LenProperties, EmptySeq
  <1>3. /\ Len(items) \in Nat /\ DOMAIN items = 1..Len(items)
        /\ DOMAIN items' = 1..(Len(items) + 1)
        /\ \A i \in 1..Len(items) : items'[i] = items[i]
        /\ items'[Len(items) + 1] = results[1]
    BY <1>1, <1>2, AppendProperties, LenProperties
  <1> PICK e : e = results[1].at
    OBVIOUS
  <1> PICK n : n = Len(items) + 1
    OBVIOUS
  <1>4. e \in Positions /\ e \in InTransit /\ e \notin Gathered
    <2>1. e \in InTransit
      BY <1>2 DEF InTransit
    <2>2. InTransit \cap Gathered = {}
      BY DEF Books, EachEndpointOnce, NothingDoubled
    <2> QED BY <1>2, <2>1, <2>2 DEF Item
  <1>5. main \notin {"start", "rejected", "returned"}
    <2>1. main # "returned"
      BY <1>1 DEF Books, HandOver, Late
    <2>2. ASSUME next = 1 PROVE FALSE
      <3>1. InTransit \subseteq 1..(next - 1)
        BY DEF Books, EachEndpointOnce, NothingLost
      <3> QED BY <1>4, <2>2, <3>1
    <2> QED BY <2>1, <2>2 DEF NotStarted
  <1>6. \A i : Unsettled(i)' = Unsettled(i)
    BY <1>1, UnsettledKept DEF retryVars
  <1>7. Unsettled(n) = {}
    <2>1. ASSUME NEW k \in DOMAIN retryJobs PROVE retryJobs[k].index # n
      <3>1. retryJobs[k] \in [index: 1..Len(items), provider: ProviderNames]
        BY RetryFacts, ElementOfSeq DEF Books
      <3>2. retryJobs[k].index \in 1..Len(items)
        BY <3>1
      <3> QED BY <1>3, <3>2
    <2> QED BY <2>1, UnsettledNone
  <1>8. Gathered' = Gathered \cup {e}
    <2>1. \A i \in 1..(Len(items) + 1) : i \in 1..Len(items) \/ i = Len(items) + 1
      BY <1>3
    <2> QED BY <1>3, <2>1 DEF Gathered
  <1> DEFINE late == {e} \X Pending(results[1])
  <1>9. Pending(results[1]) \subseteq ProviderNames
    <2>1. results[1].pending \in Seq(ProviderNames)
      BY <1>2 DEF Item
    <2>2. \A k \in DOMAIN results[1].pending : results[1].pending[k] \in ProviderNames
      BY <2>1, ElementOfSeq, LenProperties
    <2> QED BY <2>2 DEF Pending
  <1>10. late \in SUBSET ({e} \X ProviderNames)
    BY <1>9
  <1>11. Owed' = Owed \cup late
    <2>1. ASSUME NEW debt
          PROVE  debt \in Owed' <=> debt \in Owed \/ debt \in late
      <3>1. debt \in Owed' <=>
              \/ \E i \in DOMAIN items : \E name \in Pending(items[i]) \cup Unsettled(i) :
                     debt = <<items[i].at, name>>
              \/ \E name \in Pending(results[1]) : debt = <<e, name>>
        <4>1. \A i \in DOMAIN items' : i \in DOMAIN items \/ i = n
          BY <1>3
        <4>2. DOMAIN items \subseteq DOMAIN items' /\ n \in DOMAIN items'
          BY <1>3
        <4>3. items'[n] = results[1] /\ Unsettled(n)' = {}
          BY <1>3, <1>6, <1>7
        <4>4. \A i \in DOMAIN items : items'[i] = items[i] /\ Unsettled(i)' = Unsettled(i)
          BY <1>3, <1>6
        <4> QED BY <4>1, <4>2, <4>3, <4>4, OwedElements
      <3>2. debt \in late <=> \E name \in Pending(results[1]) : debt = <<e, name>>
        OBVIOUS
      <3> QED BY <3>1, <3>2, OwedElements
    <2> QED BY <2>1
  <1> HIDE DEF late
  <1>12. Promise!Answer(e)
    BY <1>1, <1>4, <1>5, <1>8, <1>10, <1>11 DEF Promise!Answer
  <1> QED BY <1>4, <1>12

\* The outcome of a retry settles one debt.
LEMMA AbsorbSettles ==
    ASSUME Books, AbsorbRetry
    PROVE  \E debt \in Owed : Promise!Settle(debt)
  <1>0. PICK job, index, name : Settles(job, index, name)
    BY AbsorbEffect DEF Books
  <1>1. /\ index \in DOMAIN items /\ index = retryJobs[job].index /\ job \in DOMAIN retryJobs
        /\ DOMAIN items' = DOMAIN items
        /\ \A j \in DOMAIN items : j # index => items'[j] = items[j]
        /\ items'[index].at = items[index].at
        /\ items'[index].pending = items[index].pending
    BY <1>0 DEF Settles
  <1>2. /\ name \in Unsettled(index)
        /\ Unsettled(index)' = Unsettled(index) \ {name}
        /\ \A i : i # index => Unsettled(i)' = Unsettled(i)
    BY <1>0, AbsorbUnsettled DEF Books
  <1>3. main = "retrying" /\ UNCHANGED <<main, cancelled>>
    BY DEF AbsorbRetry
  <1>4. Pending(items[index]) = {} /\ Pending(items'[index]) = {}
    <2>1. items[index].pending = <<>>
      BY <1>1 DEF Books, Settling, JobPlaces
    <2>2. items'[index].pending = <<>>
      BY <1>1, <2>1
    <2> QED BY <2>1, <2>2 DEF Pending
  <1>5. \A j \in DOMAIN items : items[j].at = items[index].at => j = index
    BY <1>1 DEF Books, EachEndpointOnce, NothingDoubled
  <1> PICK debt : debt = <<items[index].at, name>>
    OBVIOUS
  <1>6. debt \in Owed
    BY <1>1, <1>2, OwedElements
  <1>7. Owed' = Owed \ {debt}
    <2>1. ASSUME NEW d PROVE d \in Owed' <=> d \in Owed /\ d # debt
      <3> DEFINE In(i, set) == \E x \in set : d = <<items[i].at, x>>
                 open(i) == Pending(items[i]) \cup Unsettled(i)
      <3>1. d \in Owed' <=> \E i \in DOMAIN items : In(i, Pending(items'[i]) \cup Unsettled(i)')
        <4>1. \A i \in DOMAIN items : items'[i].at = items[i].at
          BY <1>1
        <4> QED BY <1>1, <4>1, OwedElements
      <3>2. d \in Owed <=> \E i \in DOMAIN items : In(i, Pending(items[i]) \cup Unsettled(i))
        BY OwedElements
      <3>3. ASSUME NEW i \in DOMAIN items
            PROVE  In(i, Pending(items'[i]) \cup Unsettled(i)')
                     <=> In(i, Pending(items[i]) \cup Unsettled(i)) /\ d # debt
        <4>1. CASE i = index
          <5>1. /\ Pending(items'[i]) \cup Unsettled(i)' = Unsettled(index) \ {name}
                /\ Pending(items[i]) \cup Unsettled(i) = Unsettled(index)
            BY <1>2, <1>4, <4>1
          <5> QED BY <4>1, <5>1
        <4>2. CASE i # index
          <5>1. Pending(items'[i]) \cup Unsettled(i)' = Pending(items[i]) \cup Unsettled(i)
            BY <1>1, <1>2, <4>2
          <5>2. items[i].at # items[index].at
            BY <1>5, <4>2
          <5> QED BY <5>1, <5>2
        <4> QED BY <4>1, <4>2
      <3> HIDE DEF In
      <3> QED BY <3>1, <3>2, <3>3
    <2> QED BY <2>1
  <1>8. Gathered' = Gathered
    BY <1>1 DEF Gathered
  <1>9. Gathered = Positions \/ cancelled
    BY <1>3, AllGathered DEF Late
  <1>10. Promise!Settle(debt)
    BY <1>3, <1>7, <1>8, <1>9 DEF Promise!Settle
  <1> QED BY <1>6, <1>10

\* Run returns as promised.
LEMMA FinishReturns ==
    ASSUME Books, Finish
    PROVE  Promise!Return
  <1>1. /\ main = "finishing" /\ main' = "returned"
        /\ UNCHANGED <<cancelled, items, retryVars>>
    BY DEF Finish
  <1>2. cancelled \/ Gathered = Positions
    BY <1>1, AllGathered DEF Late
  <1>3. cancelled \/ Owed = {}
    BY <1>1, NothingOwed DEF Owed
  <1>4. Gathered' = Gathered /\ Owed' = Owed
    <2>1. \A i : Unsettled(i)' = Unsettled(i)
      BY <1>1, UnsettledKept DEF retryVars
    <2>2. \A debt : debt \in Owed' <=> debt \in Owed
      BY <1>1, <2>1, OwedElements
    <2>3. Owed' = Owed
      BY <2>2 DEF Owed
    <2> QED BY <1>1, <2>3 DEF Gathered
  <1> QED BY <1>1, <1>2, <1>3, <1>4 DEF Promise!Return

\* Every step is a step of the promise, or none it can see.
LEMMA PromiseStep ==
    ASSUME Books, NotStarted, [Next]_vars
    PROVE  [Promise!Progress \/ Promise!Stop]_(Promise!vars)
  <1>1. ASSUME UNCHANGED <<cancelled, items>>, Phase' = Phase, \A i : Unsettled(i)' = Unsettled(i)
        PROVE  UNCHANGED (Promise!vars)
    BY <1>1, PromiseStutters DEF Pending
  <1>2. ASSUME NEW w \in Workers, WorkerStep(w) \/ ItemDeadline(w) \/ Dispatch(w)
        PROVE  UNCHANGED (Promise!vars)
    <2>1. UNCHANGED <<cancelled, items, main, retryVars>>
      BY <1>2, WorkerFrame
    <2>2. Phase' = Phase
      BY <2>1 DEF Phase
    <2>3. \A i : Unsettled(i)' = Unsettled(i)
      BY <2>1, UnsettledKept DEF retryVars
    <2> QED BY <1>1, <2>1, <2>2, <2>3
  <1>3. ASSUME NEW v \in Retriers, SendRetry(v) \/ RetrierStep(v)
        PROVE  UNCHANGED (Promise!vars)
    <2>1. UNCHANGED <<cancelled, main, items, retryJobs>>
      BY <1>3, RetryFrame
    <2>2. OpenJobs' = OpenJobs
      BY <1>3, SendRetryPlaces, RetrierPlaces DEF Books
    <2>3. Phase' = Phase
      BY <2>1 DEF Phase
    <2>4. \A i : Unsettled(i)' = Unsettled(i)
      BY <2>1, <2>2, OpenKept
    <2> QED BY <1>1, <2>1, <2>3, <2>4
  <1>4. CASE PlanItem
    <2> PICK p : p = planned + 1
      OBVIOUS
    <2>1. /\ items[p] \in Item /\ DOMAIN items' = DOMAIN items
          /\ items'[p] = [items[p] EXCEPT !.pending = <<>>]
          /\ \A j \in DOMAIN items : j # p => items'[j] = items[j]
          /\ UNCHANGED <<cancelled, main>>
      BY <1>4, PlanItemEffect DEF Books
    <2>2. /\ \A j : j # p => Unsettled(j)' = Unsettled(j)
          /\ Unsettled(p)' = Unsettled(p) \cup Pending(items[p])
          /\ Pending(items'[p]) = {}
      BY <1>4, PlanUnsettled DEF Books
    <2>3. items'[p].at = items[p].at
      BY <2>1 DEF Item
    <2>4. Phase' = Phase
      BY <2>1 DEF Phase
    <2>5. ASSUME NEW i \in DOMAIN items
          PROVE  /\ items'[i].at = items[i].at
                 /\ Pending(items'[i]) \cup Unsettled(i)' = Pending(items[i]) \cup Unsettled(i)
      <3>1. CASE i = p
        BY <2>2, <2>3, <3>1
      <3>2. CASE i # p
        BY <2>1, <2>2, <3>2
      <3> QED BY <3>1, <3>2
    <2> QED BY <2>1, <2>4, <2>5, PromiseStutters
  <1>5. CASE Collect
    BY <1>5, CollectAnswers DEF Promise!Progress
  <1>6. CASE AbsorbRetry
    BY <1>6, AbsorbSettles DEF Promise!Progress
  <1>7. CASE Finish
    BY <1>7, FinishReturns DEF Promise!Progress
  <1>8. ASSUME \/ Reject \/ Begin \/ StopSending \/ GatheringDone \/ PlanDone \/ RetriesDrained
               \/ CloseResults \/ ReportProgress \/ CollectorDone \/ StopRetrying
               \/ CloseRetryResults \/ Cancel \/ UNCHANGED vars
        PROVE  Gathered' = Gathered /\ Owed' = Owed
    <2>1. UNCHANGED <<items, retryJobs, retryNext, retrier, retryResults>>
      BY <1>8, ControlFrame
    <2>2. \A i : Unsettled(i)' = Unsettled(i)
      BY <2>1, UnsettledKept
    <2>3. \A debt : debt \in Owed' <=> debt \in Owed
      BY <2>1, <2>2, OwedElements
    <2>4. Owed' = Owed
      BY <2>3 DEF Owed
    <2> QED BY <2>1, <2>4 DEF Gathered
  <1>9. CASE Reject \/ Begin
    <2>1. Promise!Accept
      BY <1>8, <1>9 DEF Promise!Accept, Reject, Begin
    <2> QED BY <2>1 DEF Promise!Progress
  <1>10. CASE Cancel
    <2>1. main \notin {"returned", "rejected"} /\ ~cancelled /\ cancelled' = TRUE /\ main' = main
      BY <1>10 DEF Cancel
    <2>2. Promise!Stop
      BY <1>8, <1>10, <2>1 DEF Promise!Stop
    <2> QED BY <2>2
  <1>11. CASE StopSending \/ GatheringDone \/ PlanDone \/ RetriesDrained \/ CloseResults
              \/ ReportProgress \/ CollectorDone \/ StopRetrying \/ CloseRetryResults
              \/ UNCHANGED vars
    <2>1. cancelled' = cancelled
      BY <1>11 DEF StopSending, GatheringDone, PlanDone, RetriesDrained, CloseResults,
         ReportProgress, CollectorDone, StopRetrying, CloseRetryResults, vars
    <2>2. Phase' = Phase
      <3>1. CASE StopSending \/ GatheringDone \/ PlanDone \/ RetriesDrained
        BY <3>1 DEF Phase, StopSending, GatheringDone, PlanDone, RetriesDrained
      <3>2. CASE CloseResults \/ ReportProgress \/ CollectorDone \/ StopRetrying
                 \/ CloseRetryResults \/ UNCHANGED vars
        BY <3>2 DEF Phase, CloseResults, ReportProgress, CollectorDone, StopRetrying,
           CloseRetryResults, vars
      <3> QED BY <1>11, <3>1, <3>2
    <2> QED BY <1>8, <1>11, <2>1, <2>2 DEF Promise!vars, Phase
  <1> QED BY <1>2, <1>3, <1>4, <1>5, <1>6, <1>7, <1>9, <1>10, <1>11, StepCases DEF WorkerStep

\* BatchEngine implements BatchPromise, step by step: it starts where a promise
\* starts, and every step of its goroutines accepts, answers for one endpoint,
\* settles one debt, stops, returns with nothing owed, or is not seen.  This is
\* KeepsPromise but for the promise's fairness, which stays with the runs.
THEOREM PromiseKept ==
    Spec => Promise!Init /\ [][Promise!Progress \/ Promise!Stop]_(Promise!vars)
  <1>1. Init => Promise!Init /\ NotStarted
    BY DEF Init, Promise!Init, NotStarted, Gathered, Owed
  <1>2. NotStarted /\ [Next]_vars => NotStarted'
    BY NotStartedStep
  <1>3. Books /\ NotStarted /\ [Next]_vars
          => [Promise!Progress \/ Promise!Stop]_(Promise!vars)
    BY PromiseStep
  <1> QED BY <1>1, <1>2, <1>3, BooksKept, PTL DEF Spec

=============================================================================
