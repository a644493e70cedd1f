------------------------------ MODULE BatchItems ------------------------------
(***************************************************************************)
(* The items a batch produces and what is computed from a list of them:    *)
(* internal/engine/types.go, the pure part of batch.go, aggregator.go and  *)
(* the clean-item test of export.go.                                       *)
(*                                                                         *)
(* An item names its endpoint by the position it had in the input, so that *)
(* two equal endpoints of the input stay apart.  Endpoints gives each      *)
(* position what sorting and resolving read: host stands for the normal    *)
(* form "host:port" by its rank in alphabetical order, named says that the *)
(* host is a name to resolve and not an IP address, and latency is the     *)
(* time its connection attempt takes.                                      *)
(***************************************************************************)
EXTENDS PurityVerdict, Lists, FiniteSetsExt

CONSTANTS Endpoints,    \* the input, a sequence of endpoints
          Providers     \* e.Providers, a sequence of provider names

Endpoint == [host: Nat, port: Nat, named: BOOLEAN, latency: Nat]

ASSUME EndpointsAssumption == Endpoints \in Seq(Endpoint)

Positions     == DOMAIN Endpoints
ProviderNames == {Providers[i] : i \in DOMAIN Providers}

\* mergeProviderNames drops repeated names, so provider names are distinct, as
\* long as a configuration does not give one provider under both its names,
\* "google-dns" and "dns.google".
ASSUME ProvidersAssumption ==
    /\ Providers \in Seq(ProviderNames)
    /\ \A i, j \in DOMAIN Providers : Providers[i] = Providers[j] => i = j

\* The one entry of ProviderErrs that no provider is named in.
DnsFailed == "dns resolution failed"

\* No provider has that for a name (their Name methods, pkg/abuse/providers).
ASSUME DnsFailedAssumption == DnsFailed \notin ProviderNames

SortModes   == {"", "abuse", "latency", "host", "port"}
FilterModes == {"", "all", "reachable", "unreachable", "abusive", "suspicious",
                "clean", "errors"}

ReportsOf(results) == [i \in DOMAIN results |-> results[i].report]

\* applyMergedProviderResults.
ApplyMerged(item) ==
    LET merged == Merge(ReportsOf(item.results))
    IN  [item EXCEPT !.score = merged.score, !.purity = merged.purity,
                     !.country = merged.country]

Suspicious(item) == item.purity \in {"suspicious", "vpn_likely", "vpn_detected"}
Erroneous(item)  == item.errs # <<>> \/ ~item.reachable
CleanScored(item) == item.purity = "clean" /\ item.score < 50

MatchesFilter(item, filter) ==
    CASE filter = "reachable"   -> item.reachable
      [] filter = "unreachable" -> ~item.reachable
      [] filter = "abusive"     -> item.score >= 50
      [] filter = "suspicious"  -> Suspicious(item)
      [] filter = "clean"       -> CleanScored(item)
      [] filter = "errors"      -> Erroneous(item)
      [] OTHER                  -> TRUE

FilterItems(items, filter) ==
    Keep(items, {i \in DOMAIN items : MatchesFilter(items[i], filter)})

\* The comparisons of SortItems.
SortsBefore(sortBy, a, b) ==
    LET x == Endpoints[a.at]
        y == Endpoints[b.at]
    IN  CASE sortBy \in {"", "abuse"} ->
                a.score > b.score \/ (a.score = b.score /\ a.latency < b.latency)
          [] sortBy = "latency" ->
                a.latency < b.latency \/ (a.latency = b.latency /\ x.host < y.host)
          [] sortBy = "host" -> x.host < y.host
          [] sortBy = "port" -> x.port < y.port \/ (x.port = y.port /\ x.host < y.host)

\* Mutant of SortItems: among equal items the later one goes first.
SortItemsUnstable(items, sortBy) ==
    LET Before(a, b) == SortsBefore(sortBy, a, b)
        Backwards    == [i \in DOMAIN items |-> items[Len(items) + 1 - i]]
    IN  StableSort(Backwards, Before)

SortItems(items, sortBy) ==
    LET Before(a, b) == SortsBefore(sortBy, a, b)
    IN  StableSort(items, Before)

Summarize(items) ==
    LET Places(P(_)) == {i \in DOMAIN items : P(items[i])}
        reached      == {i \in DOMAIN items : items[i].reachable}
        latency      == [i \in reached |-> items[i].latency]
    IN  [total       |-> Len(items),
         reachable   |-> Cardinality(reached),
         unreachable |-> Len(items) - Cardinality(reached),
         abusive     |-> Cardinality({i \in DOMAIN items : items[i].score >= 50}),
         suspicious  |-> Cardinality(Places(Suspicious)),
         clean       |-> Cardinality(Places(CleanScored)),
         errors      |-> Cardinality(Places(Erroneous)),
         avgLatency  |-> IF reached = {} THEN 0
                         ELSE Total(latency) \div Cardinality(reached)]

\* IsCleanItem: what --export-clean and the TUI's clean export write.
IsCleanItem(item) ==
    /\ item.reachable
    /\ CleanScored(item)
    /\ item.total = 0 \/ item.successes > 0
=============================================================================
