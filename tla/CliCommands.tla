----------------------------- MODULE CliCommands -----------------------------
(***************************************************************************)
(* One invocation of purelink check, report, batch or import, from its     *)
(* flags to its exit code: cmd/purelink/main.go.  Each command is a        *)
(* sequence of stages that may fail, and what has been written or shown by *)
(* then stays: the endpoints are read and checked, the clean ones are      *)
(* exported, the results are shown in the terminal UI or as text, and with *)
(* --fail-on-abuse they are judged.                                        *)
(*                                                                         *)
(* How a batch comes to its items is the subject of BatchEngine; here an   *)
(* endpoint ends as one of a set of outcomes.  The three flags that make a *)
(* command ask providers (--abuse, --purity, --region) are one, asks, and  *)
(* the optional speed test, whose failure is ignored, is left out.         *)
(***************************************************************************)
EXTENDS BatchItems

CONSTANTS Invocations,  \* the command lines, each with what it meets in the DNS
          Reports,      \* the reports a provider may return
          MaxReports,   \* bound: providers that answer check and report
          Unjudged,     \* the items of endpoints no provider was asked about
          Judged        \* the items of endpoints that providers were asked about

Commands == {"check", "report", "batch", "import"}

\* An item without its results, of which the command line reads nothing more.
Outcome == [at: Nat, reachable: BOOLEAN, latency: Nat, score: Int,
            purity: Verdicts, total: Nat, successes: Nat, errs: Seq(STRING)]

Countries == {NoCountry} \cup {r.country : r \in Reports}

ASSUME OutcomesAssumption   == /\ Unjudged \cup Judged \subseteq Outcome
                               /\ \A outcome \in Unjudged : outcome.total = 0
ASSUME ReportsAssumption    == Reports \subseteq Report(Countries)
ASSUME MaxReportsAssumption == MaxReports \in Nat
ASSUME InvocationsAssumption ==
    Invocations \subseteq [command: Commands, failOnAbuse: BOOLEAN, asks: BOOLEAN,
                           interactive: BOOLEAN, resolves: BOOLEAN,
                           export: {"none", "endpoints", "links", "unsupported"},
                           filter: FilterModes]

VARIABLES
    conf,           \* the command line
    linked,         \* positions of the endpoints imported with a share link
    phase,
    asked,          \* providers were asked, in a batch about what resolves
    items,          \* the items of a batch, one per endpoint
    evidence,       \* what the providers said of a single address
    file,           \* the file of --export-clean: written to, and what it holds
    shown,          \* how results were presented, in order
    code            \* the exit code

vars == <<conf, linked, phase, asked, items, evidence, file, shown, code>>

\* metadataForImported and applyBatchMetadata: an imported endpoint carries the
\* share link it was read from, if it was read from one.
MayBeLinked == IF conf.command = "import" THEN SUBSET Positions ELSE {{}}

Init ==
    /\ conf \in Invocations
    /\ linked \in MayBeLinked
    /\ phase = "start"
    /\ asked = FALSE
    /\ items = <<>>
    /\ evidence = <<>>
    /\ file = [touched |-> FALSE, holds |-> {}]
    /\ shown = <<>>
    /\ code = -1

-----------------------------------------------------------------------------
\* exitCode: 2 for the user's mistakes, 4 for the threshold, 1 for the rest.
\* No command returns an error that would end in 3.
ExitWith(c) == phase' = "exited" /\ code' = c

\* ReadConfig, Load or Validate: whatever is wrong is ErrInvalidConfig.
LoadFails ==
    /\ phase = "start"
    /\ ExitWith(2)
    /\ UNCHANGED <<conf, linked, asked, items, evidence, file, shown>>

\* The arguments or the input are no good, or the engine refuses the run.
InputFails ==
    /\ phase = "start"
    /\ \E c \in {1, 2} : ExitWith(c)
    /\ UNCHANGED <<conf, linked, asked, items, evidence, file, shown>>

\* Which command sets out to ask: report always does, and for check and batch
\* --fail-on-abuse implies --abuse.
AsksProviders ==
    \/ conf.command = "report"
    \/ conf.asks
    \/ conf.command \in {"check", "batch"} /\ conf.failOnAbuse

\* The command is about one address, and it is a name that does not resolve.
Unresolved == conf.command \in {"check", "report"} /\ ~conf.resolves

\* checkEndpoint and runProviders, which keeps the answers and drops failures;
\* about a name that does not resolve it asks nobody, and that is no error.
CheckAddress ==
    /\ phase = "start"
    /\ conf.command \in {"check", "report"}
    /\ asked' = (AsksProviders /\ ~Unresolved)
    /\ evidence' \in IF asked' THEN UNION {[1..n -> Reports] : n \in 0..MaxReports} ELSE {<<>>}
    /\ phase' = "rendering"
    /\ UNCHANGED <<conf, linked, items, file, shown, code>>

\* BatchEngine.Run: for batch, and for import when it is interactive.
RunBatch ==
    /\ phase = "start"
    /\ conf.command = "batch" \/ (conf.command = "import" /\ conf.interactive)
    /\ asked' = AsksProviders
    /\ \E outcome \in [Positions -> IF AsksProviders THEN Judged ELSE Unjudged] :
         items' = [p \in Positions |-> [outcome[p] EXCEPT !.at = p]]
    /\ phase' = "exporting"
    /\ UNCHANGED <<conf, linked, evidence, file, shown, code>>

\* A plain import lists what it found and checks nothing.
ListImported ==
    /\ phase = "start"
    /\ conf.command = "import"
    /\ ~conf.interactive
    /\ phase' = "rendering"
    /\ UNCHANGED <<conf, linked, asked, items, evidence, file, shown, code>>

-----------------------------------------------------------------------------
\* result.Items, of which the filter has left some.
Visible == FilterItems(items, conf.filter)

AfterExport == IF conf.interactive THEN "showing" ELSE "rendering"

NoExport ==
    /\ phase = "exporting"
    /\ conf.export = "none"
    /\ phase' = AfterExport
    /\ UNCHANGED <<conf, linked, asked, items, evidence, file, shown, code>>

CreateFails ==
    /\ phase = "exporting"
    /\ conf.export # "none"
    /\ ExitWith(1)
    /\ UNCHANGED <<conf, linked, asked, items, evidence, file, shown>>

\* Mutant of ToExport: everything reachable is exported.
ReachableToExport ==
    LET chosen == {Visible[k].at : k \in {k \in DOMAIN Visible : Visible[k].reachable}}
    IN  IF conf.export = "links" THEN chosen \cap linked ELSE chosen

\* CleanItems, and of those the ones with a share link if links are wanted.
ToExport ==
    LET clean == {Visible[k].at : k \in {k \in DOMAIN Visible : IsCleanItem(Visible[k])}}
    IN  IF conf.export = "links" THEN clean \cap linked ELSE clean

\* WriteExport can do what it is asked to: the format exists, and there is a
\* link to write.  The file has been created, and emptied, by then.
Exportable == \/ conf.export = "endpoints"
              \/ conf.export = "links" /\ ToExport # {}

ExportClean ==
    /\ phase = "exporting"
    /\ Exportable
    /\ file' = [touched |-> TRUE, holds |-> ToExport]
    /\ phase' = AfterExport
    /\ UNCHANGED <<conf, linked, asked, items, evidence, shown, code>>

ExportFails ==
    /\ phase = "exporting"
    /\ conf.export # "none"
    /\ \E part \in IF Exportable THEN SUBSET ToExport ELSE {{}} :
         file' = [touched |-> TRUE, holds |-> part]
    /\ ExitWith(1)
    /\ UNCHANGED <<conf, linked, asked, items, evidence, shown>>

-----------------------------------------------------------------------------
\* The user quits the terminal UI.
TuiQuits ==
    /\ phase = "showing"
    /\ shown' = Append(shown, "tui")
    /\ phase' = "judging"
    /\ UNCHANGED <<conf, linked, asked, items, evidence, file, code>>

\* ErrNoTTY: the results are printed instead.
TuiUnavailable ==
    /\ phase = "showing"
    /\ phase' = "rendering"
    /\ UNCHANGED <<conf, linked, asked, items, evidence, file, shown, code>>

\* Any other error, which leaves nothing on the screen: batch gives up, an import
\* prints its results all the same.
TuiFails ==
    /\ phase = "showing"
    /\ \/ conf.command = "batch" /\ ExitWith(1)
       \/ conf.command = "import" /\ phase' = "rendering" /\ UNCHANGED code
    /\ UNCHANGED <<conf, linked, asked, items, evidence, file, shown>>

\* Mutant of Render: nothing is printed after the threshold was exceeded.
RenderUnlessRisky ==
    /\ phase = "rendering"
    /\ shown' = IF conf.failOnAbuse /\ \E i \in DOMAIN items : Suspicious(items[i])
                  THEN shown ELSE Append(shown, "text")
    /\ IF conf.command = "import" THEN ExitWith(0)
       ELSE phase' = "judging" /\ UNCHANGED code
    /\ UNCHANGED <<conf, linked, asked, items, evidence, file>>

\* RenderCheck, RenderReport, RenderBatch or RenderImport; an import is over.
Render ==
    /\ phase = "rendering"
    /\ shown' = Append(shown, "text")
    /\ IF conf.command = "import" THEN ExitWith(0)
       ELSE phase' = "judging" /\ UNCHANGED code
    /\ UNCHANGED <<conf, linked, asked, items, evidence, file>>

RenderFails ==
    /\ phase = "rendering"
    /\ ExitWith(1)
    /\ UNCHANGED <<conf, linked, asked, items, evidence, file, shown>>

\* Mutant of Risky: the threshold is applied to what the filter shows.
RiskyAsShown ==
    LET summary == Summarize(Visible)
        merged  == Merge(evidence)
    IN  IF conf.command \in {"check", "report"}
          THEN evidence # <<>> /\ RiskExceeded(merged.score, merged.purity)
          ELSE summary.abusive > 0 \/ summary.suspicious > 0

\* providerResultsRisky and batchResultRisky: a batch is judged by its summary,
\* which counts the items the filter hides too.
Risky ==
    LET summary == Summarize(items)
        merged  == Merge(evidence)
    IN  IF conf.command \in {"check", "report"}
          THEN evidence # <<>> /\ RiskExceeded(merged.score, merged.purity)
          ELSE summary.abusive > 0 \/ summary.suspicious > 0

Judge ==
    /\ phase = "judging"
    /\ ExitWith(IF conf.failOnAbuse /\ Risky THEN 4 ELSE 0)
    /\ UNCHANGED <<conf, linked, asked, items, evidence, file, shown>>

Next ==
    \/ LoadFails \/ InputFails \/ CheckAddress \/ RunBatch \/ ListImported
    \/ NoExport \/ CreateFails \/ ExportClean \/ ExportFails
    \/ TuiQuits \/ TuiUnavailable \/ TuiFails
    \/ Render \/ RenderFails \/ Judge

Spec == Init /\ [][Next]_vars

-----------------------------------------------------------------------------
(* Properties.                                                             *)

\* One endpoint, or one provider's own report, by itself exceeds the threshold.
RiskFound ==
    \/ \E i \in DOMAIN items : RiskExceeded(items[i].score, items[i].purity)
    \/ \E i \in DOMAIN evidence :
         LET report == NormalizeResult(evidence[i])
         IN  RiskExceeded(report.score, report.purity)

\* The gate of --fail-on-abuse (main.go 117-119, 128, 178-180, 223, 235, 279)
\* lets check, report and batch end with 0 only when neither an endpoint, hidden
\* by the filter or not, nor a single report exceeds the threshold; nobody was
\* asked only when the one address is a name that did not resolve (563-568).
GateHolds ==
    code = 0 /\ conf.failOnAbuse /\ conf.command # "import" =>
        /\ ~RiskFound
        /\ asked \/ Unresolved

\* A command that ends with 0 or 4 has shown its results exactly once, in the
\* terminal UI or as text; one that fails has not claimed to show any.
ShownOnce ==
    phase = "exited" => Len(shown) = IF code \in {0, 4} THEN 1 ELSE 0

\* When the command goes on after --export-clean, the file holds every clean
\* reachable endpoint the filter left, and at no time another one: a verdict
\* of providers, where they were asked, is never missing behind one.
CleanAt(p) == /\ items[p].reachable
              /\ items[p].purity = "clean"
              /\ ~RiskExceeded(items[p].score, items[p].purity)
              /\ asked => items[p].successes > 0 \/ items[p].total = 0
              /\ MatchesFilter(items[p], conf.filter)

ExportIsClean ==
    /\ \A p \in file.holds : CleanAt(p)
    /\ phase \in {"showing", "rendering", "judging"} /\ file.touched =>
         \A p \in Positions : CleanAt(p) /\ (conf.export = "links" => p \in linked)
                                => p \in file.holds

\* README.md, Import Flags: --fail-on-abuse is to "exit with code 4 when
\* imported results exceed abuse or purity thresholds".
FailOnAbuseHonoured ==
    phase = "exited" /\ code = 0 /\ conf.failOnAbuse => ~RiskFound
=============================================================================
