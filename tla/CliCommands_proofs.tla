-------------------------- MODULE CliCommands_proofs --------------------------
(***************************************************************************)
(* One invocation of the command line, for any endpoints, outcomes,        *)
(* reports and flags: the gate of --fail-on-abuse holds, results are shown *)
(* once, and the file of --export-clean has the clean endpoints and no     *)
(* other.                                                                  *)
(***************************************************************************)
EXTENDS CliCommands, BatchItems_proofs

Risks == {"suspicious", "vpn_likely", "vpn_detected"}

LEMMA HighScoreShows ==
    ASSUME NEW R, \A r \in R : r.score \in 0..100, NEW report \in R, report.score >= 50
    PROVE  Highest({0} \cup {r.score : r \in R}) >= 50
<1> DEFINE scores == {0} \cup {r.score : r \in R}
<1>1. PICK s \in 0..100 : s = report.score
  OBVIOUS
<1>2. s \in scores /\ s >= 50
  BY <1>1
<1>3. scores \in SUBSET (0..100)
  <2>1. 0 \in 0..100
    OBVIOUS
  <2> QED
    BY <2>1
<1> HIDE DEF scores
<1>4. PICK h \in 0..100 : h = Highest(scores) /\ s <= h
  BY <1>2, <1>3, HighestScore
<1>5. Highest(scores) >= 50
  <2>1. h >= 50
    BY <1>2, <1>4
  <2> QED
    BY <1>4, <2>1
<1> QED
  BY <1>5 DEF scores

LEMMA Ranks ==
    /\ PurityRiskRank("vpn_detected") = 5
    /\ PurityRiskRank("vpn_likely") = 4
    /\ PurityRiskRank("suspicious") = 3
    /\ PurityRiskRank("clean") = 1
    /\ PurityRiskRank("unknown") = 0
    /\ PurityRiskRank("other") = 0
BY DEF PurityRiskRank

LEMMA RiskIsWorst ==
    ASSUME NEW R, \A r \in R : r.purity \in Verdicts \cup {"other"},
           NEW report \in R, report.purity \in Risks
    PROVE  LET ranked == {r \in R : PurityRiskRank(r.purity) > 0}
               worst  == CHOOSE r \in ranked :
                           \A s \in ranked : PurityRiskRank(s.purity) <= PurityRiskRank(r.purity)
           IN  ranked # {} /\ worst.purity \in Risks
<1> DEFINE ranked    == {r \in R : PurityRiskRank(r.purity) > 0}
           Worst(r)  == \A s \in ranked : PurityRiskRank(s.purity) <= PurityRiskRank(r.purity)
           worst     == CHOOSE r \in ranked : Worst(r)
<1>1. PurityRiskRank(report.purity) \in {3, 4, 5}
  BY Ranks DEF Risks
<1>2. report \in ranked /\ \A r \in ranked : r \in R /\ PurityRiskRank(r.purity) > 0
  BY <1>1
<1> HIDE DEF ranked
<1>3. \E r \in ranked : Worst(r)
  BY <1>2, WorstExists
<1>4. worst \in ranked /\ Worst(worst)
  <2> HIDE DEF Worst
  <2> QED
    BY <1>3
<1>5. PurityRiskRank(report.purity) <= PurityRiskRank(worst.purity)
  BY <1>2, <1>4
<1>6. worst.purity \in Verdicts \cup {"other"}
  BY <1>2, <1>4
<1> HIDE DEF worst
<1>7. worst.purity \in Risks
  <2>1. PICK p \in Verdicts \cup {"other"} : p = worst.purity
    BY <1>6
  <2>2. PurityRiskRank(report.purity) <= PurityRiskRank(p)
    BY <1>5, <2>1
  <2>3. p \notin {"clean", "unknown", "other"}
    BY <1>1, <2>2, Ranks
  <2>4. p \in Risks
    BY <2>3 DEF Verdicts, Risks
  <2> QED
    BY <2>1, <2>4
<1> QED
  BY <1>2, <1>7 DEF ranked, worst

\* A report that by itself exceeds the threshold makes the merged one exceed it.
LEMMA RiskShows ==
    ASSUME NEW C, NoCountry \in C, NEW results \in Seq(Report(C)), NEW i \in DOMAIN results,
           RiskExceeded(NormalizeResult(results[i]).score, NormalizeResult(results[i]).purity)
    PROVE  /\ results # <<>>
           /\ RiskExceeded(Merge(results).score, Merge(results).purity)
<1> DEFINE reports == {NormalizeResult(results[n]) : n \in DOMAIN results}
           report  == NormalizeResult(results[i])
           ranked  == {r \in reports : PurityRiskRank(r.purity) > 0}
           worst   == CHOOSE r \in ranked :
                        \A s \in ranked : PurityRiskRank(s.purity) <= PurityRiskRank(r.purity)
<1>1. \A r \in reports : r.score \in 0..100 /\ r.purity \in Verdicts \cup {"other"}
  BY NormalizeType, LenProperties, ElementOfSeq
<1>2. report \in reports
  OBVIOUS
<1>3. results # <<>>
  BY LenProperties
<1>4. Merge(results).score = Highest({0} \cup {r.score : r \in reports})
  BY <1>3 DEF Merge
<1>5. ranked # {} => Merge(results).purity = worst.purity
  BY <1>3 DEF Merge
<1>6. RiskExceeded(report.score, report.purity)
  OBVIOUS
<1> HIDE DEF reports, report
<1>7. CASE report.score >= 50
  <2>1. Highest({0} \cup {r.score : r \in reports}) >= 50
    BY <1>1, <1>2, <1>7, HighScoreShows
  <2> QED
    BY <1>3, <1>4, <2>1 DEF RiskExceeded
<1>8. CASE report.purity \in Risks
  <2>1. ranked # {} /\ worst.purity \in Risks
    BY <1>1, <1>2, <1>8, RiskIsWorst
  <2> HIDE DEF ranked, worst
  <2>2. Merge(results).purity \in Risks
    BY <1>5, <2>1
  <2> QED
    BY <1>3, <2>2 DEF RiskExceeded, Risks
<1> QED
  BY <1>6, <1>7, <1>8 DEF RiskExceeded, Risks

\* A place in a list is counted.
LEMMA Counted ==
    ASSUME NEW T, NEW list \in Seq(T), NEW S \in SUBSET (DOMAIN list), NEW i \in S
    PROVE  Cardinality(S) > 0
<1>1. Len(list) \in Nat /\ DOMAIN list = 1..Len(list)
  BY LenProperties
<1>2. IsFiniteSet(S)
  <2>1. IsFiniteSet(1..Len(list))
    BY <1>1, FS_Interval
  <2> QED
    BY <1>1, <2>1, FS_Subset
<1>3. Cardinality(S) \in Nat /\ Cardinality(S) # 0
  BY <1>2, FS_CardinalityType, FS_EmptySet
<1> QED
  BY <1>3

\* An item that by itself exceeds the threshold shows in the summary.
LEMMA SummaryShows ==
    ASSUME NEW list \in Seq(Outcome), NEW i \in DOMAIN list,
           RiskExceeded(list[i].score, list[i].purity)
    PROVE  Summarize(list).abusive > 0 \/ Summarize(list).suspicious > 0
<1> DEFINE abusive == {n \in DOMAIN list : list[n].score >= 50}
           suspect == {n \in DOMAIN list : Suspicious(list[n])}
<1>1. Summarize(list).abusive = Cardinality(abusive)
  BY DEF Summarize
<1>2. Summarize(list).suspicious = Cardinality(suspect)
  BY DEF Summarize
<1>3. /\ i \in abusive \/ i \in suspect
      /\ abusive \in SUBSET (DOMAIN list) /\ suspect \in SUBSET (DOMAIN list)
  BY DEF RiskExceeded, Suspicious
<1> HIDE DEF abusive, suspect
<1>4. Cardinality(abusive) > 0 \/ Cardinality(suspect) > 0
  BY <1>3, Counted
<1> QED
  BY <1>1, <1>2, <1>4

-----------------------------------------------------------------------------
(* What holds throughout.                                                  *)

\* There is an item for each endpoint, at its place.
Batched == DOMAIN items = Positions /\ \A p \in Positions : items[p].at = p

CliTypes ==
    /\ conf \in Invocations
    /\ phase \in {"start", "exporting", "showing", "rendering", "judging", "exited"}
    /\ asked \in BOOLEAN
    /\ items \in Seq(Outcome)
    /\ evidence \in Seq(Report(Countries))
    /\ code \in {-1, 0, 1, 2, 4}
    /\ code # -1 <=> phase = "exited"

\* What was asked, and what came of it.
Stages ==
    /\ conf.command \in {"check", "report"} => items = <<>>
    /\ conf.command \in {"batch", "import"} => evidence = <<>>
    /\ phase = "exporting" \/ file.touched => Batched
    /\ ~asked => \A p \in DOMAIN items : items[p].total = 0
    /\ phase \notin {"start", "exited"} /\ conf.command # "import" =>
          asked = (AsksProviders /\ ~Unresolved)

\* Results are shown on the way from rendering, or from the terminal UI, to
\* the end.
Showing ==
    /\ phase \in {"start", "exporting", "showing", "rendering"} => shown = <<>>
    /\ phase = "judging" => Len(shown) = 1
    /\ ShownOnce

\* Nothing is written before the export.
Writing ==
    /\ file.touched \/ file.holds = {}
    /\ phase \in {"start", "exporting"} => ~file.touched
    /\ file.holds \subseteq Positions
    /\ ExportIsClean

CliInv == CliTypes /\ Stages /\ Showing /\ Writing /\ GateHolds

-----------------------------------------------------------------------------
(* What the parts of an action come to.                                    *)

\* A state predicate of each part, in what the part reads.
LEMMA CleanStays ==
    ASSUME UNCHANGED <<conf, asked, items>>, NEW p
    PROVE  CleanAt(p)' <=> CleanAt(p)
BY DEF CleanAt, MatchesFilter, RiskExceeded, Suspicious, CleanScored, Erroneous

LEMMA RiskStays ==
    ASSUME UNCHANGED <<items, evidence>>
    PROVE  RiskFound' <=> RiskFound
BY DEF RiskFound, RiskExceeded

LEMMA AsksStays ==
    ASSUME UNCHANGED conf
    PROVE  AsksProviders' = AsksProviders /\ Unresolved' = Unresolved
BY DEF AsksProviders, Unresolved

\* The clean items of what the filter leaves of a list are the clean items of
\* the list that match.
LEMMA CleanOfVisible ==
    ASSUME NEW list \in Seq(Outcome), NEW filter, \A p \in DOMAIN list : list[p].at = p, NEW p
    PROVE  LET new == FilterItems(list, filter)
           IN  p \in {new[k].at : k \in {k \in DOMAIN new : IsCleanItem(new[k])}}
                 <=> p \in DOMAIN list /\ IsCleanItem(list[p]) /\ MatchesFilter(list[p], filter)
<1> DEFINE new == FilterItems(list, filter)
           S   == Matching(list, filter)
           N   == Cardinality(S)
<1>1. new \in Seq(Outcome) /\ N \in Nat /\ Len(new) = N /\ InOrder(new, list, S, Ascending(S))
  BY FilterInOrder
<1>2. \A i : i \in S <=> i \in DOMAIN list /\ MatchesFilter(list[i], filter)
  BY DEF Matching
<1> HIDE DEF new, S, N
<1>3. DOMAIN new = 1..N
  BY <1>1, LenProperties
<1>4. PICK places \in [1..N -> S] :
        /\ new = [k \in 1..N |-> list[places[k]]]
        /\ \A i \in S : \E k \in 1..N : places[k] = i
  BY <1>1 DEF InOrder, N
<1>5. \A k \in 1..N : new[k] = list[places[k]] /\ places[k] \in S /\ new[k].at = places[k]
  BY <1>2, <1>4
<1>6. ASSUME NEW k \in 1..N, IsCleanItem(new[k]), p = new[k].at
      PROVE  p \in S /\ IsCleanItem(list[p])
  BY <1>5, <1>6
<1>7. ASSUME p \in S, IsCleanItem(list[p])
      PROVE  \E k \in 1..N : IsCleanItem(new[k]) /\ p = new[k].at
  <2>1. PICK k \in 1..N : places[k] = p
    BY <1>4, <1>7
  <2> QED
    BY <1>5, <1>7, <2>1
<1> QED
  BY <1>2, <1>3, <1>6, <1>7 DEF new

LEMMA Exported ==
    ASSUME CliTypes, Batched, NEW p
    PROVE  p \in ToExport <=> /\ p \in Positions
                              /\ IsCleanItem(items[p])
                              /\ MatchesFilter(items[p], conf.filter)
                              /\ conf.export = "links" => p \in linked
<1>1. PICK list \in Seq(Outcome) : list = items
  BY DEF CliTypes
<1>2. PICK filter : filter = conf.filter
  OBVIOUS
<1>3. \A q \in DOMAIN list : list[q].at = q
  BY <1>1 DEF Batched
<1> DEFINE new   == FilterItems(list, filter)
           clean == {new[k].at : k \in {k \in DOMAIN new : IsCleanItem(new[k])}}
<1>4. p \in clean <=> p \in DOMAIN list /\ IsCleanItem(list[p]) /\ MatchesFilter(list[p], filter)
  BY <1>3, CleanOfVisible
<1>5. ToExport = IF conf.export = "links" THEN clean \cap linked ELSE clean
  BY <1>1, <1>2 DEF ToExport, Visible
<1> HIDE DEF clean
<1>6. p \in ToExport <=> p \in clean /\ (conf.export = "links" => p \in linked)
  BY <1>5
<1>7. DOMAIN list = Positions
  BY <1>1 DEF Batched
<1> QED
  BY <1>1, <1>2, <1>4, <1>6, <1>7

\* What is exported is clean, and what is clean is exported.
LEMMA ExportedClean ==
    ASSUME CliTypes, Stages, Batched, NEW p
    PROVE  p \in ToExport <=> p \in Positions /\ CleanAt(p) /\ (conf.export = "links" => p \in linked)
<1>1. CASE p \in Positions
  <2>1. PICK item \in Outcome : item = items[p]
    <3>1. PICK list \in Seq(Outcome) : list = items
      BY DEF CliTypes
    <3>2. \A i \in DOMAIN list : list[i] \in Outcome
      BY LenProperties, ElementOfSeq
    <3> QED
      BY <1>1, <3>1, <3>2 DEF Batched
  <2>2. item.score \in Int
    BY Zenon DEF Outcome
  <2>3. ~asked => item.total = 0
    BY <1>1, <2>1 DEF Stages, Batched
  <2>4. IsCleanItem(item) <=> /\ item.reachable
                              /\ item.purity = "clean"
                              /\ ~(item.score >= 50)
                              /\ item.total = 0 \/ item.successes > 0
    BY <2>2 DEF IsCleanItem, CleanScored
  <2>5. item.purity = "clean" => (RiskExceeded(item.score, item.purity) <=> item.score >= 50)
    BY DEF RiskExceeded
  <2>6. CleanAt(p) <=> IsCleanItem(item) /\ MatchesFilter(item, conf.filter)
    BY <2>1, <2>3, <2>4, <2>5 DEF CleanAt
  <2> QED
    BY <2>1, <2>6, Exported
<1>2. CASE p \notin Positions
  BY <1>2, Exported
<1> QED
  BY <1>1, <1>2

LEMMA EvidenceType ==
    ASSUME NEW answers \in UNION {[1..n -> Reports] : n \in 0..MaxReports}
    PROVE  answers \in Seq(Report(Countries))
<1>1. PICK n \in 0..MaxReports : answers \in [1..n -> Reports]
  OBVIOUS
<1>2. n \in Nat
  BY MaxReportsAssumption
<1>3. answers \in [1..n -> Report(Countries)]
  <2>1. \A r \in Reports : r \in Report(Countries)
    BY ReportsAssumption
  <2> HIDE DEF Report
  <2> QED
    BY <1>1, <2>1
<1> QED
  BY <1>2, <1>3, SeqDef

LEMMA Placed ==
    ASSUME NEW outcome \in Outcome, NEW p \in Nat
    PROVE  /\ [outcome EXCEPT !.at = p] \in Outcome
           /\ [outcome EXCEPT !.at = p].at = p
           /\ [outcome EXCEPT !.at = p].total = outcome.total
BY DEF Outcome

LEMMA ItemsType ==
    ASSUME NEW outcome \in [Positions -> Outcome]
    PROVE  LET list == [p \in Positions |-> [outcome[p] EXCEPT !.at = p]]
           IN  /\ list \in Seq(Outcome)
               /\ DOMAIN list = Positions
               /\ \A p \in Positions : list[p].at = p /\ list[p].total = outcome[p].total
<1> DEFINE list == [p \in Positions |-> [outcome[p] EXCEPT !.at = p]]
<1>1. PICK n \in Nat : Positions = 1..n
  BY EndpointsAssumption, LenProperties DEF Positions
<1>2. \A p \in Positions : /\ list[p] \in Outcome
                           /\ list[p].at = p
                           /\ list[p].total = outcome[p].total
  <2> SUFFICES ASSUME NEW p \in Positions
               PROVE  /\ list[p] \in Outcome
                      /\ list[p].at = p
                      /\ list[p].total = outcome[p].total
    OBVIOUS
  <2>1. PICK o \in Outcome : o = outcome[p]
    OBVIOUS
  <2>2. list[p] = [o EXCEPT !.at = p]
    BY <2>1
  <2>3. p \in Nat
    BY <1>1
  <2>4. /\ [o EXCEPT !.at = p] \in Outcome
        /\ [o EXCEPT !.at = p].at = p
        /\ [o EXCEPT !.at = p].total = o.total
    BY <2>3, Placed
  <2> QED
    BY <2>1, <2>2, <2>4
<1>3. DOMAIN list = Positions /\ list = [p \in Positions |-> list[p]]
  OBVIOUS
<1> HIDE DEF list
<1>4. list \in Seq(Outcome)
  <2>1. list \in [1..n -> Outcome]
    BY <1>1, <1>2, <1>3
  <2> QED
    BY <2>1, SeqDef
<1> QED
  BY <1>2, <1>3, <1>4 DEF list

\* The threshold of --fail-on-abuse is not reached by less than all there is.
LEMMA RiskIsFound ==
    ASSUME CliTypes, Stages, conf.command # "import", RiskFound
    PROVE  Risky
<1>1. conf.command \in Commands
  BY InvocationsAssumption DEF CliTypes
<1>2. CASE conf.command \in {"check", "report"}
  <2>1. items = <<>> /\ DOMAIN items = {}
    BY <1>2, EmptySeq DEF Stages
  <2>2. PICK results \in Seq(Report(Countries)) : results = evidence
    BY DEF CliTypes
  <2>3. PICK i \in DOMAIN results :
          RiskExceeded(NormalizeResult(results[i]).score, NormalizeResult(results[i]).purity)
    BY <2>1, <2>2 DEF RiskFound
  <2>4. results # <<>> /\ RiskExceeded(Merge(results).score, Merge(results).purity)
    BY <2>3, RiskShows DEF Countries
  <2> QED
    BY <1>2, <2>2, <2>4 DEF Risky
<1>3. CASE conf.command = "batch"
  <2>1. evidence = <<>> /\ DOMAIN evidence = {}
    BY <1>3, EmptySeq DEF Stages
  <2>2. PICK list \in Seq(Outcome) : list = items
    BY DEF CliTypes
  <2>3. PICK i \in DOMAIN list : RiskExceeded(list[i].score, list[i].purity)
    BY <2>1, <2>2 DEF RiskFound
  <2>4. Summarize(list).abusive > 0 \/ Summarize(list).suspicious > 0
    BY <2>3, SummaryShows
  <2> QED
    BY <1>3, <2>2, <2>4 DEF Risky
<1> QED
  BY <1>1, <1>2, <1>3 DEF Commands

-----------------------------------------------------------------------------
(* Init and the steps.                                                     *)

LEMMA CliInit == Init => CliInv
<1> SUFFICES ASSUME Init
             PROVE  CliInv
  OBVIOUS
<1>1. /\ conf \in Invocations /\ phase = "start" /\ asked = FALSE /\ items = <<>>
      /\ evidence = <<>> /\ file.touched = FALSE /\ file.holds = {} /\ shown = <<>> /\ code = -1
  BY DEF Init
<1>2. DOMAIN items = {}
  BY <1>1, EmptySeq
<1>3. items \in Seq(Outcome) /\ evidence \in Seq(Report(Countries))
  BY <1>1, EmptySeq
<1>4. CliTypes
  BY <1>1, <1>3 DEF CliTypes
<1>5. Stages
  BY <1>1, <1>2 DEF Stages
<1>6. Showing
  BY <1>1 DEF Showing, ShownOnce
<1>7. Writing
  BY <1>1 DEF Writing, ExportIsClean
<1>8. GateHolds
  BY <1>1 DEF GateHolds
<1> QED
  BY <1>4, <1>5, <1>6, <1>7, <1>8 DEF CliInv

\* What stays as it is when only the phase and the exit code move on.
LEMMA ExitKeeps ==
    ASSUME CliInv, UNCHANGED <<conf, linked, asked, items, evidence, file>>, phase # "exited",
           phase' = "exited", code' \in {0, 1, 2, 4}
    PROVE  CliTypes' /\ Stages' /\ Writing'
<1>1. CliTypes'
  BY DEF CliInv, CliTypes
<1>2. Stages'
  BY AsksStays DEF CliInv, Stages, Batched
<1>3. Writing'
  BY CleanStays DEF CliInv, Writing, ExportIsClean
<1> QED
  BY <1>1, <1>2, <1>3

\* A command that fails.
LEMMA FailingKeeps ==
    ASSUME CliInv, UNCHANGED <<conf, linked, asked, items, evidence, file, shown>>,
           phase \in {"start", "exporting", "showing", "rendering"},
           phase' = "exited", code' \in {1, 2}
    PROVE  CliInv'
<1>1. CliTypes' /\ Stages' /\ Writing'
  BY ExitKeeps
<1>2. Showing'
  BY LenProperties, EmptySeq DEF CliInv, Showing, ShownOnce
<1>3. GateHolds'
  BY DEF GateHolds
<1> QED
  BY <1>1, <1>2, <1>3 DEF CliInv

\* A command that goes on with what it has.
LEMMA GoingOnKeeps ==
    ASSUME CliInv, UNCHANGED <<conf, linked, asked, items, evidence, file, shown, code>>,
           phase \in {"exporting", "showing"}, phase' \in {"showing", "rendering"},
           phase = "exporting" => ~file.touched
    PROVE  CliInv'
<1>1. CliTypes'
  BY DEF CliInv, CliTypes
<1>2. Stages'
  BY AsksStays DEF CliInv, Stages, Batched
<1>3. Writing'
  BY CleanStays DEF CliInv, Writing, ExportIsClean
<1>4. Showing'
  BY DEF CliInv, Showing, ShownOnce
<1>5. GateHolds'
  BY DEF CliInv, CliTypes, GateHolds
<1> QED
  BY <1>1, <1>2, <1>3, <1>4, <1>5 DEF CliInv

\* An endpoint or an address is checked.
LEMMA CheckAddressKeeps == CliInv /\ CheckAddress => CliInv'
<1> SUFFICES ASSUME CliInv, CheckAddress
             PROVE  CliInv'
  OBVIOUS
<1>1. /\ phase = "start" /\ phase' = "rendering" /\ asked' = (AsksProviders /\ ~Unresolved)
      /\ conf.command \in {"check", "report"}
      /\ UNCHANGED <<conf, linked, items, file, shown, code>>
  BY DEF CheckAddress
<1>2. evidence' \in Seq(Report(Countries))
  <2>1. PICK answers : answers = evidence'
    OBVIOUS
  <2>2. CASE asked'
    <3>1. answers \in UNION {[1..n -> Reports] : n \in 0..MaxReports}
      BY <2>1, <2>2 DEF CheckAddress
    <3> QED
      BY <2>1, <3>1, EvidenceType
  <2>3. CASE ~asked'
    <3>1. evidence' = <<>>
      BY <2>3 DEF CheckAddress
    <3> QED
      BY <3>1, EmptySeq
  <2> QED
    BY <2>2, <2>3
<1>3. asked' \in BOOLEAN
  BY <1>1 DEF AsksProviders, Unresolved
<1>4. CliTypes'
  BY <1>1, <1>2, <1>3 DEF CliInv, CliTypes
<1>5. items = <<>> /\ DOMAIN items = {} /\ DOMAIN items' = {}
  BY <1>1, EmptySeq DEF CliInv, Stages
<1>6. Stages'
  BY <1>1, <1>5, AsksStays DEF CliInv, Stages, Writing
<1>7. Writing'
  BY <1>1 DEF CliInv, Writing, ExportIsClean
<1>8. Showing' /\ GateHolds'
  BY <1>1 DEF CliInv, CliTypes, Showing, ShownOnce, GateHolds
<1> QED
  BY <1>4, <1>6, <1>7, <1>8 DEF CliInv

\* The batch engine delivers an item for each endpoint.
LEMMA RunBatchKeeps == CliInv /\ RunBatch => CliInv'
<1> SUFFICES ASSUME CliInv, RunBatch
             PROVE  CliInv'
  OBVIOUS
<1>1. /\ phase = "start" /\ phase' = "exporting" /\ asked' = AsksProviders
      /\ conf.command \in {"batch", "import"}
      /\ UNCHANGED <<conf, linked, evidence, file, shown, code>>
  BY DEF RunBatch
<1>2. asked' \in BOOLEAN
  BY <1>1 DEF AsksProviders
<1>3. PICK outcome \in [Positions -> IF AsksProviders THEN Judged ELSE Unjudged] :
        items' = [p \in Positions |-> [outcome[p] EXCEPT !.at = p]]
  BY DEF RunBatch
<1>4. outcome \in [Positions -> Outcome]
  <2>1. \A o \in IF AsksProviders THEN Judged ELSE Unjudged : o \in Outcome
    BY OutcomesAssumption
  <2> HIDE DEF Outcome
  <2> QED
    BY <2>1
<1>5. /\ items' \in Seq(Outcome)
      /\ DOMAIN items' = Positions
      /\ \A p \in Positions : items'[p].at = p /\ items'[p].total = outcome[p].total
  BY <1>3, <1>4, ItemsType
<1>6. ~AsksProviders => \A p \in Positions : outcome[p].total = 0
  BY <1>3, OutcomesAssumption
<1>7. CliTypes'
  BY <1>1, <1>2, <1>5 DEF CliInv, CliTypes
<1>8. Stages'
  <2>1. Batched'
    BY <1>5 DEF Batched
  <2>2. (~asked => \A p \in DOMAIN items : items[p].total = 0)'
    BY <1>1, <1>5, <1>6
  <2>3. asked' = (AsksProviders /\ ~Unresolved)
    BY <1>1 DEF Unresolved, AsksProviders
  <2>4. AsksProviders' = AsksProviders /\ Unresolved' = Unresolved
    BY <1>1, AsksStays
  <2>5. asked' = (AsksProviders' /\ ~Unresolved')
    BY <2>3, <2>4
  <2>6. conf' = conf /\ conf.command \notin {"check", "report"} /\ evidence' = evidence
    BY <1>1
  <2>7. conf.command \in {"batch", "import"} => evidence = <<>>
    BY DEF CliInv, Stages
  <2> QED
    BY <2>1, <2>2, <2>5, <2>6, <2>7 DEF Stages
<1>9. Writing'
  BY <1>1 DEF CliInv, Writing, ExportIsClean
<1>10. Showing' /\ GateHolds'
  BY <1>1 DEF CliInv, CliTypes, Showing, ShownOnce, GateHolds
<1> QED
  BY <1>7, <1>8, <1>9, <1>10 DEF CliInv

LEMMA ListImportedKeeps == CliInv /\ ListImported => CliInv'
<1> SUFFICES ASSUME CliInv, ListImported
             PROVE  CliInv'
  OBVIOUS
<1>1. /\ phase = "start" /\ phase' = "rendering" /\ conf.command = "import"
      /\ UNCHANGED <<conf, linked, asked, items, evidence, file, shown, code>>
  BY DEF ListImported
<1>2. CliTypes'
  BY <1>1 DEF CliInv, CliTypes
<1>3. Stages'
  BY <1>1 DEF CliInv, Stages, Writing
<1>4. Writing'
  BY <1>1 DEF CliInv, Writing, ExportIsClean
<1>5. Showing' /\ GateHolds'
  BY <1>1 DEF CliInv, CliTypes, Showing, ShownOnce, GateHolds
<1> QED
  BY <1>2, <1>3, <1>4, <1>5 DEF CliInv

\* The clean endpoints are written, or some of them until an error.
LEMMA ExportCleanKeeps == CliInv /\ ExportClean => CliInv'
<1> SUFFICES ASSUME CliInv, ExportClean
             PROVE  CliInv'
  OBVIOUS
<1>1. /\ phase = "exporting" /\ phase' \in {"showing", "rendering"}
      /\ file'.touched = TRUE /\ file'.holds = ToExport
      /\ UNCHANGED <<conf, linked, asked, items, evidence, shown, code>>
  BY DEF ExportClean, AfterExport
<1>2. CliTypes /\ Stages /\ Batched
  BY <1>1 DEF CliInv, Stages
<1>3. \A p : p \in ToExport <=>
               p \in Positions /\ CleanAt(p) /\ (conf.export = "links" => p \in linked)
  BY <1>2, ExportedClean
<1>4. CliTypes'
  BY <1>1, <1>2 DEF CliTypes
<1>5. Stages'
  BY <1>1, <1>2, AsksStays DEF Stages, Batched
<1>6. Writing'
  BY <1>1, <1>3, CleanStays DEF Writing, ExportIsClean
<1>7. Showing' /\ GateHolds'
  BY <1>1 DEF CliInv, CliTypes, Showing, ShownOnce, GateHolds
<1> QED
  BY <1>4, <1>5, <1>6, <1>7 DEF CliInv

LEMMA ExportFailsKeeps == CliInv /\ ExportFails => CliInv'
<1> SUFFICES ASSUME CliInv, ExportFails
             PROVE  CliInv'
  OBVIOUS
<1>1. /\ phase = "exporting" /\ phase' = "exited" /\ code' = 1
      /\ UNCHANGED <<conf, linked, asked, items, evidence, shown>>
  BY DEF ExportFails, ExitWith
<1>2. PICK part : part \subseteq ToExport /\ file'.touched = TRUE /\ file'.holds = part
  <2>1. PICK part \in IF Exportable THEN SUBSET ToExport ELSE {{}} :
          file' = [touched |-> TRUE, holds |-> part]
    BY DEF ExportFails
  <2> QED
    BY <2>1
<1>3. CliTypes /\ Stages /\ Batched
  BY <1>1 DEF CliInv, Stages
<1>4. \A p : p \in ToExport => p \in Positions /\ CleanAt(p)
  BY <1>3, ExportedClean
<1>5. CliTypes'
  BY <1>1, <1>3 DEF CliTypes
<1>6. Stages'
  BY <1>1, <1>3, AsksStays DEF Stages, Batched
<1>7. Writing'
  BY <1>1, <1>2, <1>4, CleanStays DEF Writing, ExportIsClean
<1>8. Showing'
  BY <1>1, EmptySeq, LenProperties DEF CliInv, Showing, ShownOnce
<1>9. GateHolds'
  BY <1>1 DEF GateHolds
<1> QED
  BY <1>5, <1>6, <1>7, <1>8, <1>9 DEF CliInv

\* The results are shown: the command is then to be judged, or over.
LEMMA ShownOnceMore ==
    ASSUME CliInv, phase \in {"showing", "rendering"}, NEW how, shown' = Append(shown, how)
    PROVE  Len(shown') = 1
<1>1. shown = <<>>
  BY DEF CliInv, Showing
<1> QED
  BY <1>1, AppendProperties

LEMMA ShowingKeeps ==
    ASSUME CliInv, phase \in {"showing", "rendering"}, phase' = "judging", NEW how,
           shown' = Append(shown, how),
           UNCHANGED <<conf, linked, asked, items, evidence, file, code>>
    PROVE  CliInv'
<1>1. CliTypes'
  BY DEF CliInv, CliTypes
<1>2. Stages'
  BY AsksStays DEF CliInv, Stages, Batched
<1>3. Writing'
  BY CleanStays DEF CliInv, Writing, ExportIsClean
<1>4. Showing'
  BY ShownOnceMore DEF Showing, ShownOnce
<1>5. GateHolds'
  BY DEF CliInv, CliTypes, GateHolds
<1> QED
  BY <1>1, <1>2, <1>3, <1>4, <1>5 DEF CliInv

LEMMA RenderKeeps == CliInv /\ Render => CliInv'
<1> SUFFICES ASSUME CliInv, Render
             PROVE  CliInv'
  OBVIOUS
<1>1. /\ phase = "rendering" /\ shown' = Append(shown, "text")
      /\ UNCHANGED <<conf, linked, asked, items, evidence, file>>
  BY DEF Render
<1>2. CASE conf.command = "import"
  <2>1. phase' = "exited" /\ code' = 0
    BY <1>2 DEF Render, ExitWith
  <2>2. CliTypes' /\ Stages' /\ Writing'
    BY <1>1, <2>1, ExitKeeps
  <2>3. Showing'
    BY <1>1, <2>1, ShownOnceMore DEF Showing, ShownOnce
  <2>4. GateHolds'
    BY <1>1, <1>2 DEF GateHolds
  <2> QED
    BY <2>2, <2>3, <2>4 DEF CliInv
<1>3. CASE conf.command # "import"
  <2>1. phase' = "judging" /\ UNCHANGED code
    BY <1>3 DEF Render
  <2> QED
    BY <1>1, <2>1, ShowingKeeps
<1> QED
  BY <1>2, <1>3

\* The threshold of --fail-on-abuse.
LEMMA JudgeKeeps == CliInv /\ Judge => CliInv'
<1> SUFFICES ASSUME CliInv, Judge
             PROVE  CliInv'
  OBVIOUS
<1>1. /\ phase = "judging" /\ phase' = "exited"
      /\ code' = IF conf.failOnAbuse /\ Risky THEN 4 ELSE 0
      /\ UNCHANGED <<conf, linked, asked, items, evidence, file, shown>>
  BY DEF Judge, ExitWith
<1>2. CliTypes' /\ Stages' /\ Writing'
  BY <1>1, ExitKeeps
<1>3. Showing'
  BY <1>1 DEF CliInv, Showing, ShownOnce
<1>4. GateHolds'
  <2> SUFFICES ASSUME code' = 0, conf.failOnAbuse, conf.command # "import"
               PROVE  ~RiskFound /\ (asked \/ Unresolved)
    BY <1>1, RiskStays, AsksStays DEF GateHolds
  <2>1. ~Risky
    BY <1>1
  <2>2. ~RiskFound
    BY <2>1, RiskIsFound DEF CliInv
  <2>3. conf.command \in {"check", "report", "batch"}
    BY InvocationsAssumption DEF CliInv, CliTypes, Commands
  <2>4. AsksProviders
    BY <2>3 DEF AsksProviders
  <2>5. asked \/ Unresolved
    BY <1>1, <2>4 DEF CliInv, Stages
  <2> QED
    BY <2>2, <2>5
<1> QED
  BY <1>2, <1>3, <1>4 DEF CliInv

LEMMA CliStep == CliInv /\ [Next]_vars => CliInv'
<1> SUFFICES ASSUME CliInv, [Next]_vars
             PROVE  CliInv'
  OBVIOUS
<1>1. CASE LoadFails
  BY <1>1, FailingKeeps DEF LoadFails, ExitWith
<1>2. CASE InputFails
  BY <1>2, FailingKeeps DEF InputFails, ExitWith
<1>3. CASE CreateFails
  BY <1>3, FailingKeeps DEF CreateFails, ExitWith
<1>4. CASE RenderFails
  BY <1>4, FailingKeeps DEF RenderFails, ExitWith
<1>5. CASE NoExport
  <2>1. /\ phase = "exporting" /\ phase' \in {"showing", "rendering"}
        /\ UNCHANGED <<conf, linked, asked, items, evidence, file, shown, code>>
    BY <1>5 DEF NoExport, AfterExport
  <2>2. ~file.touched
    BY <2>1 DEF CliInv, Writing
  <2> QED
    BY <2>1, <2>2, GoingOnKeeps
<1>6. CASE TuiUnavailable
  BY <1>6, GoingOnKeeps DEF TuiUnavailable
<1>7. CASE TuiFails
  <2>1. CASE ExitWith(1)
    BY <1>7, <2>1, FailingKeeps DEF TuiFails, ExitWith
  <2>2. CASE phase' = "rendering" /\ UNCHANGED code
    BY <1>7, <2>2, GoingOnKeeps DEF TuiFails
  <2> QED
    BY <1>7, <2>1, <2>2 DEF TuiFails
<1>8. CASE TuiQuits
  BY <1>8, ShowingKeeps DEF TuiQuits
<1>9. CASE UNCHANGED vars
  <2>1. UNCHANGED <<conf, linked, phase, asked, items, evidence, file, shown, code>>
    BY <1>9 DEF vars
  <2>2. CliTypes'
    BY <2>1 DEF CliInv, CliTypes
  <2>3. Stages'
    BY <2>1, AsksStays DEF CliInv, Stages, Batched
  <2>4. Writing'
    BY <2>1, CleanStays DEF CliInv, Writing, ExportIsClean
  <2>5. Showing'
    BY <2>1 DEF CliInv, Showing, ShownOnce
  <2>6. GateHolds'
    BY <2>1, RiskStays, AsksStays DEF CliInv, GateHolds
  <2> QED
    BY <2>2, <2>3, <2>4, <2>5, <2>6 DEF CliInv
<1> QED
  BY <1>1, <1>2, <1>3, <1>4, <1>5, <1>6, <1>7, <1>8, <1>9, CheckAddressKeeps, RunBatchKeeps,
     ListImportedKeeps, ExportCleanKeeps, ExportFailsKeeps, RenderKeeps, JudgeKeeps DEF Next

\* The inductive invariant.
THEOREM CliInvariant == Spec => []CliInv
  BY CliInit, CliStep, PTL DEF Spec

\* check, report and batch with --fail-on-abuse end with 0 only when nothing that
\* providers said, of an endpoint shown or hidden or in a single report, exceeds
\* the threshold; where nobody was asked, the address did not resolve
\* (cmd/purelink/main.go).
THEOREM GateIsHeld == Spec => []GateHolds
<1>1. CliInv => GateHolds
  BY DEF CliInv
<1> QED
  BY <1>1, CliInvariant, PTL

\* A command that ends with 0 or 4 has shown its results exactly once, one
\* that fails has not claimed to.
THEOREM ResultsShownOnce == Spec => []ShownOnce
<1>1. CliInv => ShownOnce
  BY DEF CliInv, Showing
<1> QED
  BY <1>1, CliInvariant, PTL

\* The file of --export-clean never holds an endpoint that is not clean, and
\* a command that goes on has exported every clean one the filter left.
THEOREM ExportsAreClean == Spec => []ExportIsClean
<1>1. CliInv => ExportIsClean
  BY DEF CliInv, Writing
<1> QED
  BY <1>1, CliInvariant, PTL
====
