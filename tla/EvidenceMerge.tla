---------------------------- MODULE EvidenceMerge ----------------------------
(***************************************************************************)
(* Evidence about one address arrives report by report: the providers of   *)
(* one endpoint are asked in turn, and the retry phase appends what comes  *)
(* late.  abuse.Merge is a loop over the reports received so far; here one *)
(* step is one iteration, over a report that any provider may have sent,   *)
(* and the accumulator is the loop's variable "merged".  The module checks *)
(* the loop against the declarative Merge of PurityVerdict, and the        *)
(* verdict against what ARCHITECTURE.md says a verdict means.              *)
(***************************************************************************)
EXTENDS PurityVerdict

CONSTANTS Reports,      \* the reports a provider may return
          MaxReports    \* bound: reports about the address

Countries == {NoCountry} \cup {r.country : r \in Reports}

ASSUME ReportsAssumption == Reports \subseteq Report(Countries)
ASSUME MaxReportsAssumption == MaxReports \in Nat

VARIABLES evidence,     \* the reports, in the order they were appended
          merged        \* the loop's accumulator

vars == <<evidence, merged>>

Init ==
    /\ evidence = <<>>
    /\ merged = [score |-> 0, anonymizer |-> FALSE, datacenter |-> FALSE,
                 purity |-> "unknown", country |-> NoCountry]

\* Mutant of MergeStep: a verdict of the same rank takes over.
MergeStepTiesReplace(m, raw) ==
    LET r == NormalizeResult(raw)
    IN  [score      |-> IF r.score > m.score THEN r.score ELSE m.score,
         anonymizer |-> m.anonymizer \/ r.anonymizer,
         datacenter |-> m.datacenter \/ r.datacenter,
         country    |-> IF m.country = NoCountry THEN r.country ELSE m.country,
         purity     |-> IF PurityRiskRank(r.purity) >= PurityRiskRank(m.purity)
                          THEN r.purity ELSE m.purity]

\* Mutant of MergeStep: the first verdict stands.
MergeStepFirstStands(m, raw) ==
    [MergeStepTiesReplace(m, raw) EXCEPT
        !.purity = IF m.purity = "unknown" THEN NormalizeResult(raw).purity ELSE m.purity]

\* Mutant of MergeStep: the last verdict stands.
MergeStepLastStands(m, raw) ==
    [MergeStepTiesReplace(m, raw) EXCEPT !.purity = NormalizeResult(raw).purity]

\* One iteration of the loop of Merge: NormalizeResult, then each field.
MergeStep(m, raw) ==
    LET r == NormalizeResult(raw)
    IN  [score      |-> IF r.score > m.score THEN r.score ELSE m.score,
         anonymizer |-> m.anonymizer \/ r.anonymizer,
         datacenter |-> m.datacenter \/ r.datacenter,
         country    |-> IF m.country = NoCountry THEN r.country ELSE m.country,
         purity     |-> IF PurityRiskRank(r.purity) > PurityRiskRank(m.purity)
                          THEN r.purity ELSE m.purity]

\* Mutant of MergeReturn: the verdict is always inferred from the signals.
MergeReturnInferred(m, count) ==
    IF count > 0 THEN [m EXCEPT !.purity = PurityFromSignals(m)] ELSE m

\* What Merge returns after the loop: early for no report, else with the
\* verdict inferred from the merged signals when it is still "unknown".
MergeReturn(m, count) ==
    IF count > 0 /\ m.purity = "unknown"
      THEN [m EXCEPT !.purity = PurityFromSignals(m)] ELSE m

Receive(raw) ==
    /\ Len(evidence) < MaxReports
    /\ evidence' = Append(evidence, raw)
    /\ merged' = MergeStep(merged, raw)

Next == \E raw \in Reports : Receive(raw)

Spec == Init /\ [][Next]_vars

verdict == MergeReturn(merged, Len(evidence))

-----------------------------------------------------------------------------
\* Every field has its type; the returned verdict is one of the five.
TypeOK ==
    /\ evidence \in Seq(Reports)
    /\ merged \in [score: 0..100, anonymizer: BOOLEAN, datacenter: BOOLEAN,
                   purity: Verdicts, country: Countries]
    /\ verdict.purity \in Verdicts

\* The loop of Merge (provider.go 111-144) computes the declarative Merge,
\* whatever the reports and their order.
LoopComputesMerge == verdict = Merge(evidence)

\* Reports appended late by the retry phase come in completion order.  Apart
\* from the country, the verdict does not depend on that order.
Reversed == [i \in DOMAIN evidence |-> evidence[Len(evidence) + 1 - i]]
OrderIrrelevant ==
    LET back == Merge(Reversed)
    IN  <<back.score, back.purity>> = <<verdict.score, verdict.purity>>

\* A report that carries risk is never outvoted: the merged verdict is at
\* least as risky as every report's own (the riskiest purity is kept).
NoReportOutvoted ==
    \A i \in DOMAIN evidence :
        PurityRiskRank(NormalizeResult(evidence[i]).purity) <= PurityRiskRank(verdict.purity)

\* ARCHITECTURE.md, Purity Classification: an address is "clean" when there
\* is no VPN/proxy/Tor signal, the score is below 50 and it is no datacenter.
CleanCriteria ==
    verdict.purity = "clean" =>
        ~verdict.anonymizer /\ ~verdict.datacenter /\ verdict.score < 50

\* The evidence leaves every verdict to PurityFromSignals.
Inferred == \A i \in DOMAIN evidence : evidence[i].purity = NoVerdict

\* As long as no provider states a verdict of its own, the merged verdict
\* keeps to the documented meaning of "clean".
InferredCleanCriteria == Inferred => CleanCriteria

\* More evidence never makes an address look less risky, as long as no
\* provider states a verdict of its own.
RiskNeverFalls ==
    [][Inferred' /\ evidence # <<>> =>
          PurityRiskRank(verdict'.purity) >= PurityRiskRank(verdict.purity)]_vars
=============================================================================
