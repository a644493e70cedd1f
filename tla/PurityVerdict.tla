---------------------------- MODULE PurityVerdict ----------------------------
(***************************************************************************)
(* The verdict PureLink gives about an address, from what the intelligence *)
(* providers report: pkg/abuse/provider.go.                                *)
(*                                                                         *)
(* A report keeps what the verdict reads.  The three flags IsVPN, IsProxy  *)
(* and IsTor are one field, anonymizer, since the code only ever reads     *)
(* their disjunction; confidence, categories and raw data are left out,    *)
(* since no verdict, filter or export depends on them.  purity is the      *)
(* verdict the provider stated itself, NoVerdict when none; a provider     *)
(* may also state a word that is none of the five verdicts ("other").      *)
(***************************************************************************)
EXTENDS Integers, Sequences

Verdicts == {"vpn_detected", "vpn_likely", "suspicious", "clean", "unknown"}

NoVerdict == ""
NoCountry == ""

Stated == Verdicts \cup {NoVerdict, "other"}

\* What Check returns, before it is normalised.
Report(Countries) ==
    [score: Int, anonymizer: BOOLEAN, datacenter: BOOLEAN,
     purity: Stated, country: Countries]

\* purityRiskRank.
PurityRiskRank(purity) ==
    CASE purity = "vpn_detected" -> 5
      [] purity = "vpn_likely"   -> 4
      [] purity = "suspicious"   -> 3
      [] purity = "clean"        -> 1
      [] OTHER                   -> 0

\* Mutant of PurityFromSignals: a low score is clean, whatever the network.
PurityIgnoringDatacenter(r) ==
    CASE r.anonymizer /\ r.score >= 70         -> "vpn_detected"
      [] r.anonymizer /\ r.score < 70          -> "vpn_likely"
      [] ~r.anonymizer /\ r.score >= 50        -> "suspicious"
      [] OTHER                                 -> "clean"

\* PurityFromSignals: the verdict of a report that states none.
PurityFromSignals(r) ==
    CASE r.anonymizer /\ r.score >= 70                      -> "vpn_detected"
      [] r.anonymizer /\ r.score < 70                       -> "vpn_likely"
      [] ~r.anonymizer /\ (r.datacenter \/ r.score >= 50)   -> "suspicious"
      [] ~r.anonymizer /\ ~r.datacenter /\ r.score = 0      -> "clean"
      [] OTHER                                              -> "unknown"

\* Mutant of Clamped: only negative scores are corrected.
ClampedBelow(score) == IF score < 0 THEN 0 ELSE score

Clamped(score) == IF score < 0 THEN 0 ELSE IF score > 100 THEN 100 ELSE score

\* NormalizeResult: the score is clamped, then a missing verdict is inferred.
NormalizeResult(r) ==
    LET clamped == [r EXCEPT !.score = Clamped(r.score)]
    IN  IF r.purity = NoVerdict
          THEN [clamped EXCEPT !.purity = PurityFromSignals(clamped)]
          ELSE clamped

\* The greatest member of a non-empty bounded set of integers.
Highest(S) == CHOOSE m \in S : \A n \in S : n <= m

\* The first report, in the order they were appended, that names a country.
FirstCountry(results) ==
    LET named == {i \in DOMAIN results : results[i].country # NoCountry}
    IN  IF named = {} THEN NoCountry
        ELSE results[CHOOSE i \in named : \A j \in named : i <= j].country

\* Merge: the highest score, the union of the signals, the riskiest verdict
\* that a report carries.  Only when no report carries a ranked verdict is one
\* inferred from the merged signals; with no report at all it stays "unknown".
Merge(results) ==
    LET reports == {NormalizeResult(results[i]) : i \in DOMAIN results}
        signals == [score      |-> Highest({0} \cup {r.score : r \in reports}),
                    anonymizer |-> \E r \in reports : r.anonymizer,
                    datacenter |-> \E r \in reports : r.datacenter,
                    purity     |-> "unknown",
                    country    |-> FirstCountry(results)]
        ranked  == {r \in reports : PurityRiskRank(r.purity) > 0}
        worst   == CHOOSE r \in ranked :
                     \A s \in ranked : PurityRiskRank(s.purity) <= PurityRiskRank(r.purity)
    IN  CASE results = <<>> -> signals
          [] ranked # {}    -> [signals EXCEPT !.purity = worst.purity]
          [] OTHER          -> [signals EXCEPT !.purity = PurityFromSignals(signals)]

\* riskExceeded, the threshold of --fail-on-abuse.
RiskExceeded(score, purity) ==
    score >= 50 \/ purity \in {"suspicious", "vpn_likely", "vpn_detected"}
=============================================================================
