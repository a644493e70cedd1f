------------------------- MODULE EvidenceMerge_proofs -------------------------
(***************************************************************************)
(* The loop of abuse.Merge, proved for any reports and any number of them: *)
(* what the accumulator says of the reports gone through so far is an      *)
(* inductive invariant, and with it the loop computes the declarative      *)
(* Merge, outvotes no report and keeps to the documented "clean".          *)
(***************************************************************************)
EXTENDS EvidenceMerge, ProviderReports, BatchItems_proofs

Normal(i) == NormalizeResult(evidence[i])

AccumulatorType ==
    /\ evidence \in Seq(Reports)
    /\ merged \in [score: 0..100, anonymizer: BOOLEAN, datacenter: BOOLEAN,
                   purity: Verdicts, country: Countries]

\* The accumulator has the highest score of the reports, or still 0.
ScoreInv ==
    /\ \A i \in DOMAIN evidence : Normal(i).score <= merged.score
    /\ merged.score = 0 \/ \E i \in DOMAIN evidence : Normal(i).score = merged.score

SignalInv ==
    /\ merged.anonymizer = (\E i \in DOMAIN evidence : Normal(i).anonymizer)
    /\ merged.datacenter = (\E i \in DOMAIN evidence : Normal(i).datacenter)

\* It has the riskiest verdict that a report carries, or still "unknown".
PurityInv ==
    /\ \A i \in DOMAIN evidence :
          PurityRiskRank(Normal(i).purity) <= PurityRiskRank(merged.purity)
    /\ merged.purity # "unknown" => \E i \in DOMAIN evidence : Normal(i).purity = merged.purity

\* It has the first country named, or still none.
CountryInv ==
    \/ /\ merged.country = NoCountry
       /\ \A i \in DOMAIN evidence : evidence[i].country = NoCountry
    \/ /\ merged.country # NoCountry
       /\ \E i \in DOMAIN evidence :
             /\ evidence[i].country = merged.country
             /\ \A j \in DOMAIN evidence : j < i => evidence[j].country = NoCountry

LoopInv == AccumulatorType /\ ScoreInv /\ SignalInv /\ PurityInv /\ CountryInv

-----------------------------------------------------------------------------
\* The verdicts are told apart by their rank, but for those of rank 0.
LEMMA RankFacts ==
    /\ PurityRiskRank("unknown") = 0
    /\ \A p : PurityRiskRank(p) \in {0, 1, 3, 4, 5}
    /\ \A p : PurityRiskRank(p) > 0 => p \in Verdicts /\ p # "unknown"
    /\ \A p \in Verdicts : p # "unknown" => PurityRiskRank(p) > 0
    /\ \A p, q : PurityRiskRank(p) > 0 /\ PurityRiskRank(p) = PurityRiskRank(q) => p = q
    BY DEF PurityRiskRank, Verdicts

\* Before the loop there is no report and the accumulator is empty.
LEMMA LoopInvInit == Init => LoopInv
  <1> SUFFICES ASSUME Init PROVE LoopInv
    OBVIOUS
  <1>1. evidence = <<>> /\ DOMAIN evidence = {}
    BY DEF Init
  <1>2. /\ merged.score = 0 /\ merged.purity = "unknown" /\ merged.country = NoCountry
        /\ merged.anonymizer = FALSE /\ merged.datacenter = FALSE
    BY DEF Init
  <1>3. AccumulatorType
    <2>1. evidence \in Seq(Reports)
      BY <1>1, EmptySeq
    <2>2. NoCountry \in Countries
      BY DEF Countries
    <2>3. "unknown" \in Verdicts
      BY DEF Verdicts
    <2> QED BY <2>1, <2>2, <2>3 DEF Init, AccumulatorType
  <1>4. ScoreInv /\ PurityInv /\ CountryInv
    BY <1>1, <1>2 DEF ScoreInv, PurityInv, CountryInv
  <1>5. SignalInv
    BY <1>1, <1>2, Zenon DEF SignalInv
  <1> QED BY <1>3, <1>4, <1>5 DEF LoopInv

\* One more report keeps every part of the invariant.
LEMMA LoopInvReceive ==
    ASSUME LoopInv, NEW raw \in Reports, Receive(raw)
    PROVE  LoopInv'
  <1> USE DEF Receive
  <1> DEFINE r == NormalizeResult(raw)
             n == Len(evidence)
  <1>1. /\ evidence' \in Seq(Reports)
        /\ n \in Nat
        /\ DOMAIN evidence = 1..n
        /\ DOMAIN evidence' = 1..(n + 1)
        /\ \A i \in 1..n : evidence'[i] = evidence[i]
        /\ evidence'[n + 1] = raw
    BY AppendProperties, LenProperties DEF LoopInv, AccumulatorType
  <1>2. /\ raw \in Report(Countries)
        /\ r.score \in 0..100
        /\ r.purity \in Verdicts \cup {"other"}
        /\ r.country = raw.country
        /\ r.anonymizer \in BOOLEAN /\ r.datacenter \in BOOLEAN
        /\ r.country \in Countries
    BY NormalizeType, ReportsAssumption DEF Report
  <1>3. \A i \in 1..n : NormalizeResult(evidence'[i]) = Normal(i)
    BY <1>1 DEF Normal
  <1>4. NormalizeResult(evidence'[n + 1]) = r
    BY <1>1
  <1>5. /\ merged'.score = IF r.score > merged.score THEN r.score ELSE merged.score
        /\ merged'.anonymizer = (merged.anonymizer \/ r.anonymizer)
        /\ merged'.datacenter = (merged.datacenter \/ r.datacenter)
        /\ merged'.country = IF merged.country = NoCountry THEN r.country ELSE merged.country
        /\ merged'.purity = IF PurityRiskRank(r.purity) > PurityRiskRank(merged.purity)
                              THEN r.purity ELSE merged.purity
    BY DEF MergeStep
  <1>6. /\ merged.score \in 0..100 /\ merged.purity \in Verdicts
        /\ merged.anonymizer \in BOOLEAN /\ merged.datacenter \in BOOLEAN
        /\ merged.country \in Countries
    BY DEF LoopInv, AccumulatorType
  <1> HIDE DEF Receive, r, n
  <1>7. AccumulatorType'
    <2>1. merged' = MergeStep(merged, raw)
      BY DEF Receive
    <2>2. merged'.purity \in Verdicts
      BY <1>5, <1>6, RankFacts
    <2>3. merged'.score \in 0..100
      BY <1>2, <1>5, <1>6
    <2>4. merged' = [score |-> merged'.score, anonymizer |-> merged'.anonymizer,
                     datacenter |-> merged'.datacenter, country |-> merged'.country,
                     purity |-> merged'.purity]
      BY <2>1 DEF MergeStep
    <2>5. /\ merged'.anonymizer \in BOOLEAN
          /\ merged'.datacenter \in BOOLEAN
          /\ merged'.country \in Countries
      BY <1>2, <1>5, <1>6
    <2> QED BY <1>1, <2>2, <2>3, <2>4, <2>5 DEF AccumulatorType
  <1> DEFINE N(i) == NormalizeResult(evidence'[i])
  <1>a. /\ \A i \in 1..n : i \in 1..(n + 1)
        /\ n + 1 \in 1..(n + 1)
        /\ \A i \in 1..(n + 1) : i \in 1..n \/ i = n + 1
    BY <1>1
  <1>8. ScoreInv'
    <2> SUFFICES /\ \A i \in 1..(n + 1) : N(i).score <= merged'.score
                 /\ merged'.score = 0 \/ \E i \in 1..(n + 1) : N(i).score = merged'.score
      BY <1>1 DEF ScoreInv, Normal
    <2>1. \A i \in 1..n : Normal(i).score \in 0..100 /\ Normal(i).score <= merged.score
      <3>1. \A i \in 1..n : evidence[i] \in Report(Countries)
        BY <1>1, ElementOfSeq, ReportsAssumption DEF LoopInv, AccumulatorType
      <3>2. \A i \in 1..n : Normal(i).score \in 0..100
        BY <3>1, NormalizeType DEF Normal
      <3>3. \A i \in 1..n : Normal(i).score <= merged.score
        BY <1>1 DEF LoopInv, ScoreInv
      <3> QED BY <3>2, <3>3
    <2>2. merged'.score >= merged.score /\ merged'.score >= r.score /\ merged'.score \in 0..100
      BY <1>2, <1>5, <1>6
    <2>3. \A i \in 1..(n + 1) : N(i).score <= merged'.score
      <3> SUFFICES ASSUME NEW i \in 1..(n + 1) PROVE N(i).score <= merged'.score
        OBVIOUS
      <3>1. CASE i = n + 1
        BY <1>4, <2>2, <3>1
      <3>2. CASE i \in 1..n
        <4>1. N(i).score = Normal(i).score
          BY <1>3, <3>2
        <4>2. Normal(i).score \in 0..100 /\ Normal(i).score <= merged.score
          BY <2>1, <3>2
        <4>3. \A a, b, c \in 0..100 : a <= b /\ b <= c => a <= c
          OBVIOUS
        <4>4. Normal(i).score <= merged'.score
          BY <1>6, <2>2, <4>2, <4>3
        <4> QED BY <4>1, <4>4
      <3> QED BY <1>a, <3>1, <3>2
    <2>4. merged.score = 0 \/ \E i \in 1..n : Normal(i).score = merged.score
      BY <1>1 DEF LoopInv, ScoreInv
    <2>5. merged'.score = r.score \/ merged'.score = merged.score
      BY <1>5
    <2>6. merged'.score = 0 \/ \E i \in 1..(n + 1) : N(i).score = merged'.score
      BY <1>3, <1>4, <1>a, <2>4, <2>5, Zenon
    <2> QED BY <2>3, <2>6
  <1>9. SignalInv'
    <2> SUFFICES /\ merged'.anonymizer = \E i \in 1..(n + 1) : N(i).anonymizer
                 /\ merged'.datacenter = \E i \in 1..(n + 1) : N(i).datacenter
      BY <1>1, Zenon DEF SignalInv, Normal
    <2>1. /\ merged.anonymizer = \E i \in 1..n : Normal(i).anonymizer
          /\ merged.datacenter = \E i \in 1..n : Normal(i).datacenter
      BY <1>1, Zenon DEF LoopInv, SignalInv
    <2>2. (\E i \in 1..(n + 1) : N(i).anonymizer)
            <=> (\E i \in 1..n : Normal(i).anonymizer) \/ r.anonymizer
      BY <1>3, <1>4, <1>a, Zenon
    <2>3. (\E i \in 1..(n + 1) : N(i).datacenter)
            <=> (\E i \in 1..n : Normal(i).datacenter) \/ r.datacenter
      BY <1>3, <1>4, <1>a, Zenon
    <2>4. /\ merged'.anonymizer <=> \E i \in 1..(n + 1) : N(i).anonymizer
          /\ merged'.datacenter <=> \E i \in 1..(n + 1) : N(i).datacenter
      BY <1>5, <2>1, <2>2, <2>3, Zenon
    <2>5. merged'.anonymizer \in BOOLEAN /\ merged'.datacenter \in BOOLEAN
      BY <1>7 DEF AccumulatorType
    <2> QED BY <2>4, <2>5
  <1>10. PurityInv'
    <2> SUFFICES /\ \A i \in 1..(n + 1) :
                       PurityRiskRank(N(i).purity) <= PurityRiskRank(merged'.purity)
                 /\ merged'.purity # "unknown" =>
                       \E i \in 1..(n + 1) : N(i).purity = merged'.purity
      BY <1>1 DEF PurityInv, Normal
    <2>1. /\ \A i \in 1..n :
                PurityRiskRank(Normal(i).purity) <= PurityRiskRank(merged.purity)
          /\ merged.purity # "unknown" => \E i \in 1..n : Normal(i).purity = merged.purity
      BY <1>1 DEF LoopInv, PurityInv
    <2>2. /\ PurityRiskRank(merged'.purity) >= PurityRiskRank(merged.purity)
          /\ PurityRiskRank(merged'.purity) >= PurityRiskRank(r.purity)
      BY <1>5, RankFacts
    <2>3. \A i \in 1..(n + 1) :
              PurityRiskRank(N(i).purity) <= PurityRiskRank(merged'.purity)
      <3> SUFFICES ASSUME NEW i \in 1..(n + 1)
                   PROVE  PurityRiskRank(N(i).purity) <= PurityRiskRank(merged'.purity)
        OBVIOUS
      <3>1. CASE i = n + 1
        BY <1>4, <2>2, <3>1
      <3>2. CASE i \in 1..n
        BY <1>3, <2>1, <2>2, <3>2, RankFacts
      <3> QED BY <1>a, <3>1, <3>2
    <2>4. merged'.purity = merged.purity \/ merged'.purity = r.purity
      BY <1>5
    <2>5. merged'.purity # "unknown" => \E i \in 1..(n + 1) : N(i).purity = merged'.purity
      BY <1>3, <1>4, <1>a, <2>1, <2>4, Zenon
    <2> QED BY <2>3, <2>5
  <1>11. CountryInv'
    <2>1. CASE merged.country = NoCountry
      BY <1>1, <1>2, <1>5, <2>1 DEF LoopInv, CountryInv
    <2>2. CASE merged.country # NoCountry
      BY <1>1, <1>5, <2>2 DEF LoopInv, CountryInv
    <2> QED BY <2>1, <2>2
  <1> QED BY <1>7, <1>8, <1>9, <1>10, <1>11 DEF LoopInv

\* The accumulator describes the reports received, always.
THEOREM LoopInvariant == Spec => []LoopInv
  <1>1. LoopInv /\ [Next]_vars => LoopInv'
    <2> SUFFICES ASSUME LoopInv, [Next]_vars PROVE LoopInv'
      OBVIOUS
    <2>1. CASE Next
      BY <2>1, LoopInvReceive DEF Next
    <2>2. CASE UNCHANGED vars
      BY <2>2 DEF vars, LoopInv, AccumulatorType, ScoreInv, SignalInv, PurityInv,
                  CountryInv, Normal
    <2> QED BY <2>1, <2>2
  <1> QED BY <1>1, LoopInvInit, PTL DEF Spec

-----------------------------------------------------------------------------
\* The accumulator is what Merge says of the reports: the parts of LoopInv
\* leave no other choice.
LEMMA LoopInvMerge == LoopInv => LoopComputesMerge
  <1> SUFFICES ASSUME LoopInv PROVE verdict = Merge(evidence)
    BY DEF LoopComputesMerge
  <1> DEFINE reports == {NormalizeResult(evidence[i]) : i \in DOMAIN evidence}
             signals == [score      |-> Highest({0} \cup {r.score : r \in reports}),
                         anonymizer |-> \E r \in reports : r.anonymizer,
                         datacenter |-> \E r \in reports : r.datacenter,
                         purity     |-> "unknown",
                         country    |-> FirstCountry(evidence)]
             ranked  == {r \in reports : PurityRiskRank(r.purity) > 0}
             worst   == CHOOSE r \in ranked :
                          \A s \in ranked : PurityRiskRank(s.purity) <= PurityRiskRank(r.purity)
  <1>1. /\ evidence \in Seq(Reports)
        /\ DOMAIN evidence = 1..Len(evidence) /\ Len(evidence) \in Nat
        /\ \A i \in DOMAIN evidence : evidence[i] \in Report(Countries)
    BY LenProperties, ElementOfSeq, ReportsAssumption DEF LoopInv, AccumulatorType
  <1>2. /\ merged.score \in 0..100 /\ merged.purity \in Verdicts
        /\ merged = [score |-> merged.score, anonymizer |-> merged.anonymizer,
                     datacenter |-> merged.datacenter, purity |-> merged.purity,
                     country |-> merged.country]
    BY DEF LoopInv, AccumulatorType
  <1>3. signals.score = merged.score
    <2> DEFINE S == {0} \cup {r.score : r \in reports}
    <2>1. \A r \in reports : r.score \in 0..100 /\ r.score <= merged.score
      BY <1>1, NormalizeType DEF LoopInv, ScoreInv, Normal
    <2>2. merged.score = 0 \/ \E r \in reports : r.score = merged.score
      BY DEF LoopInv, ScoreInv, Normal
    <2> HIDE DEF reports
    <2>3. \A n \in S : n \in Int /\ n <= merged.score
      BY <1>2, <2>1
    <2>4. merged.score \in S
      BY <2>2
    <2> HIDE DEF S
    <2>5. Highest(S) = merged.score
      BY <2>3, <2>4, HighestIs
    <2> QED BY <2>5 DEF S
  <1>4. signals.anonymizer = merged.anonymizer /\ signals.datacenter = merged.datacenter
    BY Zenon DEF LoopInv, SignalInv, Normal
  <1>5. signals.country = merged.country
    <2> DEFINE named == {i \in DOMAIN evidence : evidence[i].country # NoCountry}
    <2>1. CASE named = {}
      BY <2>1 DEF LoopInv, CountryInv, FirstCountry
    <2>2. CASE named # {}
      <3>1. PICK i \in named : /\ evidence[i].country = merged.country
                               /\ \A j \in DOMAIN evidence :
                                    j < i => evidence[j].country = NoCountry
        BY <2>2 DEF LoopInv, CountryInv
      <3>2. \A j \in named : i <= j
        BY <1>1, <3>1
      <3>3. \A k \in named : (\A j \in named : k <= j) => k = i
        BY <1>1, <3>2
      <3>4. (CHOOSE k \in named : \A j \in named : k <= j) = i
        BY <3>2, <3>3
      <3> QED BY <2>2, <3>1, <3>4 DEF FirstCountry
    <2> QED BY <2>1, <2>2
  <1>6. signals = [merged EXCEPT !.purity = "unknown"]
    <2>1. [merged EXCEPT !.purity = "unknown"] =
             [score |-> merged.score, anonymizer |-> merged.anonymizer,
              datacenter |-> merged.datacenter, purity |-> "unknown",
              country |-> merged.country]
      BY <1>2
    <2>2. signals = [score |-> signals.score, anonymizer |-> signals.anonymizer,
                     datacenter |-> signals.datacenter, purity |-> "unknown",
                     country |-> signals.country]
      BY Zenon
    <2> HIDE DEF signals
    <2> QED BY <2>1, <2>2, <1>3, <1>4, <1>5
  <1>7. CASE evidence = <<>>
    <2>1. merged.purity = "unknown"
      BY <1>7, <1>1 DEF LoopInv, PurityInv
    <2>2. Len(evidence) = 0
      BY <1>7
    <2>3. verdict = merged
      BY <2>2 DEF verdict, MergeReturn
    <2>4. Merge(evidence) = signals
      BY <1>7 DEF Merge
    <2>5. merged = [merged EXCEPT !.purity = "unknown"]
      BY <2>1, <1>2
    <2> HIDE DEF signals
    <2> QED BY <1>6, <2>3, <2>4, <2>5
  <1>8. CASE evidence # <<>> /\ merged.purity # "unknown"
    <2>1. PICK i \in DOMAIN evidence : Normal(i).purity = merged.purity
      BY <1>8 DEF LoopInv, PurityInv
    <2>2. Normal(i) \in ranked
      BY <1>2, <1>8, <2>1, RankFacts DEF Normal
    <2>3. \A r \in ranked : PurityRiskRank(r.purity) <= PurityRiskRank(merged.purity)
      BY DEF LoopInv, PurityInv, Normal
    <2> HIDE DEF ranked, reports
    <2>4. worst \in ranked /\ PurityRiskRank(merged.purity) <= PurityRiskRank(worst.purity)
      BY <2>1, <2>2, <2>3
    <2>5. PurityRiskRank(worst.purity) = PurityRiskRank(merged.purity)
      BY <2>3, <2>4, RankFacts
    <2>6. worst.purity = merged.purity
      BY <1>2, <1>8, <2>5, RankFacts
    <2>7. Merge(evidence) = [signals EXCEPT !.purity = worst.purity]
      BY <1>8, <2>2 DEF Merge, ranked, reports
    <2>8. verdict = merged
      BY <1>8 DEF verdict, MergeReturn
    <2> HIDE DEF signals, worst
    <2>9. [[merged EXCEPT !.purity = "unknown"] EXCEPT !.purity = merged.purity] = merged
      BY <1>2
    <2> QED BY <1>6, <2>6, <2>7, <2>8, <2>9
  <1>9. CASE evidence # <<>> /\ merged.purity = "unknown"
    <2>1. ranked = {}
      BY <1>9, RankFacts DEF LoopInv, PurityInv, Normal
    <2>2. Merge(evidence) = [signals EXCEPT !.purity = PurityFromSignals(signals)]
      BY <1>9, <2>1 DEF Merge
    <2>3. Len(evidence) > 0
      BY <1>1, <1>9, EmptySeq
    <2>4. verdict = [merged EXCEPT !.purity = PurityFromSignals(merged)]
      BY <1>9, <2>3 DEF verdict, MergeReturn
    <2>5. merged = [merged EXCEPT !.purity = "unknown"]
      BY <1>2, <1>9
    <2> HIDE DEF signals, ranked
    <2>6. signals = merged
      BY <1>6, <2>5
    <2> QED BY <2>2, <2>4, <2>6
  <1> QED BY <1>7, <1>8, <1>9

\* Every variable has its type, for any reports.
THEOREM EvidenceTypes == Spec => []TypeOK
  <1>1. LoopInv => TypeOK
    <2> SUFFICES ASSUME LoopInv PROVE verdict.purity \in Verdicts
      BY DEF LoopInv, AccumulatorType, TypeOK
    <2>1. merged.purity \in Verdicts /\ PurityFromSignals(merged) \in Verdicts
      BY SignalsType DEF LoopInv, AccumulatorType
    <2>2. [merged EXCEPT !.purity = PurityFromSignals(merged)].purity
             = PurityFromSignals(merged)
      BY DEF LoopInv, AccumulatorType
    <2> QED BY <2>1, <2>2 DEF verdict, MergeReturn
  <1> QED BY <1>1, LoopInvariant, PTL

\* abuse.Merge is the declarative Merge, for any reports in any number.
THEOREM LoopIsMerge == Spec => []LoopComputesMerge
  BY LoopInvMerge, LoopInvariant, PTL

\* No report is outvoted by others, for any reports in any number.
THEOREM NobodyOutvoted == Spec => []NoReportOutvoted
  <1>1. LoopInv => NoReportOutvoted
    <2> SUFFICES ASSUME LoopInv, NEW i \in DOMAIN evidence
                 PROVE  PurityRiskRank(Normal(i).purity) <= PurityRiskRank(verdict.purity)
      BY DEF NoReportOutvoted, Normal
    <2>1. PurityRiskRank(Normal(i).purity) <= PurityRiskRank(merged.purity)
      BY DEF LoopInv, PurityInv
    <2>2. CASE merged.purity # "unknown"
      BY <2>1, <2>2 DEF verdict, MergeReturn
    <2>3. CASE merged.purity = "unknown"
      BY <2>1, <2>3, RankFacts
    <2> QED BY <2>2, <2>3
  <1> QED BY <1>1, LoopInvariant, PTL

\* What the verdict of a report with a risky signal is.
LEMMA RiskySignals ==
    ASSUME NEW r, r.anonymizer \in BOOLEAN, r.datacenter \in BOOLEAN, r.score \in Int
    PROVE  /\ r.anonymizer => PurityFromSignals(r) \in {"vpn_detected", "vpn_likely"}
           /\ ~r.anonymizer /\ (r.datacenter \/ r.score >= 50)
                => PurityFromSignals(r) = "suspicious"
  <1>1. CASE r.anonymizer /\ r.score >= 70
    BY <1>1, ~(r.score < 70) DEF PurityFromSignals
  <1>2. CASE r.anonymizer /\ ~(r.score >= 70)
    <2>1. r.score < 70
      BY <1>2
    <2> QED BY <1>2, <2>1 DEF PurityFromSignals
  <1>3. CASE ~r.anonymizer /\ (r.datacenter \/ r.score >= 50)
    BY <1>3 DEF PurityFromSignals
  <1>4. CASE ~r.anonymizer /\ ~(r.datacenter \/ r.score >= 50)
    BY <1>4
  <1> QED BY <1>1, <1>2, <1>3, <1>4

\* Signals that give no verdict riskier than "clean" are not risky.
LEMMA HarmlessSignals ==
    ASSUME NEW r, r.anonymizer \in BOOLEAN, r.datacenter \in BOOLEAN, r.score \in Int,
           PurityRiskRank(PurityFromSignals(r)) <= 1
    PROVE  ~r.anonymizer /\ ~r.datacenter /\ r.score < 50
  <1>1. /\ PurityRiskRank("vpn_detected") = 5
        /\ PurityRiskRank("vpn_likely") = 4
        /\ PurityRiskRank("suspicious") = 3
    BY DEF PurityRiskRank
  <1>2. ~r.anonymizer
    <2>1. PurityFromSignals(r) \notin {"vpn_detected", "vpn_likely"}
      BY <1>1
    <2> QED BY <2>1, RiskySignals
  <1>3. ~(r.datacenter \/ r.score >= 50)
    <2>1. PurityFromSignals(r) # "suspicious"
      BY <1>1
    <2> QED BY <1>2, <2>1, RiskySignals
  <1>4. r.score < 50
    BY <1>3
  <1> QED BY <1>2, <1>3, <1>4

\* A report with a risky signal that leaves the verdict to its signals gets a
\* verdict riskier than "clean".
LEMMA InferredRisk ==
    ASSUME NEW r \in Report(Countries), r.purity = NoVerdict,
           PurityRiskRank(NormalizeResult(r).purity) <= 1
    PROVE  /\ ~NormalizeResult(r).anonymizer
           /\ ~NormalizeResult(r).datacenter
           /\ NormalizeResult(r).score < 50
  <1> DEFINE c == [r EXCEPT !.score = Clamped(r.score)]
             n == NormalizeResult(r)
  <1>1. n = [c EXCEPT !.purity = PurityFromSignals(c)]
    BY DEF NormalizeResult
  <1>2. c \in Report(Countries)
    <2>1. r.score \in Int
      BY DEF Report
    <2>2. Clamped(r.score) \in Int
      BY <2>1 DEF Clamped
    <2> QED BY <2>2 DEF Report
  <1> HIDE DEF c
  <1>3. c.anonymizer \in BOOLEAN /\ c.datacenter \in BOOLEAN /\ c.score \in Int
    BY <1>2 DEF Report
  <1>4. /\ n.anonymizer = c.anonymizer /\ n.datacenter = c.datacenter
        /\ n.score = c.score /\ n.purity = PurityFromSignals(c)
    BY <1>1, <1>2 DEF Report
  <1>5. ~c.anonymizer /\ ~c.datacenter /\ c.score < 50
    <2>1. PurityRiskRank(PurityFromSignals(c)) <= 1
      BY <1>4
    <2> HIDE DEF n
    <2> QED BY <1>3, <2>1, HarmlessSignals
  <1> QED BY <1>4, <1>5

\* As long as the providers leave the verdict to their signals, "clean" means
\* what ARCHITECTURE.md says: no anonymizer, no datacenter, a score below 50.
THEOREM CleanMeansClean == Spec => []InferredCleanCriteria
  <1>1. LoopInv => InferredCleanCriteria
    <2> SUFFICES ASSUME LoopInv, Inferred, verdict.purity = "clean"
                 PROVE  ~verdict.anonymizer /\ ~verdict.datacenter /\ verdict.score < 50
      BY DEF InferredCleanCriteria, CleanCriteria
    <2>1. /\ merged.score \in 0..100
          /\ merged.anonymizer \in BOOLEAN /\ merged.datacenter \in BOOLEAN
          /\ merged \in [score: 0..100, anonymizer: BOOLEAN, datacenter: BOOLEAN,
                         purity: Verdicts, country: Countries]
      BY DEF LoopInv, AccumulatorType
    <2>2. CASE merged.purity = "unknown"
      <3>1. verdict = [merged EXCEPT !.purity = PurityFromSignals(merged)]
        BY <2>2 DEF verdict, MergeReturn
      <3>2. /\ verdict.purity = PurityFromSignals(merged)
            /\ verdict.anonymizer = merged.anonymizer
            /\ verdict.datacenter = merged.datacenter
            /\ verdict.score = merged.score
        BY <2>1, <3>1
      <3>3. ~merged.anonymizer /\ ~merged.datacenter /\ merged.score = 0
        BY <2>1, <3>2 DEF PurityFromSignals
      <3> QED BY <3>2, <3>3
    <2>3. CASE merged.purity # "unknown"
      <3>1. verdict = merged /\ merged.purity = "clean"
        BY <2>3 DEF verdict, MergeReturn
      <3>2. \A i \in DOMAIN evidence :
                /\ PurityRiskRank(Normal(i).purity) <= 1
                /\ evidence[i] \in Report(Countries)
                /\ evidence[i].purity = NoVerdict
        <4>1. PurityRiskRank("clean") = 1
          BY DEF PurityRiskRank
        <4> QED BY <3>1, <4>1, LenProperties, ElementOfSeq, ReportsAssumption
                DEF LoopInv, AccumulatorType, PurityInv, Inferred
      <3>3. \A i \in DOMAIN evidence :
                ~Normal(i).anonymizer /\ ~Normal(i).datacenter /\ Normal(i).score < 50
        BY <3>2, InferredRisk DEF Normal
      <3>4. merged.score < 50
        BY <3>3 DEF LoopInv, ScoreInv
      <3>5. ~merged.anonymizer /\ ~merged.datacenter
        BY <3>3, Zenon DEF LoopInv, SignalInv
      <3> QED BY <3>1, <3>4, <3>5
    <2> QED BY <2>2, <2>3
  <1> QED BY <1>1, LoopInvariant, PTL

\* Merge of some reports, by the set of what they are normalised to.
MergeOfSet(reports, country) ==
    LET signals == [score      |-> Highest({0} \cup {r.score : r \in reports}),
                    anonymizer |-> \E r \in reports : r.anonymizer,
                    datacenter |-> \E r \in reports : r.datacenter,
                    purity     |-> "unknown",
                    country    |-> country]
        ranked  == {r \in reports : PurityRiskRank(r.purity) > 0}
        worst   == CHOOSE r \in ranked :
                     \A s \in ranked : PurityRiskRank(s.purity) <= PurityRiskRank(r.purity)
    IN  IF ranked # {} THEN [signals EXCEPT !.purity = worst.purity]
        ELSE [signals EXCEPT !.purity = PurityFromSignals(signals)]

LEMMA MergeBySet ==
    ASSUME NEW s, s # <<>>
    PROVE  Merge(s) = MergeOfSet({NormalizeResult(s[i]) : i \in DOMAIN s}, FirstCountry(s))
  <1> DEFINE reports == {NormalizeResult(s[i]) : i \in DOMAIN s}
             ranked  == {r \in reports : PurityRiskRank(r.purity) > 0}
  <1>1. CASE ranked # {}
    BY <1>1 DEF Merge, MergeOfSet
  <1>2. CASE ranked = {}
    BY <1>2 DEF Merge, MergeOfSet
  <1> QED BY <1>1, <1>2

\* Score and verdict do not depend on the country.
LEMMA CountryIrrelevant ==
    ASSUME NEW reports, NEW c, NEW d
    PROVE  /\ MergeOfSet(reports, c).score = MergeOfSet(reports, d).score
           /\ MergeOfSet(reports, c).purity = MergeOfSet(reports, d).purity
  <1> DEFINE score  == Highest({0} \cup {r.score : r \in reports})
             anon   == \E r \in reports : r.anonymizer
             data   == \E r \in reports : r.datacenter
             ranked == {r \in reports : PurityRiskRank(r.purity) > 0}
             worst  == CHOOSE r \in ranked :
                         \A s \in ranked : PurityRiskRank(s.purity) <= PurityRiskRank(r.purity)
             SignalsWith(country) ==
                 [score |-> score, anonymizer |-> anon, datacenter |-> data,
                  purity |-> "unknown", country |-> country]
  <1>1. \A x : MergeOfSet(reports, x) =
            IF ranked # {} THEN [SignalsWith(x) EXCEPT !.purity = worst.purity]
            ELSE [SignalsWith(x) EXCEPT !.purity = PurityFromSignals(SignalsWith(x))]
    BY DEF MergeOfSet
  <1> HIDE DEF score, anon, data, ranked, worst
  <1>2. PurityFromSignals(SignalsWith(c)) = PurityFromSignals(SignalsWith(d))
    BY DEF PurityFromSignals
  <1>3. ASSUME NEW x
        PROVE  /\ MergeOfSet(reports, x).score = score
               /\ MergeOfSet(reports, x).purity =
                      IF ranked # {} THEN worst.purity ELSE PurityFromSignals(SignalsWith(x))
    <2> DEFINE purity == IF ranked # {} THEN worst.purity ELSE PurityFromSignals(SignalsWith(x))
    <2>1. MergeOfSet(reports, x) = [SignalsWith(x) EXCEPT !.purity = purity]
      BY <1>1
    <2> HIDE DEF purity
    <2>2. /\ MergeOfSet(reports, x).score = score
          /\ MergeOfSet(reports, x).purity = purity
      BY <2>1
    <2> QED BY <2>2 DEF purity
  <1>4. CASE ranked # {}
    BY <1>3, <1>4
  <1>5. CASE ranked = {}
    BY <1>2, <1>3, <1>5
  <1> QED BY <1>4, <1>5

\* Apart from the country, Merge reads only which reports there are.
LEMMA MergeOfSameReports ==
    ASSUME NEW a, NEW b, a # <<>>, b # <<>>,
           {NormalizeResult(a[i]) : i \in DOMAIN a} = {NormalizeResult(b[i]) : i \in DOMAIN b}
    PROVE  <<Merge(a).score, Merge(a).purity>> = <<Merge(b).score, Merge(b).purity>>
  <1> DEFINE reports == {NormalizeResult(a[i]) : i \in DOMAIN a}
  <1>1. Merge(a) = MergeOfSet(reports, FirstCountry(a)) /\ Merge(b) = MergeOfSet(reports, FirstCountry(b))
    BY MergeBySet
  <1> HIDE DEF reports
  <1> QED BY <1>1, CountryIrrelevant

\* Apart from the country, the verdict is the same in reverse order.
THEOREM OrderDoesNotMatter == Spec => []OrderIrrelevant
  <1>1. LoopInv => OrderIrrelevant
    <2> SUFFICES ASSUME LoopInv PROVE OrderIrrelevant
      OBVIOUS
    <2>1. verdict = Merge(evidence)
      BY LoopInvMerge DEF LoopComputesMerge
    <2>2. evidence \in Seq(Reports) /\ Len(evidence) \in Nat /\ DOMAIN evidence = 1..Len(evidence)
      BY LenProperties DEF LoopInv, AccumulatorType
    <2> DEFINE n == Len(evidence)
    <2>3. \A i \in 1..n : n + 1 - i \in 1..n /\ n + 1 - (n + 1 - i) = i
      BY <2>2
    <2>4. DOMAIN Reversed = 1..n /\ \A i \in 1..n : Reversed[i] = evidence[n + 1 - i]
      BY <2>2 DEF Reversed
    <2>5. Reversed \in Seq(Reports) /\ Len(Reversed) = n
      <3>1. \A i \in 1..n : evidence[n + 1 - i] \in Reports
        BY <2>2, <2>3, ElementOfSeq
      <3>2. Reversed \in [1..n -> Reports]
        BY <2>2, <3>1 DEF Reversed
      <3> QED BY <2>2, <3>2, SeqDef, LenProperties
    <2>6. {NormalizeResult(evidence[i]) : i \in DOMAIN evidence}
            = {NormalizeResult(Reversed[i]) : i \in DOMAIN Reversed}
      <3> HIDE DEF n
      <3>1. \A i \in 1..n : \E j \in 1..n : evidence[i] = Reversed[j]
        BY <2>3, <2>4
      <3>2. \A j \in 1..n : \E i \in 1..n : Reversed[j] = evidence[i]
        BY <2>3, <2>4
      <3> QED BY <2>2, <2>4, <3>1, <3>2 DEF n
    <2>7. CASE evidence = <<>>
      <3>1. Reversed = evidence
        <4>1. n = 0
          BY <2>7
        <4> QED BY <2>5, <2>7, <4>1, EmptySeq
      <3> QED BY <2>1, <3>1 DEF OrderIrrelevant
    <2>8. CASE evidence # <<>>
      <3>1. Reversed # <<>>
        BY <2>2, <2>5, <2>8, EmptySeq
      <3> QED BY <2>1, <2>2, <2>5, <2>6, <2>8, <3>1, MergeOfSameReports DEF OrderIrrelevant
    <2> QED BY <2>7, <2>8
  <1> QED BY <1>1, LoopInvariant, PTL

\* Of reports that leave the verdict to their signals, the merge of those whose
\* own verdict is "unknown" is "unknown" too.
LEMMA UnknownStaysUnknown ==
    ASSUME LoopInv, Inferred, evidence # <<>>, merged.purity = "unknown"
    PROVE  PurityFromSignals(merged) = "unknown"
  <1>1. /\ evidence \in Seq(Reports) /\ Len(evidence) \in Nat /\ DOMAIN evidence = 1..Len(evidence)
        /\ \A i \in DOMAIN evidence : evidence[i] \in Report(Countries)
    BY LenProperties, ElementOfSeq, ReportsAssumption DEF LoopInv, AccumulatorType
  <1>2. \A i \in DOMAIN evidence : PurityRiskRank(Normal(i).purity) <= 0
    BY RankFacts DEF LoopInv, PurityInv
  <1>3. ASSUME NEW i \in DOMAIN evidence
        PROVE  /\ ~Normal(i).anonymizer /\ ~Normal(i).datacenter /\ Normal(i).score < 50
               /\ Normal(i).score \in 0..100 /\ Normal(i).score # 0
    <2>1. evidence[i] \in Report(Countries) /\ evidence[i].purity = NoVerdict
      BY <1>1 DEF Inferred
    <2>2. PurityRiskRank(Normal(i).purity) <= 1
      BY <1>2, RankFacts
    <2>3. ~Normal(i).anonymizer /\ ~Normal(i).datacenter /\ Normal(i).score < 50
      BY <2>1, <2>2, InferredRisk DEF Normal
    <2>4. Normal(i).score \in 0..100
      BY <2>1, NormalizeType DEF Normal
    <2>5. Normal(i).score # 0
      <3> DEFINE c == [evidence[i] EXCEPT !.score = Clamped(evidence[i].score)]
      <3>1. Normal(i) = [c EXCEPT !.purity = PurityFromSignals(c)]
        BY <2>1 DEF Normal, NormalizeResult
      <3>2. /\ Normal(i).purity = PurityFromSignals(c) /\ Normal(i).score = c.score
            /\ Normal(i).anonymizer = c.anonymizer /\ Normal(i).datacenter = c.datacenter
        BY <2>1, <3>1 DEF Report
      <3> HIDE DEF c
      <3>3. SUFFICES ASSUME c.score = 0 PROVE FALSE
        BY <3>2
      <3>4. PurityFromSignals(c) = "clean"
        BY <2>3, <3>2, <3>3 DEF PurityFromSignals
      <3>5. PurityRiskRank("clean") = 1
        BY DEF PurityRiskRank
      <3> QED BY <1>2, <3>2, <3>4, <3>5
    <2> QED BY <2>3, <2>4, <2>5
  <1>4. 1 \in DOMAIN evidence
    BY <1>1, EmptySeq
  <1>5. merged.score # 0 /\ merged.score < 50 /\ merged.score \in 0..100
    <2>1. merged.score \in 0..100
      BY DEF LoopInv, AccumulatorType
    <2>2. Normal(1).score \in 0..100 /\ Normal(1).score # 0 /\ Normal(1).score <= merged.score
      BY <1>3, <1>4 DEF LoopInv, ScoreInv
    <2>3. merged.score # 0
      <3>1. \A m, n \in 0..100 : m # 0 /\ m <= n => n # 0
        OBVIOUS
      <3> QED BY <2>1, <2>2, <3>1
    <2>4. PICK i \in DOMAIN evidence : Normal(i).score = merged.score
      BY <2>3 DEF LoopInv, ScoreInv
    <2>5. merged.score < 50
      BY <1>3, <2>4
    <2> QED BY <2>1, <2>3, <2>5
  <1>6. ~merged.anonymizer /\ ~merged.datacenter
    <2>1. \A i \in DOMAIN evidence : ~Normal(i).anonymizer /\ ~Normal(i).datacenter
      BY <1>3
    <2> QED BY <2>1, Zenon DEF LoopInv, SignalInv
  <1>7. merged.score < 50 /\ ~(merged.score = 0) /\ ~(merged.score >= 50)
    <2>1. \A n \in 0..100 : n # 0 /\ n < 50 => n < 50 /\ ~(n = 0) /\ ~(n >= 50)
      OBVIOUS
    <2> QED BY <1>5, <2>1
  <1> QED BY <1>6, <1>7 DEF PurityFromSignals

\* One more report, late or not, never makes an address look less risky, as
\* long as the providers leave the verdict to their signals.
THEOREM EvidenceOnlyAddsRisk == Spec => RiskNeverFalls
  <1>1. ASSUME LoopInv, LoopInv', [Next]_vars, Inferred', evidence # <<>>
        PROVE  PurityRiskRank(verdict'.purity) >= PurityRiskRank(verdict.purity)
    <2>1. CASE UNCHANGED vars
      <3>1. verdict' = verdict
        BY <2>1 DEF vars, verdict
      <3>2. PurityRiskRank(verdict.purity) \in {0, 1, 3, 4, 5}
        BY RankFacts
      <3> QED BY <3>1, <3>2
    <2>2. ASSUME NEW raw \in Reports, Receive(raw)
          PROVE  PurityRiskRank(verdict'.purity) >= PurityRiskRank(verdict.purity)
      <3>1. /\ evidence \in Seq(Reports) /\ evidence' = Append(evidence, raw)
            /\ merged' = MergeStep(merged, raw)
            /\ merged.purity \in Verdicts /\ merged'.purity \in Verdicts
        BY <1>1, <2>2 DEF Receive, LoopInv, AccumulatorType
      <3>2. Inferred
        <4>1. \A i \in DOMAIN evidence : i \in DOMAIN evidence' /\ evidence'[i] = evidence[i]
          BY <3>1, AppendProperties, LenProperties
        <4> QED BY <1>1, <4>1 DEF Inferred
      <3>3. PurityRiskRank(merged'.purity) >= PurityRiskRank(merged.purity)
        BY <3>1, RankFacts DEF MergeStep
      <3>4. CASE merged.purity = "unknown"
        <4>1. PurityFromSignals(merged) = "unknown"
          BY <1>1, <3>2, <3>4, UnknownStaysUnknown
        <4>2. verdict.purity = "unknown"
          BY <1>1, <3>4, <4>1 DEF verdict, MergeReturn, LoopInv, AccumulatorType
        <4>3. PurityRiskRank(verdict'.purity) \in {0, 1, 3, 4, 5}
          BY RankFacts
        <4> QED BY <4>2, <4>3, RankFacts
      <3>5. CASE merged.purity # "unknown"
        <4>1. verdict = merged
          BY <3>5 DEF verdict, MergeReturn
        <4>2. merged'.purity # "unknown"
          BY <3>1, <3>3, <3>5, RankFacts
        <4>3. verdict' = merged'
          BY <4>2 DEF verdict, MergeReturn
        <4> QED BY <3>3, <4>1, <4>3
      <3> QED BY <3>4, <3>5
    <2> QED BY <1>1, <2>1, <2>2 DEF Next
  <1>2. LoopInv /\ LoopInv' /\ [Next]_vars
            => [Inferred' /\ evidence # <<>> =>
                   PurityRiskRank(verdict'.purity) >= PurityRiskRank(verdict.purity)]_vars
    BY <1>1
  <1> QED BY <1>2, LoopInvariant, PTL DEF Spec, RiskNeverFalls

-----------------------------------------------------------------------------
(* What the clients report.                                                *)

\* Answers, with any score and any words.
Lookup(Names) == [anonymizer: BOOLEAN, hosting: BOOLEAN, score: Int, country: Names]

Statement(Names) ==
    [verdict: STRING, score: Int, anonymizer: BOOLEAN, hosting: BOOLEAN,
     signals: SUBSET STRING, country: Names]

\* Each client makes a report, as the loop is given them, of any answer.
\* The assumption on Reports is met by this program's providers.
THEOREM ClientsReport ==
    ASSUME NEW Names, NoCountry \in Names
    PROVE  /\ DNS \in Report(Names)
           /\ \A flagged \in BOOLEAN : Blackbox(flagged) \in Report(Names)
           /\ \A a \in Lookup(Names) :
                 {IPAPI(a), IPAPICom(a), RustyIP(a), IPPriv(a), IPLookup(a)} \subseteq Report(Names)
           /\ \A a \in Statement(Names) : IPLogs(a) \in Report(Names)
<1>1. \A score \in Int, anonymizer, datacenter \in BOOLEAN, purity \in Stated, country \in Names :
        MakeReport(score, anonymizer, datacenter, purity, country) \in Report(Names)
  BY DEF MakeReport, Report
<1>2. NoVerdict \in Stated /\ "other" \in Stated
  BY DEF Stated
<1>3. DNS \in Report(Names) /\ \A flagged \in BOOLEAN : Blackbox(flagged) \in Report(Names)
  <2>1. 0 \in Int /\ 60 \in Int /\ FALSE \in BOOLEAN
    OBVIOUS
  <2>2. DNS \in Report(Names)
    BY <1>1, <1>2, <2>1, Zenon DEF DNS
  <2>3. ASSUME NEW flagged \in BOOLEAN PROVE Blackbox(flagged) \in Report(Names)
    <3>1. (IF flagged THEN 60 ELSE 0) \in Int
      BY <2>1
    <3> QED
      BY <1>1, <1>2, <3>1, Zenon DEF Blackbox
  <2> QED
    BY <2>2, <2>3
<1>4. ASSUME NEW a \in Lookup(Names)
      PROVE  {IPAPI(a), IPAPICom(a), RustyIP(a), IPPriv(a), IPLookup(a)} \subseteq Report(Names)
  <2>1. /\ a.anonymizer \in BOOLEAN /\ a.hosting \in BOOLEAN /\ a.score \in Int
        /\ a.country \in Names /\ SignalScore(a) \in Int
    BY DEF Lookup, SignalScore
  <2>2. IPAPI(a) \in Report(Names) /\ IPAPICom(a) \in Report(Names) /\ RustyIP(a) \in Report(Names)
    BY <1>1, <1>2, <2>1 DEF IPAPI, IPAPICom, RustyIP
  <2>3. IPPriv(a) \in Report(Names)
    BY <1>1, <1>2, <2>1 DEF IPPriv
  <2> QED
    BY <2>2, <2>3 DEF IPLookup
<1>5. ASSUME NEW a \in Statement(Names) PROVE IPLogs(a) \in Report(Names)
  <2> DEFINE word       == NormalizeIPLogsVerdict(a.verdict)
             score      == NormalizedIPLogsScore(a.score)
             anonymizer == a.anonymizer \/ a.signals \cap AnonymizerSignals # {}
             datacenter == a.hosting \/ a.signals \cap HostingSignals # {}
             counted    == IF score = 0 THEN ScoreFromIPLogsVerdict(word, anonymizer, datacenter)
                           ELSE score
             stated     == IF word \in Stated THEN word ELSE "other"
  <2>1. IPLogs(a) = MakeReport(counted, anonymizer, datacenter, stated, a.country)
    BY DEF IPLogs
  <2>2. a.score \in Int /\ a.country \in Names
    BY DEF Statement
  <2>3. anonymizer \in BOOLEAN /\ datacenter \in BOOLEAN
    BY DEF Statement
  <2>4. score \in Int
    BY <2>2 DEF NormalizedIPLogsScore
  <2> HIDE DEF word, score, anonymizer, datacenter
  <2>5. ScoreFromIPLogsVerdict(word, anonymizer, datacenter) \in Int
    BY DEF ScoreFromIPLogsVerdict
  <2>6. counted \in Int /\ stated \in Stated
    BY <1>2, <2>4, <2>5
  <2> HIDE DEF counted, stated
  <2> QED
    BY <1>1, <2>1, <2>2, <2>3, <2>6
<1> QED
  BY <1>3, <1>4, <1>5
=============================================================================
