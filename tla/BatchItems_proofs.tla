--------------------------- MODULE BatchItems_proofs ---------------------------
(***************************************************************************)
(* What the operators on reports and on lists of items return.  For any    *)
(* reports, the merged verdict has its type.  For any list, a filtered     *)
(* list has the items that match, in their order; a sorted one has all of  *)
(* them, in the order of the sort, ties as they were.  It comes down to    *)
(* one fact: in a strict total order of a finite set no two members have   *)
(* equally many before them, so that Enumerate names each of them once.    *)
(***************************************************************************)
EXTENDS BatchItems, WellFoundedInduction, SequenceTheorems, FiniteSetTheorems, TLAPS

\* A report without a verdict gets one of the five.
LEMMA SignalsType ==
    ASSUME NEW r
    PROVE  PurityFromSignals(r) \in Verdicts
    BY Zenon DEF PurityFromSignals, Verdicts

\* A normalised report is a report with its score on the scale and a verdict.
LEMMA NormalizeType ==
    ASSUME NEW C, NEW r \in Report(C)
    PROVE  /\ NormalizeResult(r) \in Report(C)
           /\ NormalizeResult(r).score \in 0..100
           /\ NormalizeResult(r).purity \in Verdicts \cup {"other"}
           /\ NormalizeResult(r).country = r.country
  <1> DEFINE clamped == [r EXCEPT !.score = Clamped(r.score)]
  <1>1. r.score \in Int /\ r.purity \in Stated
    BY DEF Report
  <1>2. Clamped(r.score) \in 0..100
    BY <1>1 DEF Clamped
  <1>3. /\ clamped \in Report(C)
        /\ clamped.score \in 0..100
        /\ clamped.purity = r.purity
        /\ clamped.country = r.country
    BY <1>2 DEF Report
  <1>4. PurityFromSignals(clamped) \in Verdicts
    BY SignalsType
  <1>5. NormalizeResult(r) = IF r.purity = NoVerdict
                              THEN [clamped EXCEPT !.purity = PurityFromSignals(clamped)]
                              ELSE clamped
    BY DEF NormalizeResult
  <1> HIDE DEF clamped
  <1> QED BY <1>1, <1>3, <1>4, <1>5 DEF Report, Stated, Verdicts

\* A set of integers has one greatest member, and Highest is it.
LEMMA HighestIs ==
    ASSUME NEW S \in SUBSET Int, NEW m \in S, \A n \in S : n <= m
    PROVE  Highest(S) = m
  <1>1. Highest(S) \in S /\ \A n \in S : n <= Highest(S)
    BY DEF Highest
  <1>2. m \in Int /\ Highest(S) \in Int
    BY <1>1
  <1>3. m <= Highest(S) /\ Highest(S) <= m
    BY <1>1
  <1> QED BY <1>2, <1>3

\* A set of scores has a highest one.
LEMMA HighestScore ==
    ASSUME NEW S \in SUBSET (0..100), S # {}
    PROVE  Highest(S) \in S /\ \A n \in S : n <= Highest(S)
  <1> DEFINE T == {100 - s : s \in S}
  <1>1. T \subseteq Nat /\ T # {}
    <2>1. \A s \in S : s \in 0..100
      OBVIOUS
    <2>2. \A s \in S : 100 - s \in Nat
      BY <2>1
    <2> QED BY <2>2
  <1>2. PICK t \in T : \A y \in T : <<y, t>> \notin OpToRel(<, Nat)
    <2> HIDE DEF T
    <2> QED BY <1>1, WFMin, NatLessThanWellFounded
  <1>3. \A y \in T : ~(y < t)
    <2> SUFFICES ASSUME NEW y \in T, y < t PROVE FALSE
      OBVIOUS
    <2>1. y \in Nat /\ t \in Nat
      BY <1>1
    <2>2. <<y, t>> \in OpToRel(<, Nat)
      BY <2>1 DEF OpToRel
    <2> QED BY <1>2, <2>2
  <1>4. PICK m \in S : t = 100 - m
    OBVIOUS
  <1>5. \A n \in S : n <= m
    <2> SUFFICES ASSUME NEW n \in S PROVE n <= m
      OBVIOUS
    <2>1. n \in 0..100 /\ m \in 0..100 /\ ~(100 - n < 100 - m)
      BY <1>3, <1>4
    <2> QED BY <2>1
  <1> QED BY <1>5, HighestIs

\* Of any reports that carry a ranked verdict, one carries the riskiest.
LEMMA WorstExists ==
    ASSUME NEW R, R # {}, \A r \in R : PurityRiskRank(r.purity) > 0
    PROVE  \E r \in R : \A s \in R : PurityRiskRank(s.purity) <= PurityRiskRank(r.purity)
  <1> DEFINE Carried(p) == \E r \in R : r.purity = p
  <1>1. \A r \in R : r.purity \in {"vpn_detected", "vpn_likely", "suspicious", "clean"}
    BY DEF PurityRiskRank
  <1>2. CASE Carried("vpn_detected")
    BY <1>1, <1>2 DEF PurityRiskRank
  <1>3. CASE ~Carried("vpn_detected") /\ Carried("vpn_likely")
    BY <1>1, <1>3 DEF PurityRiskRank
  <1>4. CASE ~Carried("vpn_detected") /\ ~Carried("vpn_likely") /\ Carried("suspicious")
    BY <1>1, <1>4 DEF PurityRiskRank
  <1>5. CASE ~Carried("vpn_detected") /\ ~Carried("vpn_likely") /\ ~Carried("suspicious")
    BY <1>1, <1>5 DEF PurityRiskRank
  <1> QED BY <1>2, <1>3, <1>4, <1>5

\* The first country named, if any, is one of the countries.
LEMMA FirstCountryType ==
    ASSUME NEW C, NoCountry \in C, NEW results \in Seq(Report(C))
    PROVE  FirstCountry(results) \in C
  <1> DEFINE named == {i \in DOMAIN results : results[i].country # NoCountry}
  <1>1. named \subseteq Nat /\ \A i \in named : results[i] \in Report(C)
    BY LenProperties, ElementOfSeq
  <1>2. CASE named = {}
    BY <1>2 DEF FirstCountry
  <1>3. CASE named # {}
    <2>1. PICK i \in named : \A j \in named : <<j, i>> \notin OpToRel(<, Nat)
      <3> HIDE DEF named
      <3> QED BY <1>1, <1>3, WFMin, NatLessThanWellFounded
    <2>2. \A j \in named : i <= j
      <3> SUFFICES ASSUME NEW j \in named, j < i PROVE FALSE
        BY <1>1
      <3>1. <<j, i>> \in OpToRel(<, Nat)
        BY <1>1 DEF OpToRel
      <3> QED BY <2>1, <3>1
    <2>3. (CHOOSE k \in named : \A j \in named : k <= j) \in named
      BY <2>2
    <2> QED BY <1>1, <1>3, <2>3 DEF FirstCountry, Report
  <1> QED BY <1>2, <1>3

\* A merged verdict is one of the five, with its score on the scale.
THEOREM MergeType ==
    ASSUME NEW C, NoCountry \in C, NEW results \in Seq(Report(C))
    PROVE  Merge(results) \in [score: 0..100, anonymizer: BOOLEAN, datacenter: BOOLEAN,
                               purity: Verdicts, country: C]
  <1> DEFINE reports == {NormalizeResult(results[i]) : i \in DOMAIN results}
             signals == [score      |-> Highest({0} \cup {r.score : r \in reports}),
                         anonymizer |-> \E r \in reports : r.anonymizer,
                         datacenter |-> \E r \in reports : r.datacenter,
                         purity     |-> "unknown",
                         country    |-> FirstCountry(results)]
             ranked  == {r \in reports : PurityRiskRank(r.purity) > 0}
             worst   == CHOOSE r \in ranked :
                          \A s \in ranked : PurityRiskRank(s.purity) <= PurityRiskRank(r.purity)
             Merged  == [score: 0..100, anonymizer: BOOLEAN, datacenter: BOOLEAN,
                         purity: Verdicts, country: C]
  <1>1. \A r \in reports : r.score \in 0..100
    BY NormalizeType, LenProperties, ElementOfSeq
  <1>2. signals.score \in 0..100
    <2> DEFINE S == {0} \cup {r.score : r \in reports}
    <2>1. S \in SUBSET (0..100) /\ S # {}
      <3>1. {r.score : r \in reports} \in SUBSET (0..100)
        <4> HIDE DEF reports
        <4> QED BY <1>1
      <3>2. 0 \in 0..100
        OBVIOUS
      <3> HIDE DEF reports
      <3> QED BY <3>1, <3>2
    <2> HIDE DEF S
    <2>2. Highest(S) \in S
      BY <2>1, HighestScore
    <2> QED BY <2>1, <2>2 DEF S
  <1>3. signals \in Merged
    BY <1>2, FirstCountryType DEF Verdicts
  <1>4. CASE results = <<>>
    BY <1>3, <1>4 DEF Merge
  <1>5. CASE results # <<>> /\ ranked # {}
    <2>1. \E r \in ranked :
            \A s \in ranked : PurityRiskRank(s.purity) <= PurityRiskRank(r.purity)
      <3> HIDE DEF reports
      <3> QED BY <1>5, WorstExists
    <2>2. worst \in ranked
      BY <2>1
    <2>3. worst.purity \in Verdicts
      BY <2>2 DEF PurityRiskRank, Verdicts
    <2>4. Merge(results) = [signals EXCEPT !.purity = worst.purity]
      BY <1>5 DEF Merge
    <2> HIDE DEF signals, worst
    <2> QED BY <1>3, <2>3, <2>4
  <1>6. CASE results # <<>> /\ ranked = {}
    <2>1. Merge(results) = [signals EXCEPT !.purity = PurityFromSignals(signals)]
      BY <1>6 DEF Merge
    <2>2. PurityFromSignals(signals) \in Verdicts
      BY SignalsType
    <2> HIDE DEF signals
    <2> QED BY <1>3, <2>1, <2>2
  <1> QED BY <1>4, <1>5, <1>6

-----------------------------------------------------------------------------
(* Enumerations.                                                           *)

\* order puts the members of S one after the other.
Orders(S, order) ==
    /\ \A i \in S : <<i, i>> \notin order
    /\ \A i, j \in S : i = j \/ <<i, j>> \in order \/ <<j, i>> \in order
    /\ \A i, j, k \in S : <<i, j>> \in order /\ <<j, k>> \in order => <<i, k>> \in order

\* Of two members the one that comes before has fewer before it, and none has
\* all of them.
LEMMA FewerBefore ==
    ASSUME NEW S, IsFiniteSet(S), NEW order, Orders(S, order), NEW i \in S, NEW j \in S,
           <<i, j>> \in order
    PROVE  Cardinality({k \in S : <<k, i>> \in order}) < Cardinality({k \in S : <<k, j>> \in order})
  <1> DEFINE I == {k \in S : <<k, i>> \in order}
             J == {k \in S : <<k, j>> \in order}
  <1>1. I \subseteq J /\ i \in J /\ i \notin I /\ J \subseteq S
    BY DEF Orders
  <1> HIDE DEF I, J
  <1>2. IsFiniteSet(J) /\ IsFiniteSet(I)
    BY <1>1, FS_Subset
  <1>3. Cardinality(I) <= Cardinality(J) /\ Cardinality(I) # Cardinality(J)
    BY <1>1, <1>2, FS_Subset
  <1>4. Cardinality(I) \in Nat /\ Cardinality(J) \in Nat
    BY <1>2, FS_CardinalityType
  <1>5. Cardinality(I) < Cardinality(J)
    BY <1>3, <1>4
  <1> QED BY <1>5 DEF I, J

LEMMA PlaceInRange ==
    ASSUME NEW S, IsFiniteSet(S), NEW order, Orders(S, order), NEW i \in S
    PROVE  1 + Cardinality({k \in S : <<k, i>> \in order}) \in 1..Cardinality(S)
  <1> DEFINE I == {k \in S : <<k, i>> \in order}
  <1>1. I \subseteq S /\ i \notin I
    BY DEF Orders
  <1> HIDE DEF I
  <1>2. IsFiniteSet(I) /\ Cardinality(I) <= Cardinality(S) /\ Cardinality(I) # Cardinality(S)
    BY <1>1, FS_Subset
  <1>3. Cardinality(I) \in Nat /\ Cardinality(S) \in Nat
    BY <1>2, FS_CardinalityType
  <1>4. 1 + Cardinality(I) \in 1..Cardinality(S)
    BY <1>2, <1>3
  <1> QED BY <1>4 DEF I

\* Enumerate names every member once, in order.
LEMMA EnumerateInOrder ==
    ASSUME NEW S, IsFiniteSet(S), NEW order, Orders(S, order)
    PROVE  /\ Cardinality(S) \in Nat
           /\ DOMAIN Enumerate(S, order) = 1..Cardinality(S)
           /\ \A k \in 1..Cardinality(S) : Enumerate(S, order)[k] \in S
           /\ \A i \in S : \E k \in 1..Cardinality(S) : Enumerate(S, order)[k] = i
           /\ \A j, k \in 1..Cardinality(S) :
                 j < k => <<Enumerate(S, order)[j], Enumerate(S, order)[k]>> \in order
  <1> DEFINE N        == Cardinality(S)
             Place(i) == 1 + Cardinality({k \in S : <<k, i>> \in order})
             place    == [i \in S |-> Place(i)]
             e        == Enumerate(S, order)
  <1>1. N \in Nat /\ IsFiniteSet(1..N) /\ Cardinality(1..N) = N
    BY FS_CardinalityType, FS_Interval
  <1>2. \A i \in S : Place(i) \in 1..N
    BY PlaceInRange
  <1>3. \A i, j \in S : <<i, j>> \in order => Place(i) < Place(j)
    <2> SUFFICES ASSUME NEW i \in S, NEW j \in S, <<i, j>> \in order PROVE Place(i) < Place(j)
      OBVIOUS
    <2>1. Cardinality({k \in S : <<k, i>> \in order}) < Cardinality({k \in S : <<k, j>> \in order})
      BY FewerBefore
    <2>2. Place(i) \in Nat /\ Place(j) \in Nat
      BY <1>2
    <2>3. /\ Cardinality({k \in S : <<k, i>> \in order}) \in Nat
          /\ Cardinality({k \in S : <<k, j>> \in order}) \in Nat
      BY FS_Subset, FS_CardinalityType
    <2> QED BY <2>1, <2>3
  <1> HIDE DEF Place
  <1>4. place \in Injection(S, 1..N)
    <2>1. \A i, j \in S : i # j => Place(i) # Place(j)
      <3> SUFFICES ASSUME NEW i \in S, NEW j \in S, i # j PROVE Place(i) # Place(j)
        OBVIOUS
      <3>1. Place(i) \in Int /\ Place(j) \in Int
        BY <1>2
      <3>2. <<i, j>> \in order \/ <<j, i>> \in order
        BY DEF Orders
      <3>3. Place(i) < Place(j) \/ Place(j) < Place(i)
        BY <1>3, <3>2
      <3> QED BY <3>1, <3>3
    <2> QED BY <1>2, <2>1 DEF Injection, IsInjective
  <1>5. place \in Surjection(S, 1..N)
    BY <1>1, <1>4, FS_Injection
  <1>6. \A k \in 1..N : \E i \in S : Place(i) = k
    BY <1>5 DEF Surjection
  <1>7. /\ DOMAIN e = 1..N
        /\ \A k \in 1..N : e[k] = CHOOSE i \in S : Place(i) = k
    <2>1. \A i \in S : Cardinality({j \in S : <<j, i>> \in order}) \in Nat
      BY FS_Subset, FS_CardinalityType
    <2>2. \A k \in 1..N, i \in S :
             Place(i) = k <=> Cardinality({j \in S : <<j, i>> \in order}) = k - 1
      BY <2>1 DEF Place
    <2>3. \A k \in 1..N : (CHOOSE i \in S : Place(i) = k)
                             = CHOOSE i \in S : Cardinality({j \in S : <<j, i>> \in order}) = k - 1
      BY <2>2
    <2> QED BY <2>3 DEF Enumerate
  <1> HIDE DEF e
  <1>8. \A k \in 1..N : e[k] \in S /\ Place(e[k]) = k
    BY <1>6, <1>7
  <1>9. \A i \in S : \E k \in 1..N : e[k] = i
    <2> SUFFICES ASSUME NEW i \in S PROVE e[Place(i)] = i
      BY <1>2
    <2>1. e[Place(i)] \in S /\ Place(e[Place(i)]) = Place(i)
      BY <1>2, <1>8
    <2> QED BY <2>1, <1>4 DEF Injection, IsInjective
  <1>10. \A j, k \in 1..N : j < k => <<e[j], e[k]>> \in order
    <2> SUFFICES ASSUME NEW j \in 1..N, NEW k \in 1..N, j < k PROVE <<e[j], e[k]>> \in order
      OBVIOUS
    <2>1. /\ e[j] \in S /\ e[k] \in S
          /\ Place(e[j]) = j /\ Place(e[k]) = k
      BY <1>8
    <2>2. e[j] # e[k]
      BY <2>1
    <2>3. <<e[k], e[j]>> \notin order
      BY <2>1, <1>3
    <2> QED BY <2>1, <2>2, <2>3 DEF Orders
  <1> QED BY <1>1, <1>7, <1>8, <1>9, <1>10 DEF e

-----------------------------------------------------------------------------
(* Lists.                                                                  *)

\* new has the elements of list at the places in S, one after the other.
InOrder(new, list, S, order) ==
    \E places \in [1..Cardinality(S) -> S] :
        /\ new = [k \in 1..Cardinality(S) |-> list[places[k]]]
        /\ \A i \in S : \E k \in 1..Cardinality(S) : places[k] = i
        /\ \A j, k \in 1..Cardinality(S) : j < k => <<places[j], places[k]>> \in order

LEMMA PickedInOrder ==
    ASSUME NEW T, NEW list \in Seq(T), NEW S \in SUBSET (DOMAIN list),
           NEW order, Orders(S, order)
    PROVE  LET new == Picked(list, Enumerate(S, order))
           IN  /\ new \in Seq(T)
               /\ Cardinality(S) \in Nat
               /\ Len(new) = Cardinality(S)
               /\ InOrder(new, list, S, order)
  <1> DEFINE N      == Cardinality(S)
             places == Enumerate(S, order)
             new    == Picked(list, places)
  <1>1. Len(list) \in Nat /\ DOMAIN list = 1..Len(list) /\ \A i \in DOMAIN list : list[i] \in T
    BY LenProperties, ElementOfSeq
  <1>2. IsFiniteSet(S)
    <2>1. IsFiniteSet(DOMAIN list)
      BY <1>1, FS_Interval
    <2> QED BY <2>1, FS_Subset
  <1>3. /\ N \in Nat /\ DOMAIN places = 1..N
        /\ \A k \in 1..N : places[k] \in S
        /\ \A i \in S : \E k \in 1..N : places[k] = i
        /\ \A j, k \in 1..N : j < k => <<places[j], places[k]>> \in order
    BY <1>2, EnumerateInOrder
  <1>4. places \in [1..N -> S]
    BY <1>3 DEF Enumerate
  <1>5. new = [k \in 1..N |-> list[places[k]]]
    BY <1>3 DEF Picked
  <1> HIDE DEF N, places, new
  <1>6. new \in [1..N -> T]
    BY <1>1, <1>4, <1>5
  <1>7. new \in Seq(T) /\ Len(new) = N
    BY <1>3, <1>6, SeqDef, LenProperties
  <1> QED BY <1>3, <1>4, <1>5, <1>7 DEF InOrder, N, places, new

\* Numbers are in order.
LEMMA AscendingOrders ==
    ASSUME NEW S \in SUBSET Int
    PROVE  Orders(S, Ascending(S))
  BY DEF Orders, Ascending

\* A loop that goes through list and appends some of its elements.
LEMMA KeepInOrder ==
    ASSUME NEW T, NEW list \in Seq(T), NEW S \in SUBSET (DOMAIN list)
    PROVE  /\ Keep(list, S) \in Seq(T)
           /\ Cardinality(S) \in Nat
           /\ Len(Keep(list, S)) = Cardinality(S)
           /\ InOrder(Keep(list, S), list, S, Ascending(S))
  <1>1. S \in SUBSET Int
    BY LenProperties
  <1> QED BY <1>1, AscendingOrders, PickedInOrder DEF Keep

\* One that appends them all makes a copy.
LEMMA KeepAll ==
    ASSUME NEW T, NEW list \in Seq(T)
    PROVE  Keep(list, DOMAIN list) = list
  <1> DEFINE N      == Len(list)
             D      == DOMAIN list
             places == Enumerate(D, Ascending(D))
  <1>1. N \in Nat /\ D = 1..N /\ Cardinality(D) = N /\ list = [k \in D |-> list[k]]
    <2>1. N \in Nat /\ D = 1..N /\ list = [k \in D |-> list[k]]
      BY LenProperties
    <2>2. Cardinality(1..N) = N
      BY <2>1, FS_Interval
    <2> QED BY <2>1, <2>2
  <1>2. \A i \in D : Cardinality({j \in D : <<j, i>> \in Ascending(D)}) = i - 1
    <2> SUFFICES ASSUME NEW i \in D
                 PROVE  Cardinality({j \in D : <<j, i>> \in Ascending(D)}) = i - 1
      OBVIOUS
    <2>1. {j \in D : <<j, i>> \in Ascending(D)} = 1..(i - 1)
      <3>1. \A j \in D : <<j, i>> \in Ascending(D) <=> j < i
        BY DEF Ascending
      <3>2. \A j : j \in 1..(i - 1) <=> j \in D /\ j < i
        BY <1>1
      <3> QED BY <3>1, <3>2
    <2>2. PICK n \in Nat : n = i - 1
      BY <1>1
    <2>3. Cardinality(1..n) = n
      BY FS_Interval
    <2> QED BY <2>1, <2>2, <2>3
  <1>3. \A k \in D : (CHOOSE i \in D : Cardinality({j \in D : <<j, i>> \in Ascending(D)}) = k - 1) = k
    <2> SUFFICES ASSUME NEW k \in D
                 PROVE  (CHOOSE i \in D : Cardinality({j \in D : <<j, i>> \in Ascending(D)}) = k - 1) = k
      OBVIOUS
    <2>1. \A i \in D : Cardinality({j \in D : <<j, i>> \in Ascending(D)}) = k - 1 <=> i = k
      BY <1>1, <1>2
    <2> QED BY <2>1
  <1>4. places = [k \in D |-> k]
    BY <1>1, <1>3 DEF Enumerate
  <1> QED BY <1>1, <1>4 DEF Keep, Picked

-----------------------------------------------------------------------------
(* The filter.                                                             *)

Matching(items, filter) == {i \in DOMAIN items : MatchesFilter(items[i], filter)}

LEMMA FilterInOrder ==
    ASSUME NEW T, NEW items \in Seq(T), NEW filter
    PROVE  /\ FilterItems(items, filter) \in Seq(T)
           /\ Cardinality(Matching(items, filter)) \in Nat
           /\ Len(FilterItems(items, filter)) = Cardinality(Matching(items, filter))
           /\ InOrder(FilterItems(items, filter), items, Matching(items, filter),
                      Ascending(Matching(items, filter)))
  <1>1. Matching(items, filter) \in SUBSET (DOMAIN items)
    BY DEF Matching
  <1>2. FilterItems(items, filter) = Keep(items, Matching(items, filter))
    BY DEF FilterItems, Matching
  <1> QED BY <1>1, <1>2, KeepInOrder

-----------------------------------------------------------------------------
(* The sort.                                                               *)

\* The order of a stable sort, for a relation on the places of a list.
Stable(D, before) ==
    {pair \in D \X D : \/ pair \in before
                       \/ pair[1] < pair[2] /\ <<pair[2], pair[1]>> \notin before}

\* before says what goes before what by a key: of two at most one goes first,
\* and what goes before another goes before or after whatever else there is.
Keyed(D, before) ==
    /\ \A i, j \in D : <<i, j>> \in before => <<j, i>> \notin before
    /\ \A i, j, k \in D : <<i, k>> \in before => <<i, j>> \in before \/ <<j, k>> \in before

\* A stable sort by a key puts any list in one order.
LEMMA StableOrders ==
    ASSUME NEW D \in SUBSET Int, NEW before, Keyed(D, before)
    PROVE  Orders(D, Stable(D, before))
  <1> DEFINE First(i, j) == <<i, j>> \in before \/ (i < j /\ <<j, i>> \notin before)
  <1>1. \A i, j \in D : <<i, j>> \in Stable(D, before) <=> First(i, j)
    BY DEF Stable
  <1>2. \A i \in D : ~First(i, i)
    <2> SUFFICES ASSUME NEW i \in D PROVE ~(i < i) /\ <<i, i>> \notin before
      OBVIOUS
    <2> QED BY DEF Keyed
  <1>3. \A i, j \in D : i = j \/ First(i, j) \/ First(j, i)
    <2> SUFFICES ASSUME NEW i \in D, NEW j \in D, i # j PROVE First(i, j) \/ First(j, i)
      OBVIOUS
    <2>1. i < j \/ j < i
      OBVIOUS
    <2> QED BY <2>1
  <1>4. \A i, j, k \in D : First(i, j) /\ First(j, k) => First(i, k)
    <2> SUFFICES ASSUME NEW i \in D, NEW j \in D, NEW k \in D, First(i, j), First(j, k)
                 PROVE  First(i, k)
      OBVIOUS
    <2>1. /\ <<i, j>> \in before => <<i, k>> \in before \/ <<k, j>> \in before
          /\ <<j, k>> \in before => <<j, i>> \in before \/ <<i, k>> \in before
          /\ <<k, i>> \in before => <<k, j>> \in before \/ <<j, i>> \in before
          /\ <<i, j>> \in before => <<j, i>> \notin before
          /\ <<j, k>> \in before => <<k, j>> \notin before
      BY DEF Keyed
    <2>2. CASE <<i, j>> \in before
      BY <2>1, <2>2
    <2>3. CASE <<j, k>> \in before
      BY <2>1, <2>3
    <2>4. CASE <<i, j>> \notin before /\ <<j, k>> \notin before
      BY <2>1, <2>4
    <2> QED BY <2>2, <2>3, <2>4
  <1> HIDE DEF First
  <1> QED BY <1>1, <1>2, <1>3, <1>4 DEF Orders

\* What sorting reads of an item.
Sorts(item) ==
    /\ item.at \in Positions
    /\ item.score \in Int
    /\ item.latency \in Nat

\* The pairs of places whose items the comparison of SortItems puts in order.
SortedBefore(items, sortBy) ==
    {pair \in (DOMAIN items) \X (DOMAIN items) :
        SortsBefore(sortBy, items[pair[1]], items[pair[2]])}

\* Each comparison of SortItems compares a key.
LEMMA SortsByKey ==
    ASSUME NEW sortBy \in SortModes, NEW a, NEW b, NEW c, Sorts(a), Sorts(b), Sorts(c)
    PROVE  /\ SortsBefore(sortBy, a, b) => ~SortsBefore(sortBy, b, a)
           /\ SortsBefore(sortBy, a, c) => SortsBefore(sortBy, a, b) \/ SortsBefore(sortBy, b, c)
  <1>1. \A p \in Positions : Endpoints[p].host \in Nat /\ Endpoints[p].port \in Nat
    <2>1. /\ DOMAIN Endpoints = 1..Len(Endpoints)
          /\ \A p \in 1..Len(Endpoints) : Endpoints[p] \in Endpoint
      BY EndpointsAssumption, LenProperties, ElementOfSeq
    <2> QED BY <2>1 DEF Positions, Endpoint
  <1>2. CASE sortBy \in {"", "abuse"}
    <2>1. \A x, y : SortsBefore(sortBy, x, y)
             <=> x.score > y.score \/ (x.score = y.score /\ x.latency < y.latency)
      BY <1>2, Zenon DEF SortsBefore
    <2> QED BY <2>1 DEF Sorts
  <1>3. CASE sortBy = "latency"
    BY <1>1, <1>3 DEF SortsBefore, Sorts
  <1>4. CASE sortBy = "host"
    BY <1>1, <1>4 DEF SortsBefore, Sorts
  <1>5. CASE sortBy = "port"
    BY <1>1, <1>5 DEF SortsBefore, Sorts
  <1> QED BY <1>2, <1>3, <1>4, <1>5 DEF SortModes

\* A sorted list has the items of the list, in the order of the sort, and those
\* of which neither sorts before the other in the order they had.
THEOREM SortInOrder ==
    ASSUME NEW T, NEW items \in Seq(T), \A item \in T : Sorts(item), NEW sortBy \in SortModes
    PROVE  /\ SortItems(items, sortBy) \in Seq(T)
           /\ Len(SortItems(items, sortBy)) = Len(items)
           /\ InOrder(SortItems(items, sortBy), items, DOMAIN items,
                      Stable(DOMAIN items, SortedBefore(items, sortBy)))
  <1> DEFINE D      == DOMAIN items
             before == SortedBefore(items, sortBy)
  <1>1. /\ Len(items) \in Nat /\ D = 1..Len(items) /\ D \in SUBSET Int
        /\ \A i \in D : Sorts(items[i])
    BY LenProperties, ElementOfSeq
  <1>2. \A i, j \in D : <<i, j>> \in before <=> SortsBefore(sortBy, items[i], items[j])
    BY DEF SortedBefore
  <1>3. Keyed(D, before)
    <2> HIDE DEF before
    <2> QED BY <1>1, <1>2, SortsByKey DEF Keyed
  <1>4. Orders(D, Stable(D, before))
    BY <1>1, <1>3, StableOrders
  <1>5. SortItems(items, sortBy) = Picked(items, Enumerate(D, Stable(D, before)))
    <2>1. \A pair \in D \X D :
             /\ pair \in before <=> SortsBefore(sortBy, items[pair[1]], items[pair[2]])
             /\ <<pair[2], pair[1]>> \in before
                   <=> SortsBefore(sortBy, items[pair[2]], items[pair[1]])
      BY DEF SortedBefore
    <2>2. Stable(D, before) =
            {pair \in D \X D :
                \/ SortsBefore(sortBy, items[pair[1]], items[pair[2]])
                \/ pair[1] < pair[2] /\ ~SortsBefore(sortBy, items[pair[2]], items[pair[1]])}
      BY <2>1 DEF Stable
    <2> QED BY <2>2 DEF SortItems, StableSort, StableOrder
  <1>6. Cardinality(D) = Len(items)
    BY <1>1, FS_Interval
  <1> QED BY <1>4, <1>5, <1>6, PickedInOrder

-----------------------------------------------------------------------------
(* Sums and summaries.                                                     *)

\* What a sum counts.
Units(n) == UNION {{x} \X (1..n[x]) : x \in DOMAIN n}

LEMMA TotalType ==
    ASSUME NEW D, IsFiniteSet(D), NEW n \in [D -> Nat]
    PROVE  /\ IsFiniteSet(Units(n)) /\ Total(n) = Cardinality(Units(n))
           /\ Total(n) \in Nat
<1> DEFINE column == [x \in D |-> {x} \X (1..n[x])]
           columns == {column[x] : x \in D}
<1>1. Units(n) = UNION columns
  BY DEF Units
<1>2. IsFiniteSet(columns)
  <2>1. column \in Surjection(D, columns)
    BY Zenon DEF Surjection
  <2> QED
    BY <2>1, FS_Surjection
<1>3. \A x \in D : IsFiniteSet(column[x])
  <2> SUFFICES ASSUME NEW x \in D PROVE IsFiniteSet({x} \X (1..n[x]))
    OBVIOUS
  <2>1. IsFiniteSet({x})
    BY FS_Singleton
  <2>2. IsFiniteSet(1..n[x])
    <3>1. 1 \in Int /\ n[x] \in Int
      OBVIOUS
    <3> QED
      BY <3>1, FS_Interval
  <2> QED
    BY <2>1, <2>2, FS_Product
<1>4. IsFiniteSet(Units(n))
  <2>1. \A C \in columns : IsFiniteSet(C)
    BY <1>3
  <2> HIDE DEF columns
  <2> QED
    BY <1>1, <1>2, <2>1, FS_UNION
<1> QED
  BY <1>4, FS_CardinalityType DEF Total, Units

LEMMA SummaryType ==
    ASSUME NEW T, NEW items \in Seq(T), \A i \in DOMAIN items : items[i].latency \in Nat
    PROVE  Summarize(items) \in [total: Nat, reachable: Nat, unreachable: Nat, abusive: Nat,
                                 suspicious: Nat, clean: Nat, errors: Nat, avgLatency: Nat]
<1>1. PICK n \in Nat : n = Len(items) /\ DOMAIN items = 1..n
  BY LenProperties
<1>2. ASSUME NEW S \in SUBSET (DOMAIN items)
      PROVE  IsFiniteSet(S) /\ Cardinality(S) \in Nat /\ Cardinality(S) <= n
  <2>1. IsFiniteSet(1..n) /\ Cardinality(1..n) = n
    BY FS_Interval
  <2> QED
    BY <1>1, <2>1, FS_Subset, FS_CardinalityType
<1> DEFINE reached == {i \in DOMAIN items : items[i].reachable}
           latency == [i \in reached |-> items[i].latency]
           average == IF reached = {} THEN 0 ELSE Total(latency) \div Cardinality(reached)
<1>3. average \in Nat
  <2>1. IsFiniteSet(reached) /\ Cardinality(reached) \in Nat /\ latency \in [reached -> Nat]
    BY <1>2
  <2>2. Total(latency) \in Nat
    <3> HIDE DEF reached, latency
    <3> QED
      BY <2>1, TotalType
  <2>3. reached # {} => Cardinality(reached) # 0
    <3> HIDE DEF reached
    <3> QED
      BY <2>1, FS_EmptySet
  <2>4. \A k, m \in Nat : m # 0 => k \div m \in Nat
    OBVIOUS
  <2> HIDE DEF reached, latency
  <2> QED
    BY <2>1, <2>2, <2>3, <2>4
<1>4. /\ Cardinality({i \in DOMAIN items : items[i].reachable}) \in Nat
      /\ n - Cardinality({i \in DOMAIN items : items[i].reachable}) \in Nat
      /\ Cardinality({i \in DOMAIN items : items[i].score >= 50}) \in Nat
      /\ Cardinality({i \in DOMAIN items : Suspicious(items[i])}) \in Nat
      /\ Cardinality({i \in DOMAIN items : CleanScored(items[i])}) \in Nat
      /\ Cardinality({i \in DOMAIN items : Erroneous(items[i])}) \in Nat
  BY <1>2
<1> QED
  BY <1>1, <1>3, <1>4 DEF Summarize

\* Counted by a key, the members of a set are as many as there are.
LEMMA TotalOfParts ==
    ASSUME NEW S, IsFiniteSet(S), NEW D, IsFiniteSet(D), NEW key \in [S -> D]
    PROVE  Total([x \in D |-> Cardinality({i \in S : key[i] = x})]) = Cardinality(S)
<1> DEFINE part == [x \in D |-> {i \in S : key[i] = x}]
           n    == [x \in D |-> Cardinality({i \in S : key[i] = x})]
<1>1. \A x \in D : /\ part[x] \subseteq S
                   /\ n[x] = Cardinality(part[x])
                   /\ \A i \in part[x] : key[i] = x
  OBVIOUS
<1>2. \A i \in S : key[i] \in D /\ i \in part[key[i]]
  OBVIOUS
<1>3. DOMAIN n = D
  OBVIOUS
<1> HIDE DEF part, n
<1>4. \A x \in D : /\ n[x] \in Nat
                   /\ \E f : f \in Bijection(1..n[x], part[x])
  <2> SUFFICES ASSUME NEW x \in D
               PROVE  /\ n[x] \in Nat
                      /\ \E f : f \in Bijection(1..n[x], part[x])
    OBVIOUS
  <2>1. IsFiniteSet(part[x])
    BY <1>1, FS_Subset
  <2>2. Cardinality(part[x]) \in Nat /\ ExistsBijection(1..Cardinality(part[x]), part[x])
    BY <2>1, FS_CardinalityType
  <2> QED
    BY <1>1, <2>2 DEF ExistsBijection
<1>5. n \in [D -> Nat]
  <2>1. n = [x \in D |-> n[x]]
    BY DEF n
  <2> QED
    BY <1>4, <2>1
<1> DEFINE count == [x \in D |-> CHOOSE f : f \in Bijection(1..n[x], part[x])]
<1>6. \A x \in D : count[x] \in Bijection(1..n[x], part[x])
  BY <1>4
<1> HIDE DEF count
<1>7. \A x \in D : /\ \A k \in 1..n[x] : count[x][k] \in part[x]
                   /\ \A i \in part[x] : \E k \in 1..n[x] : count[x][k] = i
                   /\ \A j, k \in 1..n[x] : count[x][j] = count[x][k] => j = k
  BY <1>6 DEF Bijection, Injection, Surjection, IsInjective
<1> DEFINE U    == Units(n)
           unit == [u \in U |-> count[u[1]][u[2]]]
<1>8. /\ \A u \in U : u[1] \in D /\ u[2] \in 1..n[u[1]] /\ u = <<u[1], u[2]>>
      /\ \A x \in D : \A k \in 1..n[x] : <<x, k>> \in U
  BY <1>3 DEF Units
<1>9. IsFiniteSet(U) /\ Total(n) = Cardinality(U)
  BY <1>5, TotalType
<1> HIDE DEF U
<1>10. unit \in Surjection(U, S)
  <2>1. \A u \in U : unit[u] \in S
    BY <1>1, <1>7, <1>8
  <2>2. \A i \in S : \E u \in U : unit[u] = i
    <3> SUFFICES ASSUME NEW i \in S PROVE \E u \in U : unit[u] = i
      OBVIOUS
    <3>1. PICK k \in 1..n[key[i]] : count[key[i]][k] = i
      BY <1>2, <1>7
    <3>2. <<key[i], k>> \in U
      BY <1>2, <1>8
    <3>3. unit[<<key[i], k>>] = i
      BY <3>1, <3>2
    <3> QED
      BY <3>2, <3>3
  <2>3. unit \in [U -> S]
    BY <2>1
  <2> HIDE DEF unit
  <2> QED
    BY <2>2, <2>3 DEF Surjection
<1>11. unit \in Injection(U, S)
  <2>1. \A u, v \in U : unit[u] = unit[v] => u = v
    <3> SUFFICES ASSUME NEW u \in U, NEW v \in U, unit[u] = unit[v]
                 PROVE  u = v
      OBVIOUS
    <3>1. count[u[1]][u[2]] = count[v[1]][v[2]]
      OBVIOUS
    <3>2. u[1] = v[1]
      <4>1. key[count[u[1]][u[2]]] = u[1] /\ key[count[v[1]][v[2]]] = v[1]
        BY <1>1, <1>7, <1>8
      <4> QED
        BY <3>1, <4>1
    <3>3. u[2] = v[2]
      BY <1>7, <1>8, <3>1, <3>2
    <3> QED
      BY <1>8, <3>2, <3>3
  <2>2. unit \in [U -> S]
    BY <1>10 DEF Surjection
  <2> HIDE DEF unit
  <2> QED
    BY <2>1, <2>2 DEF Injection, IsInjective
<1> HIDE DEF unit
<1>12. Cardinality(S) = Cardinality(U)
  BY <1>9, <1>10, <1>11, FS_Surjection
<1> QED
  BY <1>9, <1>12 DEF n

\* How many of some places of a list hold an element of V.
CountIn(list, places, V) == Cardinality({i \in places : list[i] \in V})

\* A loop that takes some elements takes each as often as it is among them.
LEMMA KeepCounts ==
    ASSUME NEW T, NEW list \in Seq(T), NEW S \in SUBSET (DOMAIN list), NEW V
    PROVE  CountIn(Keep(list, S), DOMAIN Keep(list, S), V) = CountIn(list, S, V)
<1> DEFINE N   == Cardinality(S)
           new == Keep(list, S)
           K   == {k \in 1..N : new[k] \in V}
           I   == {i \in S : list[i] \in V}
<1>1. N \in Nat /\ new \in Seq(T) /\ Len(new) = N /\ InOrder(new, list, S, Ascending(S))
  BY KeepInOrder
<1>2. DOMAIN new = 1..N
  BY <1>1, LenProperties
<1>3. S \in SUBSET Int
  BY LenProperties
<1>4. PICK places \in [1..N -> S] :
         /\ new = [k \in 1..N |-> list[places[k]]]
         /\ \A i \in S : \E k \in 1..N : places[k] = i
         /\ \A j, k \in 1..N : j < k => <<places[j], places[k]>> \in Ascending(S)
  BY <1>1 DEF InOrder
<1> HIDE DEF N, new
<1> DEFINE kept == [k \in K |-> places[k]]
<1>5. \A k \in 1..N : places[k] \in S /\ new[k] = list[places[k]]
  BY <1>4
<1>6. kept \in Surjection(K, I)
  <2>1. \A k \in K : kept[k] \in I
    BY <1>5
  <2>2. \A i \in I : \E k \in K : kept[k] = i
    BY <1>4, <1>5
  <2>3. kept \in [K -> I]
    BY <2>1
  <2> HIDE DEF kept, K, I
  <2> QED
    BY <2>2, <2>3 DEF Surjection
<1>7. kept \in Injection(K, I)
  <2>1. \A j, k \in 1..N : places[j] = places[k] => j = k
    <3>1. \A j, k \in 1..N : j < k => places[j] < places[k]
      BY <1>4 DEF Ascending
    <3>2. \A j \in 1..N : places[j] \in Int
      BY <1>3, <1>5
    <3>3. \A j, k \in 1..N : j = k \/ j < k \/ k < j
      BY <1>1
    <3> QED
      BY <3>1, <3>2, <3>3
  <2>2. \A j, k \in K : kept[j] = kept[k] => j = k
    BY <2>1
  <2>3. kept \in [K -> I]
    BY <1>6 DEF Surjection
  <2> HIDE DEF kept, K, I
  <2> QED
    BY <2>2, <2>3 DEF Injection, IsInjective
<1>8. IsFiniteSet(K)
  <2>1. IsFiniteSet(1..N)
    BY <1>1, FS_Interval
  <2>2. K \subseteq 1..N
    OBVIOUS
  <2> HIDE DEF K
  <2> QED
    BY <2>1, <2>2, FS_Subset
<1> HIDE DEF kept, K, I
<1>9. Cardinality(K) = Cardinality(I)
  BY <1>6, <1>7, <1>8, FS_Surjection
<1> QED
  BY <1>2, <1>9 DEF CountIn, K, I, new

LEMMA KeepMembers ==
    ASSUME NEW T, NEW list \in Seq(T), NEW S \in SUBSET (DOMAIN list)
    PROVE  Keep(list, S) \in Seq(T) /\ Members(Keep(list, S)) = {list[i] : i \in S}
<1> DEFINE n   == Cardinality(S)
           new == Keep(list, S)
<1>1. new \in Seq(T) /\ InOrder(new, list, S, Ascending(S))
  BY KeepInOrder
<1>2. PICK places \in [1..n -> S] :
         /\ new = [k \in 1..n |-> list[places[k]]]
         /\ \A i \in S : \E k \in 1..n : places[k] = i
  BY <1>1 DEF InOrder
<1> HIDE DEF n, new
<1>3. DOMAIN new = 1..n /\ \A k \in 1..n : places[k] \in S /\ new[k] = list[places[k]]
  BY <1>2
<1>4. \A i \in S : \E k \in 1..n : new[k] = list[i]
  BY <1>2, <1>3
<1>5. Members(new) = {list[i] : i \in S}
  BY <1>3, <1>4 DEF Members
<1> QED
  BY <1>1, <1>5 DEF new

LEMMA MembersOf ==
    ASSUME NEW T, NEW list \in Seq(T)
    PROVE  Members(list) \subseteq T
BY LenProperties, ElementOfSeq DEF Members

LEMMA ConcatMembers ==
    ASSUME NEW T, NEW a \in Seq(T), NEW b \in Seq(T)
    PROVE  a \o b \in Seq(T) /\ Members(a \o b) = Members(a) \cup Members(b)
<1>1. /\ a \o b \in Seq(T) /\ Len(a \o b) = Len(a) + Len(b)
      /\ \A i \in 1..(Len(a) + Len(b)) :
            (a \o b)[i] = IF i <= Len(a) THEN a[i] ELSE b[i - Len(a)]
  BY ConcatProperties
<1>2. PICK m \in Nat : m = Len(a) /\ DOMAIN a = 1..m
  BY LenProperties
<1>3. PICK n \in Nat : n = Len(b) /\ DOMAIN b = 1..n
  BY LenProperties
<1> DEFINE c == a \o b
<1>4. DOMAIN c = 1..(m + n) /\ \A i \in 1..(m + n) : c[i] = IF i <= m THEN a[i] ELSE b[i - m]
  BY <1>1, <1>2, <1>3, LenProperties
<1> HIDE DEF c
<1>5. \A i \in 1..m : i \in 1..(m + n) /\ c[i] = a[i]
  BY <1>4
<1>6. \A i \in 1..n : m + i \in 1..(m + n) /\ c[m + i] = b[i]
  BY <1>4
<1>7. \A i \in 1..(m + n) : (i \in 1..m /\ c[i] = a[i]) \/ (i - m \in 1..n /\ c[i] = b[i - m])
  BY <1>4
<1>8. Members(c) = Members(a) \cup Members(b)
  <2>1. \A x \in Members(a) : x \in Members(c)
    BY <1>2, <1>4, <1>5 DEF Members
  <2>2. \A x \in Members(b) : x \in Members(c)
    BY <1>3, <1>4, <1>6 DEF Members
  <2>3. \A x \in Members(c) : x \in Members(a) \/ x \in Members(b)
    BY <1>2, <1>3, <1>4, <1>7 DEF Members
  <2> QED
    BY <2>1, <2>2, <2>3
<1> QED
  BY <1>1, <1>8 DEF c

\* Lists one after the other have what is in one of them.
LEMMA FlattenMembers ==
    ASSUME NEW T, NEW lists \in Seq(Seq(T))
    PROVE  /\ Flatten(lists) \in Seq(T)
           /\ Members(Flatten(lists)) = UNION {Members(lists[n]) : n \in DOMAIN lists}
<1> DEFINE row    == [n \in DOMAIN lists |-> {n} \X DOMAIN lists[n]]
           places == UNION {{n} \X DOMAIN lists[n] : n \in DOMAIN lists}
           order  == {pair \in places \X places :
                         \/ pair[1][1] < pair[2][1]
                         \/ pair[1][1] = pair[2][1] /\ pair[1][2] < pair[2][2]}
           N      == Cardinality(places)
           all    == Enumerate(places, order)
           flat   == Flatten(lists)
<1>1. /\ Len(lists) \in Nat /\ DOMAIN lists = 1..Len(lists)
      /\ \A n \in DOMAIN lists :
            /\ lists[n] \in Seq(T) /\ Len(lists[n]) \in Nat
            /\ DOMAIN lists[n] = 1..Len(lists[n])
            /\ \A k \in DOMAIN lists[n] : lists[n][k] \in T
  BY LenProperties, ElementOfSeq
<1>2. /\ \A p \in places : /\ p[1] \in DOMAIN lists /\ p[2] \in DOMAIN lists[p[1]]
                           /\ p = <<p[1], p[2]>> /\ p[1] \in Int /\ p[2] \in Int
      /\ \A n \in DOMAIN lists : \A k \in DOMAIN lists[n] : <<n, k>> \in places
  BY <1>1
<1>3. IsFiniteSet(places)
  <2> DEFINE rows == {row[n] : n \in DOMAIN lists}
  <2>1. places = UNION rows
    OBVIOUS
  <2>2. row \in Surjection(DOMAIN lists, rows)
    BY Zenon DEF Surjection
  <2>3. IsFiniteSet(DOMAIN lists)
    BY <1>1, FS_Interval
  <2>4. \A n \in DOMAIN lists : IsFiniteSet(row[n])
    <3> SUFFICES ASSUME NEW n \in DOMAIN lists PROVE IsFiniteSet({n} \X DOMAIN lists[n])
      OBVIOUS
    <3>1. PICK k \in Nat : DOMAIN lists[n] = 1..k
      BY <1>1
    <3>2. IsFiniteSet({n}) /\ IsFiniteSet(1..k)
      <4>1. 1 \in Int /\ k \in Int
        OBVIOUS
      <4>2. IsFiniteSet(1..k)
        BY <4>1, FS_Interval
      <4> QED
        BY <4>2, FS_Singleton
    <3> QED
      BY <3>1, <3>2, FS_Product
  <2>5. \A C \in rows : IsFiniteSet(C)
    BY <2>4
  <2> HIDE DEF places, rows, row
  <2> QED
    BY <2>1, <2>2, <2>3, <2>5, FS_Surjection, FS_UNION
<1>4. Orders(places, order)
  <2>1. \A p, q \in places : <<p, q>> \in order
           <=> p[1] < q[1] \/ (p[1] = q[1] /\ p[2] < q[2])
    OBVIOUS
  <2> HIDE DEF places, order
  <2>2. \A p, q \in places : p[1] = q[1] /\ p[2] = q[2] => p = q
    BY <1>2
  <2>3. \A p \in places : <<p, p>> \notin order
    <3> SUFFICES ASSUME NEW p \in places, <<p, p>> \in order PROVE FALSE
      OBVIOUS
    <3>1. p[1] \in Int /\ p[2] \in Int
      BY <1>2
    <3>2. p[1] < p[1] \/ (p[1] = p[1] /\ p[2] < p[2])
      BY <2>1
    <3> QED
      BY <3>1, <3>2
  <2>4. \A p, q \in places : p = q \/ <<p, q>> \in order \/ <<q, p>> \in order
    <3> SUFFICES ASSUME NEW p \in places, NEW q \in places, <<p, q>> \notin order,
                        <<q, p>> \notin order
                 PROVE  p = q
      OBVIOUS
    <3>1. p[1] \in Int /\ p[2] \in Int /\ q[1] \in Int /\ q[2] \in Int
      BY <1>2
    <3>2. ~(p[1] < q[1] \/ (p[1] = q[1] /\ p[2] < q[2]))
      BY <2>1
    <3>3. ~(q[1] < p[1] \/ (q[1] = p[1] /\ q[2] < p[2]))
      BY <2>1
    <3>4. p[1] = q[1] /\ p[2] = q[2]
      BY <3>1, <3>2, <3>3
    <3> QED
      BY <2>2, <3>4
  <2>5. \A p, q, r \in places : <<p, q>> \in order /\ <<q, r>> \in order => <<p, r>> \in order
    <3> SUFFICES ASSUME NEW p \in places, NEW q \in places, NEW r \in places,
                        <<p, q>> \in order, <<q, r>> \in order
                 PROVE  <<p, r>> \in order
      OBVIOUS
    <3>1. /\ p[1] \in Int /\ q[1] \in Int /\ r[1] \in Int
          /\ p[2] \in Int /\ q[2] \in Int /\ r[2] \in Int
      BY <1>2
    <3>2. /\ p[1] < q[1] \/ (p[1] = q[1] /\ p[2] < q[2])
          /\ q[1] < r[1] \/ (q[1] = r[1] /\ q[2] < r[2])
      BY <2>1
    <3>3. p[1] < r[1] \/ (p[1] = r[1] /\ p[2] < r[2])
      BY <3>1, <3>2
    <3> QED
      BY <2>1, <3>3
  <2> QED
    BY <2>3, <2>4, <2>5 DEF Orders
<1>5. flat = [k \in DOMAIN all |-> lists[all[k][1]][all[k][2]]]
  BY DEF Flatten
<1> HIDE DEF places, order
<1>6. /\ N \in Nat /\ DOMAIN all = 1..N
      /\ \A k \in 1..N : all[k] \in places
      /\ \A p \in places : \E k \in 1..N : all[k] = p
  BY <1>3, <1>4, EnumerateInOrder
<1> HIDE DEF N, all, flat
<1>7. /\ DOMAIN flat = 1..N
      /\ \A k \in 1..N : /\ all[k][1] \in DOMAIN lists /\ all[k][2] \in DOMAIN lists[all[k][1]]
                         /\ flat[k] = lists[all[k][1]][all[k][2]]
  BY <1>2, <1>5, <1>6
<1>8. flat \in Seq(T)
  <2>1. \A k \in 1..N : flat[k] \in T
    BY <1>1, <1>7
  <2>2. flat \in [1..N -> T]
    <3>1. flat = [k \in 1..N |-> flat[k]]
      BY <1>5, <1>6
    <3> QED
      BY <2>1, <3>1
  <2> QED
    BY <1>6, <2>2, SeqDef
<1>9. \A n \in DOMAIN lists : \A k \in DOMAIN lists[n] : \E j \in 1..N : flat[j] = lists[n][k]
  <2> SUFFICES ASSUME NEW n \in DOMAIN lists, NEW k \in DOMAIN lists[n]
               PROVE  \E j \in 1..N : flat[j] = lists[n][k]
    OBVIOUS
  <2>1. PICK j \in 1..N : all[j] = <<n, k>>
    BY <1>2, <1>6
  <2>2. all[j][1] = n /\ all[j][2] = k
    BY <2>1
  <2> QED
    BY <1>7, <2>2
<1>10. Members(flat) = UNION {Members(lists[n]) : n \in DOMAIN lists}
  <2>1. \A x \in Members(flat) : \E n \in DOMAIN lists : x \in Members(lists[n])
    <3> SUFFICES ASSUME NEW x \in Members(flat)
                 PROVE  \E n \in DOMAIN lists : x \in Members(lists[n])
      OBVIOUS
    <3>1. PICK k \in 1..N : x = flat[k]
      BY <1>7 DEF Members
    <3>2. PICK n \in DOMAIN lists : n = all[k][1]
      BY <1>7
    <3>3. all[k][2] \in DOMAIN lists[n] /\ x = lists[n][all[k][2]]
      BY <1>7, <3>1, <3>2
    <3> QED
      BY <3>3 DEF Members
  <2>2. \A n \in DOMAIN lists : \A x \in Members(lists[n]) : x \in Members(flat)
    <3> SUFFICES ASSUME NEW n \in DOMAIN lists, NEW x \in Members(lists[n])
                 PROVE  x \in Members(flat)
      OBVIOUS
    <3>1. PICK k \in DOMAIN lists[n] : x = lists[n][k]
      BY DEF Members
    <3>2. PICK j \in 1..N : flat[j] = lists[n][k]
      BY <1>9
    <3> QED
      BY <1>7, <3>1, <3>2 DEF Members
  <2> QED
    BY <2>1, <2>2
<1> QED
  BY <1>8, <1>10 DEF flat
====
