---------------------------- MODULE ListView_proofs ----------------------------
(***************************************************************************)
(* The list of the terminal UI, for any lists, results, texts and labels:  *)
(* what it shows is computed from what it holds, the cursor is on a row,   *)
(* and no endpoint gets more rows than it had.                             *)
(***************************************************************************)
EXTENDS ListView, BatchItems_proofs

\* recompute brings the visible rows up to date, wherever the cursor is put.
LEMMA RecomputeRefreshes ==
    ASSUME NEW position, Recompute(position)
    PROVE  VisibleFresh'
BY DEF Recompute, VisibleFresh

\* A step that leaves the list, the sort, the filter and the search alone
\* leaves the visible rows as fresh as they were.
LEMMA UntouchedStaysFresh ==
    ASSUME VisibleFresh,
           UNCHANGED <<items, visible, sortKey, filterKey, search>>
    PROVE  VisibleFresh'
BY DEF VisibleFresh

\* No export touches the list.
LEMMA ExportsTouchNothing ==
    ASSUME VisibleFresh, ExportKey
    PROVE  VisibleFresh'
<1>1. UNCHANGED <<items, visible, sortKey, filterKey, search>>
  <2>1. ASSUME NEW groupBy, SplitExport(groupBy) \/ SplitExportFails(groupBy)
        PROVE  UNCHANGED <<items, visible, sortKey, filterKey, search>>
    BY <2>1 DEF SplitExport, SplitExportFails, listVars
  <2>2. ASSUME NEW kind, Export(kind) \/ ExportFails(kind)
        PROVE  UNCHANGED <<items, visible, sortKey, filterKey, search>>
    BY <2>2 DEF Export, ExportFails, listVars
  <2> QED BY <2>1, <2>2, ExportKey DEF ExportKey
<1> QED BY <1>1, UntouchedStaysFresh

\* The visible rows are never behind the list, the sort, the filter or the
\* search (recompute, model.go:381): every key and every message that changes
\* one of them computes the rows again.
THEOREM ListIsFresh == Spec => []VisibleFresh
<1>1. Init => VisibleFresh
  BY DEF Init, VisibleFresh
<1>2. VisibleFresh /\ [Next]_vars => VisibleFresh'
  <2> SUFFICES ASSUME VisibleFresh, [Next]_vars
               PROVE  VisibleFresh'
    OBVIOUS
  <2>1. CASE Navigate
    BY <2>1, UntouchedStaysFresh DEF Navigate
  <2>2. CASE CycleSort
    BY <2>2, RecomputeRefreshes DEF CycleSort
  <2>3. CASE CycleFilter
    BY <2>3, RecomputeRefreshes DEF CycleFilter
  <2>4. CASE LeaveFilter
    BY <2>4, RecomputeRefreshes DEF LeaveFilter
  <2>5. CASE SwitchMode
    BY <2>5, UntouchedStaysFresh DEF SwitchMode, listVars
  <2>6. CASE DeduplicateCurrent
    BY <2>6, RecomputeRefreshes DEF DeduplicateCurrent
  <2>7. ASSUME NEW text \in Texts, Type(text)
        PROVE  VisibleFresh'
    BY <2>7, RecomputeRefreshes DEF Type
  <2>8. CASE ExportKey
    BY <2>8, ExportsTouchNothing
  <2>9. CASE ActionStarted
    BY <2>9, RecomputeRefreshes DEF ActionStarted
  <2>10. CASE ActionComplete
    BY <2>10, RecomputeRefreshes DEF ActionComplete
  <2>11. ASSUME NEW item \in Arrivals, CheckResult(item)
         PROVE  VisibleFresh'
    BY <2>11 DEF CheckResult, VisibleFresh
  <2>12. CASE UNCHANGED vars
    BY <2>12, UntouchedStaysFresh DEF vars, listVars
  <2> QED
    BY <2>1, <2>2, <2>3, <2>4, <2>5, <2>6, <2>7, <2>8, <2>9, <2>10, <2>11, <2>12
       DEF Next, Key
<1> QED BY <1>1, <1>2, PTL DEF Spec

-----------------------------------------------------------------------------
(* What the list is.                                                       *)

LEMMA RowsSort == \A row \in Row : Sorts(row)
BY DEF Row, Sorts

LEMMA CyclesKnown ==
    /\ Len(SortCycle) = 5 /\ Len(FilterCycle) = 7
    /\ \A sort \in 0..4 : SortCycle[sort + 1] \in SortModes \cup {"purity"}
BY DEF SortCycle, FilterCycle, SortModes

\* The pairs of places of which the sort by purity puts the first before.
RiskierBefore(rows) ==
    {pair \in (DOMAIN rows) \X (DOMAIN rows) : Riskier(rows[pair[1]], rows[pair[2]])}

\* The sort by purity compares a key.
LEMMA RiskierByKey ==
    ASSUME NEW a \in Row, NEW b \in Row, NEW c \in Row
    PROVE  /\ Riskier(a, b) => ~Riskier(b, a)
           /\ Riskier(a, c) => Riskier(a, b) \/ Riskier(b, c)
<1>1. /\ a.score \in Int /\ b.score \in Int /\ c.score \in Int
      /\ a.purity \in Verdicts /\ b.purity \in Verdicts /\ c.purity \in Verdicts
  BY DEF Row
<1>2. /\ PurityRank("vpn_detected") = 5 /\ PurityRank("vpn_likely") = 4
      /\ PurityRank("suspicious") = 3 /\ PurityRank("unknown") = 2 /\ PurityRank("clean") = 1
  BY DEF PurityRank
<1>3. /\ \A x \in Verdicts : PurityRank(x) \in Int
      /\ \A x, y \in Verdicts : PurityRank(x) = PurityRank(y) => x = y
  BY <1>2 DEF Verdicts
<1> QED
  BY <1>1, <1>3 DEF Riskier

LEMMA RiskierInOrder ==
    ASSUME NEW rows \in Seq(Row)
    PROVE  /\ StableSort(rows, Riskier) \in Seq(Row)
           /\ Len(StableSort(rows, Riskier)) = Len(rows)
           /\ InOrder(StableSort(rows, Riskier), rows, DOMAIN rows,
                      Stable(DOMAIN rows, RiskierBefore(rows)))
<1> DEFINE D      == DOMAIN rows
           before == RiskierBefore(rows)
<1>1. /\ Len(rows) \in Nat /\ D = 1..Len(rows) /\ D \in SUBSET Int
      /\ \A i \in D : rows[i] \in Row
  BY LenProperties, ElementOfSeq
<1>2. \A i, j \in D : <<i, j>> \in before <=> Riskier(rows[i], rows[j])
  BY DEF RiskierBefore
<1>3. Keyed(D, before)
  <2> HIDE DEF before
  <2> QED
    BY <1>1, <1>2, RiskierByKey DEF Keyed
<1>4. Orders(D, Stable(D, before))
  BY <1>1, <1>3, StableOrders
<1>5. StableSort(rows, Riskier) = Picked(rows, Enumerate(D, Stable(D, before)))
  <2>1. \A pair \in D \X D :
           /\ pair \in before <=> Riskier(rows[pair[1]], rows[pair[2]])
           /\ <<pair[2], pair[1]>> \in before <=> Riskier(rows[pair[2]], rows[pair[1]])
    BY DEF RiskierBefore
  <2>2. Stable(D, before) =
          {pair \in D \X D :
              \/ Riskier(rows[pair[1]], rows[pair[2]])
              \/ pair[1] < pair[2] /\ ~Riskier(rows[pair[2]], rows[pair[1]])}
    BY <2>1 DEF Stable
  <2> QED
    BY <2>2 DEF StableSort, StableOrder
<1>6. Cardinality(D) = Len(rows)
  BY <1>1, FS_Interval
<1> QED
  BY <1>4, <1>5, <1>6, PickedInOrder

\* What recompute makes of a list is a list.
LEMMA ViewIsList ==
    ASSUME NEW rows \in Seq(Row), NEW sort \in 0..4, NEW filter, NEW text
    PROVE  View(rows, sort, filter, text) \in Seq(Row)
<1> DEFINE passed == FilterItems(rows, FilterCycle[filter + 1])
           shown  == {i \in DOMAIN passed : MatchesSearch(passed[i], text)}
           left   == Keep(passed, shown)
<1>1. passed \in Seq(Row)
  BY FilterInOrder
<1> HIDE DEF passed
<1>2. left \in Seq(Row)
  <2>1. shown \in SUBSET (DOMAIN passed)
    OBVIOUS
  <2> HIDE DEF shown
  <2> QED
    BY <1>1, <2>1, KeepInOrder
<1> HIDE DEF left
<1>3. StableSort(left, Riskier) \in Seq(Row)
  BY <1>2, RiskierInOrder
<1>4. SortCycle[sort + 1] # "purity" => SortItems(left, SortCycle[sort + 1]) \in Seq(Row)
  <2>1. SortCycle[sort + 1] # "purity" => SortCycle[sort + 1] \in SortModes
    BY CyclesKnown
  <2> QED
    BY <1>2, <2>1, RowsSort, SortInOrder
<1> QED
  BY <1>3, <1>4 DEF View, passed, shown, left

ListTypes ==
    /\ items \in Seq(Row)
    /\ visible \in Seq(Row)
    /\ cursor \in Int
    /\ sortKey \in 0..4

\* The inductive invariant: of the cursor nothing is known but that it is on a
\* row, which is what each handler has to see to.
ListInv == ListTypes /\ CursorOnRow

\* Of a list the cursor is on a row or, when there is none, on the first place.
LEMMA ClampsToRow ==
    ASSUME NEW rows \in Seq(Row), NEW position \in Int
    PROVE  /\ Clamp(position, Len(rows)) \in Int
           /\ IF rows = <<>> THEN Clamp(position, Len(rows)) = 0
              ELSE Clamp(position, Len(rows)) < Len(rows)
<1>1. Len(rows) \in Nat /\ (rows = <<>> <=> Len(rows) = 0)
  BY LenProperties, EmptySeq
<1>2. PICK length \in Nat : length = Len(rows)
  BY <1>1
<1>3. /\ Clamp(position, length) \in Int
      /\ length = 0 => Clamp(position, length) = 0
      /\ length # 0 => Clamp(position, length) < length
  BY DEF Clamp
<1> QED
  BY <1>1, <1>2, <1>3

LEMMA RecomputeClamps ==
    ASSUME items' \in Seq(Row), sortKey' \in 0..4, NEW position \in Int, Recompute(position)
    PROVE  ListInv'
<1>1. visible' \in Seq(Row)
  BY ViewIsList DEF Recompute
<1>2. cursor' = Clamp(position, Len(visible'))
  BY DEF Recompute
<1>3. PICK rows \in Seq(Row) : rows = visible'
  BY <1>1
<1> QED
  BY <1>1, <1>2, <1>3, ClampsToRow DEF ListInv, ListTypes, CursorOnRow, Selected

LEMMA UntouchedKeepsCursor ==
    ASSUME ListInv, UNCHANGED <<items, visible, cursor, sortKey>>
    PROVE  ListInv'
BY DEF ListInv, ListTypes, CursorOnRow, Selected

LEMMA PlacedIsList ==
    ASSUME items \in Seq(Row), NEW item \in Row
    PROVE  Placed(item) \in Seq(Row)
<1>1. Append(items, item) \in Seq(Row)
  BY AppendProperties
<1>2. \A i : [items EXCEPT ![i] = item] \in Seq(Row)
  <2>1. Len(items) \in Nat /\ items \in [1..Len(items) -> Row]
    BY LenProperties
  <2>2. \A i : [items EXCEPT ![i] = item] \in [1..Len(items) -> Row]
    BY <2>1
  <2> QED
    BY <2>1, <2>2, SeqDef
<1> QED
  BY <1>1, <1>2 DEF Placed

LEMMA FirstsAreList ==
    ASSUME items \in Seq(Row)
    PROVE  Keep(items, Firsts(items)) \in Seq(Row)
<1>1. PICK rows \in Seq(Row) : rows = items
  OBVIOUS
<1>2. Firsts(rows) \in SUBSET (DOMAIN rows)
  BY DEF Firsts
<1> QED
  BY <1>1, <1>2, KeepInOrder

LEMMA InitList == Init => ListInv
<1> SUFFICES ASSUME Init PROVE ListInv
  OBVIOUS
<1>1. items \in Seq(Row) /\ sortKey = 0 /\ cursor = 0
  BY SnapshotsAssumption DEF Init
<1>2. PICK rows \in Seq(Row) : rows = visible
  <2>1. visible = View(items, sortKey, filterKey, search)
    BY Zenon DEF Init
  <2>2. sortKey \in 0..4
    BY <1>1
  <2> QED
    BY <1>1, <2>1, <2>2, ViewIsList
<1>3. rows # <<>> => 0 < Len(rows)
  BY LenProperties, EmptySeq
<1> QED
  BY <1>1, <1>2, <1>3 DEF ListInv, ListTypes, CursorOnRow, Selected

LEMMA ListStep == ListInv /\ [Next]_vars => ListInv'
<1> SUFFICES ASSUME ListInv, [Next]_vars PROVE ListInv'
  OBVIOUS
<1>1. /\ items \in Seq(Row) /\ visible \in Seq(Row) /\ cursor \in Int /\ sortKey \in 0..4
      /\ Len(visible) \in Nat
  BY LenProperties DEF ListInv, ListTypes
<1>2. CASE UNCHANGED vars
  BY <1>2, UntouchedKeepsCursor DEF vars, listVars
<1>3. CASE Navigate
  <2>1. PICK rows \in Seq(Row) : rows = visible
    BY <1>1
  <2>2. Len(rows) \in Nat /\ (rows = <<>> <=> Len(rows) = 0)
    BY LenProperties, EmptySeq
  <2>3. ASSUME NEW delta \in {-10, -1, 1, 10}, cursor' = Moved(delta)
        PROVE  cursor' \in Int /\ IF rows = <<>> THEN cursor' = 0 ELSE cursor' < Len(rows)
    <3>1. cursor + delta \in Int
      BY <1>1
    <3> QED
      BY <2>1, <2>3, <3>1, ClampsToRow DEF Moved
  <2>4. cursor' \in Int /\ IF rows = <<>> THEN cursor' = 0 ELSE cursor' < Len(rows)
    BY <1>3, <2>1, <2>2, <2>3 DEF Navigate
  <2> QED
    BY <1>1, <1>3, <2>1, <2>4 DEF Navigate, ListInv, ListTypes, CursorOnRow, Selected
<1>4. CASE CycleSort
  <2>1. sortKey' \in 0..4
    BY <1>1, <1>4, CyclesKnown DEF CycleSort
  <2> QED
    BY <1>1, <1>4, <2>1, RecomputeClamps DEF CycleSort
<1>5. CASE CycleFilter \/ LeaveFilter
  BY <1>1, <1>5, RecomputeClamps DEF CycleFilter, LeaveFilter
<1>6. ASSUME NEW text \in Texts, Type(text) PROVE ListInv'
  BY <1>1, <1>6, RecomputeClamps DEF Type
<1>7. CASE SwitchMode
  BY <1>7, UntouchedKeepsCursor DEF SwitchMode, listVars
<1>8. CASE ExportKey
  <2>1. UNCHANGED listVars
    BY <1>8 DEF ExportKey, SplitExport, SplitExportFails, Export, ExportFails
  <2> QED
    BY <2>1, UntouchedKeepsCursor DEF listVars
<1>9. CASE DeduplicateCurrent
  BY <1>1, <1>9, FirstsAreList, RecomputeClamps DEF DeduplicateCurrent
<1>10. CASE ActionStarted
  <2>1. << >> \in Seq(Row)
    BY EmptySeq
  <2> QED
    BY <1>1, <1>10, <2>1, RecomputeClamps DEF ActionStarted
<1>11. CASE ActionComplete
  BY <1>1, <1>11, SnapshotsAssumption, RecomputeClamps DEF ActionComplete
<1>12. ASSUME NEW item \in Arrivals, CheckResult(item) PROVE ListInv'
  <2>1. items' \in Seq(Row) /\ sortKey' = sortKey
    BY <1>1, <1>12, ArrivalsAssumption, PlacedIsList DEF CheckResult
  <2>2. visible' = View(items', sortKey, filterKey, search)
    BY <1>12 DEF CheckResult
  <2>3. PICK rows \in Seq(Row) : rows = visible'
    BY <1>1, <2>1, <2>2, ViewIsList
  <2>4. Len(rows) \in Nat /\ (rows = <<>> <=> Len(rows) = 0)
    BY LenProperties, EmptySeq
  <2>5. (cursor' = Len(rows) - 1 /\ rows # <<>>) \/ cursor' = Clamp(cursor, Len(rows))
    BY <1>12, <2>3 DEF CheckResult
  <2>6. cursor' \in Int /\ IF rows = <<>> THEN cursor' = 0 ELSE cursor' < Len(rows)
    <3>1. CASE cursor' = Clamp(cursor, Len(rows))
      BY <1>1, <3>1, ClampsToRow
    <3>2. CASE cursor' = Len(rows) - 1 /\ rows # <<>>
      BY <2>4, <3>2
    <3> QED
      BY <2>5, <3>1, <3>2
  <2> QED
    BY <1>1, <2>1, <2>3, <2>6 DEF ListInv, ListTypes, CursorOnRow, Selected
<1> QED
  BY <1>2, <1>3, <1>4, <1>5, <1>6, <1>7, <1>8, <1>9, <1>10, <1>11, <1>12 DEF Next, Key

\* However rows come, go and change places under it, the cursor is on a visible
\* row while there is one (model.go:415-420).
THEOREM CursorStaysOnRow == Spec => []CursorOnRow
<1>1. ListInv => CursorOnRow
  BY DEF ListInv
<1> QED
  BY <1>1, InitList, ListStep, PTL DEF Spec

-----------------------------------------------------------------------------
(* The rows of an endpoint.                                                *)

\* Where the rows of an endpoint are.
PlacesOf(rows, host) == {i \in DOMAIN rows : Host(rows[i]) = host}

LEMMA RowsFinite ==
    ASSUME NEW rows \in Seq(Row), NEW host
    PROVE  /\ IsFiniteSet(PlacesOf(rows, host))
           /\ RowsOf(rows, host) = Cardinality(PlacesOf(rows, host))
           /\ RowsOf(rows, host) \in Nat
<1>1. Len(rows) \in Nat /\ DOMAIN rows = 1..Len(rows)
  BY LenProperties
<1>2. IsFiniteSet(1..Len(rows))
  BY <1>1, FS_Interval
<1>3. PlacesOf(rows, host) \in SUBSET (1..Len(rows))
  BY <1>1 DEF PlacesOf
<1>4. IsFiniteSet(PlacesOf(rows, host))
  BY <1>2, <1>3, FS_Subset
<1>5. RowsOf(rows, host) = Cardinality(PlacesOf(rows, host))
  BY DEF RowsOf, PlacesOf
<1> QED
  BY <1>4, <1>5, FS_CardinalityType

\* No two rows of an endpoint.
Distinct(rows) == \A i, j \in DOMAIN rows : Host(rows[i]) = Host(rows[j]) => i = j

LEMMA DistinctHaveOne ==
    ASSUME NEW rows \in Seq(Row), Distinct(rows), NEW host
    PROVE  ~(RowsOf(rows, host) > 1)
<1>1. CASE PlacesOf(rows, host) = {}
  BY <1>1, RowsFinite, FS_EmptySet
<1>2. CASE PlacesOf(rows, host) # {}
  <2>1. PICK i : PlacesOf(rows, host) = {i}
    <3>1. PICK i : i \in PlacesOf(rows, host)
      BY <1>2
    <3>2. \A j \in PlacesOf(rows, host) : j = i
      BY <3>1 DEF PlacesOf, Distinct
    <3> QED
      BY <3>1, <3>2
  <2>2. Cardinality({i}) = 1
    BY FS_Singleton
  <2>3. RowsOf(rows, host) = 1
    <3>1. RowsOf(rows, host) = Cardinality(PlacesOf(rows, host))
      BY RowsFinite
    <3> QED
      BY <2>1, <2>2, <3>1
  <2> QED
    BY <2>3
<1> QED
  BY <1>1, <1>2

\* The first row of each endpoint is its only one then.
LEMMA FirstsAreDistinct ==
    ASSUME NEW rows \in Seq(Row)
    PROVE  Distinct(Keep(rows, Firsts(rows)))
<1> DEFINE S   == Firsts(rows)
           n   == Cardinality(S)
           new == Keep(rows, S)
<1>1. S \in SUBSET (DOMAIN rows) /\ S \in SUBSET Int
  BY LenProperties DEF Firsts
<1>2. n \in Nat /\ new \in Seq(Row) /\ Len(new) = n /\ InOrder(new, rows, S, Ascending(S))
  BY <1>1, KeepInOrder
<1>3. PICK places \in [1..n -> S] :
         /\ new = [k \in 1..n |-> rows[places[k]]]
         /\ \A j, k \in 1..n : j < k => <<places[j], places[k]>> \in Ascending(S)
  BY <1>2 DEF InOrder
<1>4. DOMAIN new = 1..n
  BY <1>3
<1>5. ASSUME NEW j \in 1..n, NEW k \in 1..n, j < k PROVE Host(new[j]) # Host(new[k])
  <2>1. places[j] \in S /\ places[k] \in S /\ places[j] < places[k]
    BY <1>3, <1>5 DEF Ascending
  <2>2. places[j] \in 1..(places[k] - 1)
    <3>1. DOMAIN rows = 1..Len(rows) /\ Len(rows) \in Nat
      BY LenProperties
    <3> QED
      BY <1>1, <2>1, <3>1
  <2>3. Host(rows[places[j]]) # Host(rows[places[k]])
    BY <2>1, <2>2 DEF Firsts
  <2> QED
    BY <1>3, <2>3
<1> HIDE DEF n, new
<1>6. \A j, k \in 1..n : j = k \/ j < k \/ k < j
  BY <1>2
<1> QED
  BY <1>4, <1>5, <1>6 DEF Distinct, new, S

\* A result takes the place of a row of its endpoint, or is its only row.
LEMMA PlacedAddsNone ==
    ASSUME NEW rows \in Seq(Row), NEW item \in Row, NEW host,
           rows = items, RowsOf(Placed(item), host) > 1
    PROVE  RowsOf(Placed(item), host) <= RowsOf(rows, host)
<1> DEFINE same == {i \in DOMAIN rows : Host(rows[i]) = Host(item)}
<1>1. /\ Len(rows) \in Nat /\ DOMAIN rows = 1..Len(rows)
      /\ \A i \in DOMAIN rows : rows[i] \in Row
  BY LenProperties, ElementOfSeq
<1>2. CASE same = {}
  <2>1. Placed(item) = Append(rows, item)
    BY <1>2 DEF Placed
  <2>2. PICK new \in Seq(Row) : new = Append(rows, item)
    BY AppendProperties
  <2>3. /\ Len(new) = Len(rows) + 1 /\ DOMAIN new = 1..(Len(rows) + 1)
        /\ new[Len(rows) + 1] = item /\ \A i \in 1..Len(rows) : new[i] = rows[i]
    BY <2>2, LenProperties, AppendProperties
  <2>4. CASE host = Host(item)
    <3>1. PlacesOf(new, host) = {Len(rows) + 1}
      BY <1>1, <1>2, <2>3, <2>4 DEF PlacesOf
    <3>2. RowsOf(new, host) = 1
      BY <3>1, RowsFinite, FS_Singleton
    <3> QED
      BY <2>1, <2>2, <3>2
  <2>5. CASE host # Host(item)
    <3>1. PlacesOf(new, host) = PlacesOf(rows, host)
      BY <1>1, <2>3, <2>5 DEF PlacesOf
    <3>2. RowsOf(new, host) = RowsOf(rows, host) /\ RowsOf(rows, host) \in Nat
      BY <3>1, RowsFinite
    <3> QED
      BY <2>1, <2>2, <3>2
  <2> QED
    BY <2>4, <2>5
<1>3. CASE same # {}
  <2>1. Min(same) \in same
    <3>1. same \in SUBSET Nat
      BY <1>1
    <3>2. PICK first \in same : \A i \in same : first <= i
      <4> DEFINE R == OpToRel(<, Nat)
      <4>1. \A i, j \in Nat : i < j => <<i, j>> \in R
        BY DEF OpToRel
      <4> HIDE DEF same, R
      <4>2. \E least \in same : \A i \in same : <<i, least>> \notin R
        <5>1. IsWellFoundedOn(R, Nat)
          BY NatLessThanWellFounded DEF R
        <5> QED
          BY <1>3, <3>1, <5>1, WFMin
      <4>3. PICK least \in same : \A i \in same : ~(i < least)
        BY <3>1, <4>1, <4>2
      <4> QED
        BY <3>1, <4>3
    <3> HIDE DEF same
    <3> QED
      BY <3>2 DEF Min
  <2>2. PICK place \in same : place = Min(same)
    BY <2>1
  <2>3. Placed(item) = [rows EXCEPT ![place] = item]
    BY <1>3, <2>2 DEF Placed
  <2>4. place \in DOMAIN rows /\ Host(rows[place]) = Host(item)
    BY <2>2
  <2>5. PICK new : new = [rows EXCEPT ![place] = item]
    OBVIOUS
  <2>6. DOMAIN new = DOMAIN rows /\ \A i \in DOMAIN rows : Host(new[i]) = Host(rows[i])
    BY <2>4, <2>5
  <2>7. PlacesOf(new, host) = PlacesOf(rows, host)
    BY <2>6 DEF PlacesOf
  <2>8. RowsOf(new, host) = RowsOf(rows, host)
    BY <2>7 DEF RowsOf, PlacesOf
  <2> QED
    BY <2>3, <2>5, <2>8, RowsFinite
<1> QED
  BY <1>2, <1>3

NoneAdded ==
    \A at \in Positions :
        LET host == Endpoints[at].host
        IN  RowsOf(items', host) > 1 => RowsOf(items', host) <= RowsOf(items, host)

LEMMA NoneAddedStep == ListInv /\ [Next]_vars => NoneAdded
<1> SUFFICES ASSUME ListInv, [Next]_vars, NEW host
             PROVE  RowsOf(items', host) > 1 => RowsOf(items', host) <= RowsOf(items, host)
  BY DEF NoneAdded
<1>1. PICK rows \in Seq(Row) : rows = items
  BY DEF ListInv, ListTypes
<1>2. PICK new \in Seq(Row) : new = items'
  BY ListStep DEF ListInv, ListTypes
<1>3. RowsOf(rows, host) \in Nat /\ RowsOf(new, host) \in Nat
  BY RowsFinite
<1>4. CASE items' = items
  BY <1>1, <1>3, <1>4
<1>5. CASE Distinct(items')
  BY <1>2, <1>5, DistinctHaveOne
<1>6. CASE DeduplicateCurrent
  BY <1>1, <1>5, <1>6, FirstsAreDistinct DEF DeduplicateCurrent
<1>7. CASE ActionStarted
  BY <1>5, <1>7 DEF ActionStarted, Distinct
<1>8. CASE ActionComplete
  <2>1. items' \in Deduped => Distinct(items')
    BY DedupedAssumption DEF Distinct, Host
  <2> QED
    BY <1>4, <1>5, <1>8, <2>1 DEF ActionComplete
<1>9. ASSUME NEW item \in Arrivals, CheckResult(item)
      PROVE  RowsOf(items', host) > 1 => RowsOf(items', host) <= RowsOf(items, host)
  <2>1. item \in Row /\ items' = Placed(item)
    BY <1>9, ArrivalsAssumption DEF CheckResult
  <2> QED
    BY <1>1, <2>1, PlacedAddsNone
<1>10. CASE ExportKey
  <2>1. UNCHANGED listVars
    BY <1>10 DEF ExportKey, SplitExport, SplitExportFails, Export, ExportFails
  <2> QED
    BY <1>4, <2>1 DEF listVars
<1>11. CASE \/ Navigate \/ CycleSort \/ CycleFilter \/ LeaveFilter \/ SwitchMode
            \/ \E text \in Texts : Type(text)
  BY <1>4, <1>11 DEF Navigate, CycleSort, CycleFilter, LeaveFilter, SwitchMode, Type, listVars
<1> QED
  BY <1>4, <1>6, <1>7, <1>8, <1>9, <1>10, <1>11 DEF Next, Key, vars, listVars

\* Whatever arrives and is deduplicated, an endpoint has as many rows as it had
\* before, or one (view.go:48-59).
THEOREM RowsNeverMultiply == Spec => DuplicatesNeverGrow
<1>1. ListInv /\ [Next]_vars => [NoneAdded]_vars
  BY NoneAddedStep
<1>2. DuplicatesNeverGrow <=> [][NoneAdded]_vars
  BY PTL DEF DuplicatesNeverGrow, NoneAdded
<1> QED
  BY <1>1, <1>2, InitList, ListStep, PTL DEF Spec

-----------------------------------------------------------------------------
(* The split export.                                                       *)

\* The rows of a group are those of its label.
LabelledRows(rows, groupBy, label) ==
    {i \in DOMAIN rows : GroupLabel(rows[i], groupBy) = label}

LEMMA GroupWritten ==
    ASSUME NEW rows \in Seq(Row), NEW groupBy, NEW label
    PROVE  LET group == Group(rows, groupBy, label)
           IN  /\ LabelledRows(rows, groupBy, label) # {} => group # <<>>
               /\ Len(EndpointsOf(group)) = Len(group)
               /\ \A host :
                     CountOf(EndpointsOf(group), host)
                       = Cardinality({i \in LabelledRows(rows, groupBy, label) :
                                         Host(rows[i]) = host})
<1> DEFINE S     == LabelledRows(rows, groupBy, label)
           group == Group(rows, groupBy, label)
           hosts == {Host(row) : row \in Row}
<1>1. S \in SUBSET (DOMAIN rows) /\ group = Keep(rows, S)
  BY DEF LabelledRows, Group
<1>2. /\ group \in Seq(Row) /\ Len(group) = Cardinality(S) /\ Len(group) \in Nat
      /\ DOMAIN group = 1..Len(group) /\ \A k \in DOMAIN group : group[k] \in Row
  BY <1>1, KeepInOrder, LenProperties, ElementOfSeq
<1>3. S # {} => group # <<>>
  <2>1. IsFiniteSet(S)
    <3>1. IsFiniteSet(1..Len(rows)) /\ DOMAIN rows = 1..Len(rows)
      BY LenProperties, FS_Interval
    <3> QED
      BY <1>1, <3>1, FS_Subset
  <2>2. S # {} => Cardinality(S) # 0
    BY <2>1, FS_EmptySet
  <2>3. Len(<<>>) = 0
    BY EmptySeq
  <2> QED
    BY <1>2, <2>2, <2>3
<1>4. Len(EndpointsOf(group)) = Len(group)
  <2> HIDE DEF group
  <2>1. PICK n \in Nat : n = Len(group) /\ DOMAIN group = 1..n
    BY <1>2
  <2>2. EndpointsOf(group) \in [1..n -> hosts]
    BY <1>2, <2>1 DEF EndpointsOf
  <2>3. EndpointsOf(group) \in Seq(hosts)
    BY <2>2, SeqDef
  <2>4. PICK m \in Nat : m = Len(EndpointsOf(group)) /\ DOMAIN EndpointsOf(group) = 1..m
    BY <2>3, LenProperties
  <2>5. 1..m = 1..n
    BY <2>2, <2>4
  <2> QED
    BY <2>1, <2>4, <2>5
<1>5. ASSUME NEW host
      PROVE  CountOf(EndpointsOf(group), host)
               = Cardinality({i \in S : Host(rows[i]) = host})
  <2> DEFINE V == {row \in Row : Host(row) = host}
  <2>1. CountIn(group, DOMAIN group, V) = CountIn(rows, S, V)
    <3> HIDE DEF S, group, V
    <3> QED
      BY <1>1, KeepCounts
  <2>2. {k \in DOMAIN group : group[k] \in V} = {k \in DOMAIN group : Host(group[k]) = host}
    BY <1>2
  <2>3. {i \in S : rows[i] \in V} = {i \in S : Host(rows[i]) = host}
    BY <1>1, LenProperties, ElementOfSeq
  <2>4. {k \in DOMAIN EndpointsOf(group) : EndpointsOf(group)[k] = host}
          = {k \in DOMAIN group : Host(group[k]) = host}
    BY DEF EndpointsOf
  <2> QED
    BY <2>1, <2>2, <2>3, <2>4 DEF CountOf, CountIn
<1> QED
  BY <1>3, <1>4, <1>5

\* Every row has the label of a group, and each label has one.
LEMMA LabelsComplete ==
    ASSUME NEW rows \in Seq(Row), NEW groupBy
    PROVE  LET labels == Labels(rows, groupBy)
           IN  /\ Len(labels) \in Nat /\ DOMAIN labels = 1..Len(labels)
               /\ \A i \in DOMAIN rows :
                     \E k \in DOMAIN labels : labels[k] = GroupLabel(rows[i], groupBy)
               /\ \A j, k \in DOMAIN labels : labels[j] = labels[k] => j = k
<1> DEFINE L      == {l \in DOMAIN LabelOrder : Group(rows, groupBy, LabelOrder[l]) # <<>>}
           n      == Cardinality(L)
           labels == Labels(rows, groupBy)
<1>1. L \in SUBSET (DOMAIN LabelOrder) /\ labels = Keep(LabelOrder, L)
  BY DEF Labels
<1>2. LabelOrder \in Seq(STRING) /\ L \in SUBSET Int
  <2>1. DOMAIN LabelOrder = 1..Len(LabelOrder) /\ Len(LabelOrder) \in Nat
    BY LabelsAssumption, LenProperties
  <2>2. DOMAIN LabelOrder \in SUBSET Int
    BY <2>1
  <2> HIDE DEF L
  <2>3. L \in SUBSET Int
    BY <1>1, <2>2
  <2> QED
    BY <2>3, LabelsAssumption
<1>3. /\ n \in Nat /\ labels \in Seq(STRING) /\ Len(labels) = n
      /\ InOrder(labels, LabelOrder, L, Ascending(L))
  BY <1>1, <1>2, KeepInOrder
<1>4. DOMAIN labels = 1..n
  BY <1>3, LenProperties
<1>5. PICK places \in [1..n -> L] :
         /\ labels = [k \in 1..n |-> LabelOrder[places[k]]]
         /\ \A l \in L : \E k \in 1..n : places[k] = l
         /\ \A j, k \in 1..n : j < k => <<places[j], places[k]>> \in Ascending(L)
  BY <1>3 DEF InOrder
<1>6. ASSUME NEW i \in DOMAIN rows
      PROVE  \E k \in 1..n : labels[k] = GroupLabel(rows[i], groupBy)
  <2>1. rows[i].country \in Names /\ rows[i].protocol \in Names
    <3>1. rows[i] \in Row
      BY LenProperties, ElementOfSeq
    <3> QED
      BY <3>1 DEF Row
  <2>2. GroupLabel(rows[i], groupBy) \in Labelled
    BY <2>1, LabelsAssumption DEF GroupLabel, Names
  <2>3. PICK l \in DOMAIN LabelOrder : LabelOrder[l] = GroupLabel(rows[i], groupBy)
    BY <2>2 DEF Labelled
  <2>4. LabelledRows(rows, groupBy, LabelOrder[l]) # {}
    BY <2>3 DEF LabelledRows
  <2>5. Group(rows, groupBy, LabelOrder[l]) # <<>>
    BY <2>4, GroupWritten
  <2>6. PICK k \in 1..n : places[k] = l
    BY <1>5, <2>5
  <2> QED
    BY <1>5, <2>3, <2>6
<1>7. ASSUME NEW j \in 1..n, NEW k \in 1..n, labels[j] = labels[k]
      PROVE  j = k
  <2>1. places[j] \in L /\ places[k] \in L
    BY <1>5
  <2>2. LabelOrder[places[j]] = LabelOrder[places[k]]
    BY <1>5, <1>7
  <2>3. places[j] = places[k]
    BY <1>1, <2>1, <2>2, LabelsAssumption
  <2>4. /\ j < k => places[j] < places[k]
        /\ k < j => places[k] < places[j]
    BY <1>5 DEF Ascending
  <2>5. places[j] \in Int
    BY <1>2, <2>1
  <2>6. ~(j < k) /\ ~(k < j)
    BY <2>3, <2>4, <2>5
  <2> QED
    BY <1>3, <2>6
<1> QED
  BY <1>3, <1>4, <1>6, <1>7

\* What SplitAccounts says, of what is written and the rows it was made of.
Accounts(wrote, rows) ==
    /\ \A i \in DOMAIN wrote.summary :
          wrote.summary[i].count = Len(wrote.files[wrote.summary[i].file])
    /\ \A at \in Positions :
          Total([file \in DOMAIN wrote.files |->
                    CountOf(wrote.files[file], Endpoints[at].host)])
            = RowsOf(rows, Endpoints[at].host)

\* A group whose label is the only one with its slug has a file of its own.
LEMMA EachItsFile ==
    ASSUME NEW rows \in Seq(Row), NEW groupBy,
           \A j, k \in DOMAIN Labels(rows, groupBy) :
              FileOf(Labels(rows, groupBy)[j]) = FileOf(Labels(rows, groupBy)[k]) => j = k
    PROVE  LET labels == Labels(rows, groupBy)
               files  == FilesAfter(rows, groupBy, Len(labels))
           IN  /\ DOMAIN files = {FileOf(labels[k]) : k \in DOMAIN labels}
               /\ \A k \in DOMAIN labels :
                     files[FileOf(labels[k])] = EndpointsOf(Group(rows, groupBy, labels[k]))
<1> DEFINE labels     == Labels(rows, groupBy)
           n          == Len(labels)
           Last(file) == Max({i \in 1..n : FileOf(labels[i]) = file})
           files      == FilesAfter(rows, groupBy, n)
<1>1. n \in Nat /\ DOMAIN labels = 1..n
  BY LabelsComplete
<1>2. files = [file \in {FileOf(labels[i]) : i \in 1..n} |->
                  EndpointsOf(Group(rows, groupBy, labels[Last(file)]))]
  BY DEF FilesAfter
<1>3. \A k \in 1..n : Last(FileOf(labels[k])) = k
  <2> SUFFICES ASSUME NEW k \in 1..n PROVE Last(FileOf(labels[k])) = k
    OBVIOUS
  <2>1. {i \in 1..n : FileOf(labels[i]) = FileOf(labels[k])} = {k}
    BY <1>1
  <2>2. Max({k}) = k
    BY <1>1 DEF Max
  <2> QED
    BY <2>1, <2>2
<1> HIDE DEF Last, files, labels, n
<1> QED
  BY <1>1, <1>2, <1>3 DEF files, labels, n

LEMMA SplitWrites ==
    ASSUME NEW rows \in Seq(Row), NEW groupBy, NEW wrote,
           wrote.files = FilesAfter(rows, groupBy, Len(Labels(rows, groupBy))),
           wrote.summary = Summary(rows, groupBy),
           \A j, k \in DOMAIN wrote.summary :
              wrote.summary[j].file = wrote.summary[k].file => j = k
    PROVE  Accounts(wrote, rows)
<1> DEFINE labels == Labels(rows, groupBy)
           n      == Len(labels)
           files  == wrote.files
           Own(k) == LabelledRows(rows, groupBy, labels[k])
<1>1. /\ n \in Nat /\ DOMAIN labels = 1..n
      /\ \A i \in DOMAIN rows :
            \E k \in 1..n : labels[k] = GroupLabel(rows[i], groupBy)
  BY LabelsComplete
<1>2. /\ DOMAIN wrote.summary = 1..n
      /\ \A k \in 1..n :
            /\ wrote.summary[k].file = FileOf(labels[k])
            /\ wrote.summary[k].count = Len(Group(rows, groupBy, labels[k]))
  BY <1>1 DEF Summary
<1>3. \A j, k \in 1..n : FileOf(labels[j]) = FileOf(labels[k]) => j = k
  BY <1>2
<1>4. /\ DOMAIN files = {FileOf(labels[k]) : k \in 1..n}
      /\ \A k \in 1..n :
            files[FileOf(labels[k])] = EndpointsOf(Group(rows, groupBy, labels[k]))
  <2>1. \A j, k \in DOMAIN Labels(rows, groupBy) :
           FileOf(Labels(rows, groupBy)[j]) = FileOf(Labels(rows, groupBy)[k]) => j = k
    BY <1>1, <1>3
  <2> DEFINE after == FilesAfter(rows, groupBy, n)
  <2>2. /\ DOMAIN after = {FileOf(labels[k]) : k \in DOMAIN labels}
        /\ \A k \in DOMAIN labels :
              after[FileOf(labels[k])] = EndpointsOf(Group(rows, groupBy, labels[k]))
    BY <2>1, EachItsFile
  <2>3. files = after
    OBVIOUS
  <2> HIDE DEF files, after, labels, n
  <2> QED
    BY <1>1, <2>2, <2>3
<1>5. \A k \in 1..n : /\ Len(files[FileOf(labels[k])]) = Len(Group(rows, groupBy, labels[k]))
                      /\ \A host : CountOf(files[FileOf(labels[k])], host)
                                     = Cardinality({i \in Own(k) : Host(rows[i]) = host})
  BY <1>4, GroupWritten
<1>6. ASSUME NEW host
      PROVE  Total([file \in DOMAIN files |-> CountOf(files[file], host)])
               = RowsOf(rows, host)
  <2> DEFINE S   == PlacesOf(rows, host)
             D   == DOMAIN files
             key == [i \in S |-> FileOf(GroupLabel(rows[i], groupBy))]
  <2>1. IsFiniteSet(S) /\ RowsOf(rows, host) = Cardinality(S) /\ S \subseteq DOMAIN rows
    BY RowsFinite DEF PlacesOf
  <2>2. IsFiniteSet(D)
    <3> DEFINE named == [k \in 1..n |-> FileOf(labels[k])]
    <3>1. named \in Surjection(1..n, D)
      BY <1>4 DEF Surjection
    <3>2. IsFiniteSet(1..n)
      BY <1>1, FS_Interval
    <3> HIDE DEF named, D
    <3> QED
      BY <3>1, <3>2, FS_Surjection
  <2>3. key \in [S -> D]
    BY <1>1, <1>4, <2>1
  <2>4. \A k \in 1..n : {i \in S : key[i] = FileOf(labels[k])}
                          = {i \in Own(k) : Host(rows[i]) = host}
    <3> SUFFICES ASSUME NEW k \in 1..n
                 PROVE  \A i : i \in S /\ key[i] = FileOf(labels[k])
                                 <=> i \in Own(k) /\ Host(rows[i]) = host
      OBVIOUS
    <3>1. \A i \in DOMAIN rows :
             FileOf(GroupLabel(rows[i], groupBy)) = FileOf(labels[k])
               <=> GroupLabel(rows[i], groupBy) = labels[k]
      BY <1>1, <1>3
    <3> QED
      BY <3>1 DEF PlacesOf, LabelledRows
  <2>5. \A file \in D : CountOf(files[file], host) = Cardinality({i \in S : key[i] = file})
    <3> SUFFICES ASSUME NEW k \in 1..n
                 PROVE  CountOf(files[FileOf(labels[k])], host)
                          = Cardinality({i \in S : key[i] = FileOf(labels[k])})
      BY <1>4
    <3>1. CountOf(files[FileOf(labels[k])], host)
            = Cardinality({i \in Own(k) : Host(rows[i]) = host})
      BY <1>5
    <3>2. {i \in S : key[i] = FileOf(labels[k])} = {i \in Own(k) : Host(rows[i]) = host}
      BY <2>4
    <3> HIDE DEF files, S, key, Own, labels
    <3> QED
      BY <3>1, <3>2
  <2>6. [file \in D |-> CountOf(files[file], host)]
          = [file \in D |-> Cardinality({i \in S : key[i] = file})]
    BY <2>5
  <2> HIDE DEF S, D, key
  <2>7. Total([file \in D |-> Cardinality({i \in S : key[i] = file})]) = Cardinality(S)
    BY <2>1, <2>2, <2>3, TotalOfParts
  <2> QED
    BY <2>1, <2>6, <2>7 DEF D
<1> QED
  BY <1>2, <1>5, <1>6 DEF Accounts

LEMMA NotSplit ==
    ASSUME ~written'.ok \/ written'.kind \notin {"region", "protocol"}
    PROVE  SplitAccounts'
BY DEF SplitAccounts

LEMMA ForgottenAccounts ==
    ASSUME Forget
    PROVE  SplitAccounts'
<1>1. ~written'.ok
  BY DEF Forget, NothingWritten
<1> QED
  BY <1>1, NotSplit

LEMMA SplitKeyAccounts ==
    ASSUME visible \in Seq(Row), NEW groupBy, SplitExport(groupBy)
    PROVE  SplitAccounts'
<1>1. PICK rows \in Seq(Row) : rows = visible
  OBVIOUS
<1>2. PICK wrote : wrote = written'
  OBVIOUS
<1>3. /\ wrote.files = FilesAfter(rows, groupBy, Len(Labels(rows, groupBy)))
      /\ wrote.summary = Summary(rows, groupBy)
  BY <1>1, <1>2 DEF SplitExport
<1>4. visible' = rows
  BY <1>1 DEF SplitExport, listVars
<1>5. DistinctFiles' => Accounts(wrote, rows)
  BY <1>2, <1>3, SplitWrites DEF DistinctFiles
<1> QED
  BY <1>2, <1>4, <1>5 DEF SplitAccounts, Accounts

LEMMA ExportAccounts ==
    ASSUME visible \in Seq(Row), ExportKey
    PROVE  SplitAccounts'
<1>1. ASSUME NEW groupBy, SplitExport(groupBy) PROVE SplitAccounts'
  BY <1>1, SplitKeyAccounts
<1>2. ASSUME NEW groupBy, SplitExportFails(groupBy) PROVE SplitAccounts'
  <2>1. ~written'.ok
    BY <1>2 DEF SplitExportFails, NothingWritten
  <2> QED
    BY <2>1, NotSplit
<1>3. ASSUME NEW kind \in {"listed", "clean"}, Export(kind) \/ ExportFails(kind)
      PROVE  SplitAccounts'
  <2>1. written'.kind = kind
    BY <1>3 DEF Export, ExportFails, NothingWritten
  <2> QED
    BY <2>1, NotSplit
<1> QED
  BY <1>1, <1>2, <1>3 DEF ExportKey

\* A split export whose groups have different file names writes every visible
\* row, once, and its summary tells where and how many (export.go:107-138).
THEOREM SplitWritesAll == Spec => []SplitAccounts
<1>1. Init => SplitAccounts
  <2>1. Init => ~written.ok
    <3>1. Init => written = NothingWritten
      BY Zenon DEF Init
    <3>2. ~NothingWritten.ok
      BY DEF NothingWritten
    <3> QED BY <3>1, <3>2
  <2> QED
    BY <2>1 DEF SplitAccounts
<1>2. ListInv /\ SplitAccounts /\ [Next]_vars => SplitAccounts'
  <2> SUFFICES ASSUME ListInv, SplitAccounts, [Next]_vars
               PROVE  SplitAccounts'
    OBVIOUS
  <2>1. visible \in Seq(Row)
    BY DEF ListInv, ListTypes
  <2>2. CASE ExportKey
    BY <2>1, <2>2, ExportAccounts
  <2>3. CASE UNCHANGED vars
    <3>1. visible' = visible /\ written' = written
      BY <2>3 DEF vars, listVars
    <3> QED
      BY <3>1 DEF SplitAccounts, DistinctFiles
  <2>4. CASE \/ Navigate \/ CycleSort \/ CycleFilter \/ LeaveFilter \/ SwitchMode
             \/ DeduplicateCurrent \/ ActionStarted \/ ActionComplete
    <3>1. Forget
      BY <2>4 DEF Navigate, CycleSort, CycleFilter, LeaveFilter, SwitchMode,
                  DeduplicateCurrent, ActionStarted, ActionComplete
    <3> QED
      BY <3>1, ForgottenAccounts
  <2>5. ASSUME NEW text \in Texts, Type(text) PROVE SplitAccounts'
    BY <2>5, ForgottenAccounts DEF Type
  <2>6. ASSUME NEW item \in Arrivals, CheckResult(item) PROVE SplitAccounts'
    BY <2>6, ForgottenAccounts DEF CheckResult
  <2> QED
    BY <2>2, <2>3, <2>4, <2>5, <2>6 DEF Next, Key
<1> QED
  BY <1>1, <1>2, InitList, ListStep, PTL DEF Spec
====
