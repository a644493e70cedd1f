------------------------------- MODULE ListView -------------------------------
(***************************************************************************)
(* The list of the terminal UI: internal/tui/model.go, the keys and the    *)
(* messages of view.go that touch it, and the exports of the visible rows  *)
(* with engine.WriteSplitExport (internal/engine/export.go).               *)
(*                                                                         *)
(* Each action is one call of Update, which runs on one goroutine.  The    *)
(* messages come from the actions of ActionStream, at any time; those that *)
(* change no row (completion, error, end of a stream, speed test) leave    *)
(* this state alone, but for the mode.  Quitting is in ActionStream.       *)
(*                                                                         *)
(* The filter box and the search are one variable: every change of the box *)
(* is given to SetSearch.  A label is a country or a protocol, as the      *)
(* group of a split export is named; an item's country stands for Country, *)
(* or for CountryCode in upper case when there is none.                    *)
(***************************************************************************)
EXTENDS BatchItems, TLC

CONSTANTS
    Snapshots,   \* the lists of items the UI may start with
    Deduped,     \* the lists of items a dedupe of files may come back with
    Arrivals,    \* the items a result message may carry
    Found,       \* for each text the user may type: what contains it
    LabelOrder,  \* the labels of groups, in alphabetical order
    Slug         \* slugifyExportLabel, for each label

Labelled == {LabelOrder[i] : i \in DOMAIN LabelOrder}
Names    == Labelled \cup {""}
Row == [at: Positions, protocol: Names, country: Names, reachable: BOOLEAN,
        latency: Nat, score: Int, purity: Verdicts, errs: Seq(STRING),
        successes: Nat, total: Nat]

ASSUME LabelsAssumption ==
    /\ LabelOrder \in Seq(STRING)
    /\ \A i, j \in DOMAIN LabelOrder : LabelOrder[i] = LabelOrder[j] => i = j
    /\ {"Unknown Region", "Unknown Protocol"} \subseteq Labelled

ASSUME SnapshotsAssumption == Snapshots \cup Deduped \subseteq Seq(Row)
ASSUME ArrivalsAssumption  == Arrivals \subseteq Row

\* What engine.Dedupe leaves of the files has no endpoint twice (actions.go
\* 144-153); that it does is FirstsKept of Deduplication.
ASSUME DedupedAssumption ==
    \A list \in Deduped : \A i, j \in DOMAIN list :
        Endpoints[list[i].at].host = Endpoints[list[j].at].host => i = j
ASSUME FoundAssumption ==
    \A text \in DOMAIN Found :
        Found[text] \in [texts: SUBSET STRING, hosts: SUBSET Nat, ports: SUBSET Nat]
ASSUME SlugAssumption == DOMAIN Slug = Labelled

Texts == DOMAIN Found

VARIABLES
    mode,       \* m.mode
    items,      \* m.snapshot.Items
    visible,    \* m.visible, what is left of items, sorted
    cursor,     \* m.cursor, counted from 0
    sortKey,    \* m.sortKey, a number of the cycle
    filterKey,  \* m.filterKey, a number of the cycle
    search,     \* m.search and the value of m.filterInput; "" for none
    written     \* what the last key wrote, when it was an export

listVars == <<items, visible, cursor, sortKey, filterKey, search>>
vars == <<mode, listVars, written>>

Modes       == {"list", "filter", "detail", "menu", "input"}
SortCycle   == << "abuse", "latency", "host", "port", "purity" >>
FilterCycle == << "all", "reachable", "unreachable", "abusive", "suspicious", "clean",
                  "errors" >>

Host(item) == Endpoints[item.at].host
Port(item) == Endpoints[item.at].port

\* purityRank, which is not purityRiskRank: here "unknown" ranks above "clean".
PurityRank(purity) ==
    CASE purity = "vpn_detected" -> 5
      [] purity = "vpn_likely"   -> 4
      [] purity = "suspicious"   -> 3
      [] purity = "unknown"      -> 2
      [] purity = "clean"        -> 1
      [] OTHER                   -> 0

Riskier(a, b) ==
    \/ a.purity = b.purity /\ a.score > b.score
    \/ a.purity # b.purity /\ PurityRank(a.purity) > PurityRank(b.purity)

\* matchesSearch.
MatchesSearch(item, text) ==
    \/ text = ""
    \/ Host(item) \in Found[text].hosts
    \/ Port(item) \in Found[text].ports
    \/ {item.purity, item.protocol, item.country} \cap Found[text].texts # {}

\* What recompute makes of the rows.
View(rows, sort, filter, text) ==
    LET passed == FilterItems(rows, FilterCycle[filter + 1])
        left   == Keep(passed, {i \in DOMAIN passed : MatchesSearch(passed[i], text)})
    IN  IF SortCycle[sort + 1] = "purity" THEN StableSort(left, Riskier)
        ELSE SortItems(left, SortCycle[sort + 1])

Clamp(position, length) ==
    CASE length = 0                    -> 0
      [] length > 0 /\ position < 0    -> 0
      [] length > 0 /\ position >= length -> length - 1
      [] OTHER                         -> position

\* recompute, with the cursor where the caller has put it.
Recompute(position) ==
    /\ visible' = View(items', sortKey', filterKey', search')
    /\ cursor' = Clamp(position, Len(visible'))

Selected == cursor < Len(visible)

-----------------------------------------------------------------------------
(* Exports.  What an export wrote is forgotten with the next key.          *)

NothingWritten == [kind |-> "none", ok |-> FALSE, counted |-> 0,
                   files |-> [file \in {} |-> <<>>], summary |-> <<>>]

EndpointsOf(rows) == [i \in DOMAIN rows |-> Host(rows[i])]

\* Mutant of GroupLabel: rows without a label are left out.
GroupLabelKnown(item, groupBy) ==
    IF groupBy = "region" THEN item.country ELSE item.protocol

GroupLabel(item, groupBy) ==
    CASE groupBy = "region" /\ item.country # ""     -> item.country
      [] groupBy = "region" /\ item.country = ""     -> "Unknown Region"
      [] groupBy = "protocol" /\ item.protocol # ""  -> item.protocol
      [] OTHER                                       -> "Unknown Protocol"

Group(rows, groupBy, label) ==
    Keep(rows, {i \in DOMAIN rows : GroupLabel(rows[i], groupBy) = label})

Labels(rows, groupBy) ==
    Keep(LabelOrder, {l \in DOMAIN LabelOrder : Group(rows, groupBy, LabelOrder[l]) # <<>>})

\* splitExportFileName, within the directory of the export.
FileOf(label) == Slug[label]

\* The files after the first n groups: a group replaces the file of an earlier
\* one whose label has the same slug.
FilesAfter(rows, groupBy, n) ==
    LET labels == Labels(rows, groupBy)
        Last(file) == Max({i \in 1..n : FileOf(labels[i]) = file})
    IN  [file \in {FileOf(labels[i]) : i \in 1..n} |->
            EndpointsOf(Group(rows, groupBy, labels[Last(file)]))]

\* writeSplitExportSummary: a line for each group.
Summary(rows, groupBy) ==
    LET labels == Labels(rows, groupBy)
    IN  [i \in DOMAIN labels |->
            [group |-> labels[i], file |-> FileOf(labels[i]),
             count |-> Len(Group(rows, groupBy, labels[i]))]]

\* WriteSplitExport that succeeds.
SplitExport(groupBy) ==
    LET groups == Len(Labels(visible, groupBy))
    IN  /\ mode = "list"
        /\ written' = [kind |-> groupBy, ok |-> TRUE, counted |-> Len(visible),
                       files |-> FilesAfter(visible, groupBy, groups),
                       summary |-> Summary(visible, groupBy)]
        /\ UNCHANGED <<mode, listVars>>

\* It fails after n groups: on the directory, on creating the next file or the
\* summary, or amid the next file.
SplitExportFails(groupBy) ==
    LET labels   == Labels(visible, groupBy)
        Next1(n) == EndpointsOf(Group(visible, groupBy, labels[n + 1]))
        Failed(files) == [NothingWritten EXCEPT !.kind = groupBy, !.files = files]
    IN  /\ mode = "list"
        /\ \E n \in 0..Len(labels) :
              LET before == FilesAfter(visible, groupBy, n)
              IN  \/ written' = Failed(before)
                  \/ /\ n < Len(labels)
                     /\ \E cut \in 0..Len(Next1(n)) :
                           written' = Failed((FileOf(labels[n + 1]) :> SubSeq(Next1(n), 1, cut))
                                             @@ before)
        /\ UNCHANGED <<mode, listVars>>

\* e writes the visible rows, E the clean ones of the whole list.
ToWrite(kind) ==
    IF kind = "listed" THEN visible
    ELSE Keep(items, {i \in DOMAIN items : IsCleanItem(items[i])})

Export(kind) ==
    /\ mode = "list"
    /\ written' = [NothingWritten EXCEPT
                     !.kind = kind, !.ok = TRUE, !.counted = Len(ToWrite(kind)),
                     !.files = kind :> EndpointsOf(ToWrite(kind))]
    /\ UNCHANGED <<mode, listVars>>

ExportFails(kind) ==
    LET rows == EndpointsOf(ToWrite(kind))
    IN  /\ mode = "list"
        /\ \/ written' = [NothingWritten EXCEPT !.kind = kind]
           \/ \E cut \in 0..Len(rows) :
                 written' = [NothingWritten EXCEPT !.kind = kind,
                                                   !.files = kind :> SubSeq(rows, 1, cut)]
        /\ UNCHANGED <<mode, listVars>>

-----------------------------------------------------------------------------
(* Keys.                                                                   *)

Forget == written' = NothingWritten

\* Mutant of Moved: the last row is not the limit.
MovedFreely(delta) == IF cursor + delta < 0 THEN 0 ELSE cursor + delta

\* MoveCursor.
Moved(delta) == Clamp(cursor + delta, Len(visible))

\* Arrows, page keys, home and end.
Navigate ==
    /\ mode = "list"
    /\ \/ \E delta \in {-10, -1, 1, 10} : cursor' = Moved(delta)
       \/ cursor' = 0
       \/ visible # <<>> /\ cursor' = Len(visible) - 1
    /\ Forget
    /\ UNCHANGED <<mode, items, visible, sortKey, filterKey, search>>

CycleSort ==
    /\ mode = "list"
    /\ sortKey' = (sortKey + 1) % Len(SortCycle)
    /\ UNCHANGED <<mode, items, filterKey, search>>
    /\ Recompute(cursor)
    /\ Forget

CycleFilter ==
    /\ mode = "list"
    /\ filterKey' = (filterKey + 1) % Len(FilterCycle)
    /\ UNCHANGED <<mode, items, sortKey, search>>
    /\ Recompute(cursor)
    /\ Forget

\* The list is searched while the user types.
Type(text) ==
    /\ mode = "filter"
    /\ search' = text
    /\ UNCHANGED <<mode, items, sortKey, filterKey>>
    /\ Recompute(cursor)
    /\ Forget

\* esc drops the search, enter keeps it.
LeaveFilter ==
    /\ mode = "filter"
    /\ mode' = "list"
    /\ search' \in {"", search}
    /\ UNCHANGED <<items, sortKey, filterKey>>
    /\ Recompute(cursor)
    /\ Forget

\* The keys that open and leave a mode; a row must be selected for its detail.
SwitchMode ==
    /\ mode' \in CASE mode = "list"   -> {"filter", "menu", "input"} \cup
                                         (IF Selected THEN {"detail"} ELSE {})
                   [] mode = "menu"   -> {"list", "input"}
                   [] mode \in {"input", "detail"} -> {"list"}
                   [] OTHER           -> {}
    /\ Forget
    /\ UNCHANGED listVars

\* The places at which an endpoint occurs for the first time.
Firsts(rows) ==
    {i \in DOMAIN rows : \A j \in 1..(i - 1) : Host(rows[j]) # Host(rows[i])}

\* Mutant of DeduplicateCurrent: the visible rows are not computed again.
DeduplicateUnseen ==
    /\ mode \in {"list", "menu"}
    /\ items' = Keep(items, Firsts(items))
    /\ Forget
    /\ UNCHANGED <<mode, visible, cursor, sortKey, filterKey, search>>

\* D, in the list and in the menu: the first row of each endpoint stays.
DeduplicateCurrent ==
    /\ mode \in {"list", "menu"}
    /\ items' = Keep(items, Firsts(items))
    /\ UNCHANGED <<mode, sortKey, filterKey, search>>
    /\ Recompute(cursor)
    /\ Forget

-----------------------------------------------------------------------------
(* Messages.                                                               *)

\* ActionStartedMsg.
ActionStarted ==
    /\ mode' = "list"
    /\ items' = <<>>
    /\ UNCHANGED <<sortKey, filterKey, search>>
    /\ Recompute(0)
    /\ Forget

\* ActionCompleteMsg, of a dedupe of files or of a speed test.
ActionComplete ==
    /\ mode' = "list"
    /\ items' \in Deduped \cup {items}
    /\ UNCHANGED <<sortKey, filterKey, search>>
    /\ Recompute(cursor)
    /\ Forget

\* shouldAutoFollowTail.
NearTail == visible = <<>> \/ cursor >= Len(visible) - 2

\* Mutant of Placed: a result is a row of its own.
PlacedLast(item) == Append(items, item)

\* A result replaces the first row of its endpoint, or is added.
Placed(item) ==
    LET same == {i \in DOMAIN items : Host(items[i]) = Host(item)}
    IN  IF same = {} THEN Append(items, item)
        ELSE [items EXCEPT ![Min(same)] = item]

\* CheckResultMsg.
CheckResult(item) ==
    /\ items' = Placed(item)
    /\ UNCHANGED <<mode, sortKey, filterKey, search>>
    /\ visible' = View(items', sortKey, filterKey, search)
    /\ cursor' = IF NearTail /\ visible' # <<>> THEN Len(visible') - 1
                 ELSE Clamp(cursor, Len(visible'))
    /\ Forget

-----------------------------------------------------------------------------
\* NewBatchModel.
Init ==
    /\ mode = "list"
    /\ items \in Snapshots
    /\ sortKey = 0
    /\ filterKey = 0
    /\ search = ""
    /\ visible = View(items, sortKey, filterKey, search)
    /\ cursor = 0
    /\ written = NothingWritten

ExportKey ==
    \/ \E groupBy \in {"region", "protocol"} : SplitExport(groupBy) \/ SplitExportFails(groupBy)
    \/ \E kind \in {"listed", "clean"} : Export(kind) \/ ExportFails(kind)

Key ==
    \/ Navigate \/ CycleSort \/ CycleFilter \/ LeaveFilter \/ SwitchMode
    \/ DeduplicateCurrent
    \/ \E text \in Texts : Type(text)
    \/ ExportKey

Next ==
    \/ Key
    \/ ActionStarted
    \/ ActionComplete
    \/ \E item \in Arrivals : CheckResult(item)

Spec == Init /\ [][Next]_vars

-----------------------------------------------------------------------------
(* Properties.                                                             *)

\* However the list changes under it, the cursor is on a row while there is
\* one, and on the first row's place when there is none (model.go:415-420): what
\* enter opens and renderTable marks is always a visible row.
CursorOnRow == IF visible = <<>> THEN cursor = 0 ELSE Selected

\* The visible rows are a copy, made by recompute (model.go:381): no message
\* and no key leaves them behind the list, the sort, the filter or the search.
VisibleFresh == visible = View(items, sortKey, filterKey, search)

RowsOf(rows, host) == Cardinality({i \in DOMAIN rows : Host(rows[i]) = host})

\* Rows are keyed by endpoint (view.go:48-59): whatever arrives, an endpoint has
\* as many rows as the list the UI was started with gave it, or one.
DuplicatesNeverGrow ==
    [][\A at \in Positions :
          LET host == Endpoints[at].host
          IN  RowsOf(items', host) > 1 => RowsOf(items', host) <= RowsOf(items, host)]_vars

DistinctFiles ==
    \A i, j \in DOMAIN written.summary :
        written.summary[i].file = written.summary[j].file => i = j

CountOf(s, x) == Cardinality({i \in DOMAIN s : s[i] = x})

\* A split export whose groups have different file names writes every visible
\* row, once, and its summary tells where and how many (export.go:107-138).
SplitAccounts ==
    written.ok /\ written.kind \in {"region", "protocol"} /\ DistinctFiles =>
        /\ \A i \in DOMAIN written.summary :
              LET line == written.summary[i]
              IN  line.count = Len(written.files[line.file])
        /\ \A at \in Positions :
              LET host == Endpoints[at].host
              IN  Total([file \in DOMAIN written.files |-> CountOf(written.files[file], host)])
                    = RowsOf(visible, host)

\* What the UI reports as exported is in the files (README.md:333, "Export
\* visible endpoints split by region", and the notice of model.go:311).
ExportedAsReported ==
    written.ok =>
        written.counted = Total([file \in DOMAIN written.files |-> Len(written.files[file])])
=============================================================================
