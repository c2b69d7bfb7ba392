---------------------------- MODULE TableSearch ----------------------------
(***************************************************************************)
(* How a query finds its rows: Table::search and Table::probe_fetch_rows   *)
(* of core/storage/table.rs, the segment scans of segment.rs they fall     *)
(* back to, and the paged fetch of core/join_query.rs on top of them.      *)
(*                                                                         *)
(* A table is seen as a query sees it under the read lock: rows, tombstones *)
(* and the three kinds of index SecondaryIndexes maintains, which here are *)
(* complete.  Values are numbers; they are stored and bounded as strings,  *)
(* so both orders matter.  An Option is a set: {} is None, {x} is Some(x). *)
(***************************************************************************)
EXTENDS Naturals, Sequences, FiniteSets, FiniteSetsExt, Functions

CONSTANTS
    Field,       \* columns
    Views,       \* tables as a query sees them
    Filters,     \* filter conditions
    NoOrder,     \* no ORDER BY
    PageSize,    \* FETCH_PAGE_SIZE, and the limit of an ordered page
    Chunk,       \* rows a parallel task is given at a time (4096 in search)
    Buffer,      \* how many pages a task buffers before it sorts (4 in search)
    MaxFilters,  \* bound: filters of a query
    MaxOffset    \* bound: offset of an ordered query

VARIABLES
    s,        \* the table
    q,        \* the query: filters, how they combine, ORDER BY column or NoOrder
    fetched,  \* rows fetched so far, in order
    done      \* the fetch has ended

searchVars == <<s, q, fetched, done>>

-----------------------------------------------------------------------------
(* Values and filters: core/types.rs *)

\* Numbers of one or two digits, and the order of their decimal strings (String::cmp).
Number == 0 .. 99
First(n) == IF n < 10 THEN n ELSE n \div 10
StrLess(a, b) == First(a) < First(b) \/ (First(a) = First(b) /\ a < b)

\* compare_filter_value: numbers are compared as numbers.
Holds(v, f) ==
    CASE f.op = "Eq" -> v = f.value
      [] f.op = "Ne" -> v # f.value
      [] f.op = "Gt" -> v > f.value
      [] f.op = "Gte" -> v >= f.value
      [] f.op = "Lt" -> v < f.value
      [] f.op = "Lte" -> v <= f.value
      [] f.op = "Between" -> f.value <= v /\ v <= f.to
      [] f.op = "In" -> v \in f.options
      [] f.op = "NotIn" -> v \notin f.options

\* A row satisfies filters that are combined by And or by Or.
Satisfies(row, filters, op) ==
    IF op = "And" THEN \A f \in filters : Holds(row[f.field], f)
    ELSE \E f \in filters : Holds(row[f.field], f)

-----------------------------------------------------------------------------
(* Segment scans: segment.rs *)

Live == DOMAIN s.rows \ s.dead
Segments == {l[1] : l \in DOMAIN s.rows} \cup {s.active}

\* Mutated form of Skips: the least value of the zone counts as outside it.
SkipsAtMin(seg, f) ==
    LET zone == {s.rows[l][f.field] : l \in {k \in s.mm : k[1] = seg}}
        min == CHOOSE v \in zone : \A u \in zone : ~StrLess(u, v)
        max == CHOOSE v \in zone : \A u \in zone : ~StrLess(v, u)
    IN zone # {} /\ f.op = "Eq" /\ (~StrLess(min, f.value) \/ StrLess(max, f.value))

\* The zone map of the segment rules the filter out.  min and max are strings,
\* and all but Between compare strings.
Skips(seg, f) ==
    LET zone == {s.rows[l][f.field] : l \in {k \in s.mm : k[1] = seg}}
        min == CHOOSE v \in zone : \A u \in zone : ~StrLess(u, v)
        max == CHOOSE v \in zone : \A u \in zone : ~StrLess(v, u)
    IN zone # {} /\
       CASE f.op = "Eq" -> StrLess(f.value, min) \/ StrLess(max, f.value)
         [] f.op = "Gt" -> ~StrLess(f.value, max)
         [] f.op = "Gte" -> StrLess(max, f.value)
         [] f.op = "Lt" -> ~StrLess(min, f.value)
         [] f.op = "Lte" -> StrLess(f.value, min)
         [] f.op = "Between" -> max < f.value \/ min > f.to
         [] OTHER -> FALSE

\* Segment::search_thread_safe and SegmentWriter::search
ScanSegment(seg, filters, op) ==
    LET rows == {l \in (IF filters = {} THEN DOMAIN s.rows ELSE s.bm) : l[1] = seg} IN
    IF \E f \in filters : Skips(seg, f) THEN {}
    ELSE {l \in rows : filters = {} \/ Satisfies(s.rows[l], filters, op)} \ s.dead

\* Table::scan_segments_parallel
Scan(filters, op) == UNION {ScanSegment(seg, filters, op) : seg \in Segments}

-----------------------------------------------------------------------------
(* Exact indexes: table.rs *)

IsPk(field) == field \in Range(s.pk)

\* load_exact_index: postings (value, location) over the immutable segments; none
\* for a skipped column.
LoadExactIndex(field) == IF IsPk(field) \/ field \in s.skip THEN {} ELSE s.exact[field]

\* Locations listed under a value, in the index or in the bitmaps of the active segment.
Hits(field, value) ==
    {p[2] : p \in {e \in LoadExactIndex(field) : e[1] = value}}
    \cup {l \in s.bm : l[1] = s.active /\ s.rows[l][field] = value}

\* Mutated form of OneValue: tombstones are subtracted for the active segment only.
OneValueKeepsDead(field, value) ==
    IF Hits(field, value) = {} THEN {}
    ELSE {{l \in Hits(field, value) : l \in DOMAIN s.rows /\ (l[1] = s.active => l \in Live)}}

\* exact_matches_one_value with live_bitmap_for_segment: entries of a segment that
\* compaction has removed count as a hit and match nothing.
OneValue(field, value) == IF Hits(field, value) = {} THEN {} ELSE {Hits(field, value) \cap Live}

\* exact_matches_for_in_filter, exact_matches_for_values_with_index
AnyValue(field, values) ==
    LET found == UNION {OneValue(field, v) : v \in values} IN
    IF values = {} THEN {{}} ELSE IF found = {} THEN {} ELSE {UNION found}

\* One turn of the loop in exact_matches_for_eq_filters.  An Eq value that is in no
\* index makes the whole index inapplicable; an In ends the loop with what there is.
IsLookup(f) == f.op \in {"Eq", "In"}
Lookup(f) == IF f.op = "In" THEN AnyValue(f.field, f.options) ELSE OneValue(f.field, f.value)
ExactStep(acc, f) ==
    LET both == {IF acc.found = {} THEN now ELSE now \cap UNION acc.found : now \in Lookup(f)} IN
    IF acc.stop \/ ~IsLookup(f) \/ IsPk(f.field) THEN acc
    ELSE IF Lookup(f) = {} THEN [found |-> IF f.op = "In" THEN acc.found ELSE {}, stop |-> TRUE]
    ELSE [found |-> both, stop |-> both = {{}}]

ExactMatches(filters) ==
    LET after[n \in 0 .. Len(filters)] ==
            IF n = 0 THEN [found |-> {}, stop |-> FALSE] ELSE ExactStep(after[n - 1], filters[n])
    IN  after[Len(filters)].found

\* Mutated form of Narrowed: the remaining filters are not scanned for.
NarrowedByIndexOnly(exact, rest) == UNION exact

\* intersect_segment_matches with a scan for the filters the index did not answer.
Narrowed(exact, rest) ==
    IF rest = {} THEN UNION exact ELSE (UNION exact) \cap Scan(rest, "And")

-----------------------------------------------------------------------------
(* Table::search *)

Given == Range(q.filters)
Applies == ExactMatches(q.filters) # {}

EqOn(field) == {i \in DOMAIN q.filters : q.filters[i].field = field /\ q.filters[i].op = "Eq"}
FirstOf(positions) == q.filters[CHOOSE i \in positions : \A j \in positions : i <= j]
InOnPk == {i \in DOMAIN q.filters : Len(s.pk) = 1 /\ q.filters[i].field = s.pk[1] /\ q.filters[i].op = "In"}

\* composite_pk_from_eq_filters
HasCompositePk == Len(s.pk) > 1 /\ \A i \in DOMAIN s.pk : EqOn(s.pk[i]) # {}
HasPkFilter == Len(s.pk) = 1 /\ EqOn(s.pk[1]) # {}
GivenPk == [i \in DOMAIN s.pk |-> FirstOf(EqOn(s.pk[i])).value]

\* The indexed row of a key, checked by candidate_matches_filters.
ByKey(key) ==
    {l \in {s.index[k] : k \in DOMAIN s.index \cap {key}} : Satisfies(s.rows[l], Given, q.op)}

\* The single-PK branch: what is scanned for besides the exact matches.
NotPkLookup(f) == ~(IsPk(f.field) /\ f.op = "Eq") /\ f.op # "In"
ByPkAndOthers ==
    IF q.op = "Or" \/ ~Applies THEN Scan(Given, q.op)
    ELSE Narrowed(ExactMatches(q.filters), {f \in Given : NotPkLookup(f)})

\* PK IN: the primary index is asked for each value; with other filters, the
\* candidates of a segment are kept if one of them satisfies the query.
ByPkIn ==
    LET values == FirstOf(InOnPk).options
        rows == {s.index[k] : k \in {<<v>> : v \in values} \cap DOMAIN s.index}
        kept(l) == \E m \in rows : m[1] = l[1] /\ Satisfies(s.rows[m], Given, q.op)
    IN IF Len(q.filters) = 1 THEN rows
       ELSE IF q.op = "And" THEN {l \in rows : kept(l)}
       ELSE Scan(Given, q.op)

\* No PK filter: exact indexes for the Eq and In filters, a scan for the others.
NotLookup(f) == ~(f.op = "Eq" /\ f.field # s.pk[1]) /\ f.op # "In"
ByExact ==
    IF q.op = "Or" \/ ~Applies THEN Scan(Given, q.op)
    ELSE Narrowed(ExactMatches(q.filters), {f \in Given : NotLookup(f)})

Search ==
    IF HasCompositePk THEN ByKey(GivenPk)
    ELSE IF HasPkFilter
         THEN IF Len(q.filters) = 1 THEN ByKey(GivenPk) ELSE ByPkAndOthers
    ELSE IF InOnPk # {} THEN ByPkIn
    ELSE ByExact

\* Whether Search lists the segments in any order: it iterates a HashMap where
\* several values were looked up, and an exact index lists segments as they were
\* merged into it.  Scans list them by id.
LooksUpSeveral == ~HasCompositePk /\ ~HasPkFilter /\ InOnPk # {} /\ (Len(q.filters) = 1 \/ q.op = "And")
AnyOrder == LooksUpSeveral \/ Applies

-----------------------------------------------------------------------------
(* fetch_rows_from_table of core/join_query.rs *)

\* Table::probe_fetch_rows: exact matches at once, if the exact index applies.
Probe == Narrowed(ExactMatches(q.filters), {f \in Given : ~IsLookup(f)})

\* Rows as one call lists them: segment by segment, ascending within a segment.
Before(order, a, b) == order[a[1]] < order[b[1]] \/ (a[1] = b[1] /\ a[2] < b[2])
ById == [seg \in Segments |-> seg]
Shuffled == {o \in [Segments -> 1 .. Cardinality(Segments)] : IsInjective(o)}
Listings(rows, orders) ==
    {list \in [1 .. Cardinality(rows) -> rows] :
        \E o \in orders : \A i, j \in DOMAIN list : i < j => Before(o, list[i], list[j])}
SearchListings == Listings(Search, IF AnyOrder THEN Shuffled ELSE {ById})

PageAt(list, from) == SubSeq(list, from + 1, Min({from + PageSize, Len(list)}))

\* Everything at once, if the probe applies ...
FetchByProbe ==
    /\ ~done /\ fetched = <<>> /\ q.order = NoOrder /\ q.op = "And" /\ Applies
    /\ fetched' \in Listings(Probe, Shuffled) /\ done' = TRUE
    /\ UNCHANGED <<s, q>>

\* Mutated form of FetchPage: the offset does not move past a full page.
FetchPageOverlaps ==
    /\ ~done /\ q.order = NoOrder /\ q.op = "And" /\ ~Applies
    /\ \E list \in SearchListings :
         LET page == PageAt(list, IF fetched = <<>> THEN 0 ELSE Len(fetched) - 1) IN
         /\ fetched' = fetched \o page
         /\ done' = (page = <<>> \/ Len(fetched') >= Len(list))
    /\ UNCHANGED <<s, q>>

\* ... otherwise one page after the other; each page is a search of its own.
FetchPage ==
    /\ ~done /\ q.order = NoOrder /\ q.op = "And" /\ ~Applies
    /\ \E list \in SearchListings :
         LET page == PageAt(list, Len(fetched)) IN
         /\ fetched' = fetched \o page
         /\ done' = (page = <<>> \/ Len(fetched') >= Len(list))
    /\ UNCHANGED <<s, q>>

-----------------------------------------------------------------------------
(* ORDER BY and GROUP BY in Table::search *)

SortKey(l) == s.rows[l][q.order]
Orders(rows) ==
    {o \in [1 .. Cardinality(rows) -> rows] :
        IsInjective(o) /\ \A i, j \in DOMAIN o : i < j => SortKey(o[i]) <= SortKey(o[j])}
Take(list, n) == SubSeq(list, 1, Min({n, Len(list)}))

\* Mutated form of PushItem: the buffer is cut to one row less than the page ends at.
PushItemCutsShort(state, item, upto) ==
    LET acc == Append(state.acc, item)
        cut(o) == [state EXCEPT !.acc = Take(o, upto - 1), !.threshold = {SortKey(o[upto])}]
    IN IF \E t \in state.threshold : SortKey(item) >= t THEN {state}
       ELSE IF Len(acc) < Buffer * upto \/ Len(acc) <= upto THEN {[state EXCEPT !.acc = acc]}
       ELSE {cut(o) : o \in Orders(Range(acc))}

\* One row met by a task: skipped if it is no better than the threshold, else
\* buffered; a full buffer is sorted (equal keys in any order), cut to the rows up
\* to the end of the page, and the last of them becomes the threshold.
PushItem(state, item, upto) ==
    LET acc == Append(state.acc, item)
        cut(o) == [state EXCEPT !.acc = Take(o, upto), !.threshold = {SortKey(o[upto])}]
    IN IF \E t \in state.threshold : SortKey(item) >= t THEN {state}
       ELSE IF Len(acc) < Buffer * upto \/ Len(acc) <= upto THEN {[state EXCEPT !.acc = acc]}
       ELSE {cut(o) : o \in Orders(Range(acc))}

\* A task is done: what it kept is merged with what the tasks before it kept.
Merge(state, upto) ==
    {[acc |-> <<>>, threshold |-> {}, top |-> Take(o, upto)] :
        o \in Orders(Range(state.acc) \cup Range(state.top))}

\* The rows that may come out.  A task is given one or more chunks in a row; what
\* tasks keep is merged in order.
TopK(list, upto) ==
    LET after[n \in 0 .. Len(list)] ==
            IF n = 0 THEN {[acc |-> <<>>, threshold |-> {}, top |-> <<>>]}
            ELSE LET pushed == UNION {PushItem(st, list[n], upto) : st \in after[n - 1]}
                     merged == UNION {Merge(st, upto) : st \in pushed}
                 IN (IF n = Len(list) THEN {} ELSE pushed)
                    \cup (IF n = Len(list) \/ n % Chunk = 0 THEN merged ELSE {})
    IN  {st.top : st \in after[Len(list)]}

\* An ordered page of the result.
FetchOrdered ==
    /\ ~done /\ q.order # NoOrder
    /\ \E list \in SearchListings : \E top \in TopK(list, q.offset + PageSize) :
         fetched' = SubSeq(top, q.offset + 1, Len(top))
    /\ done' = TRUE
    /\ UNCHANGED <<s, q>>

\* Mutated form of GroupCounts: the bitmaps are counted without the matches.
GroupCountsOfSegments(field, matches) ==
    [v \in {s.rows[l][field] : l \in matches} |-> Cardinality({l \in s.bm : s.rows[l][field] = v})]

\* GROUP BY and TopN: the bitmaps of each segment, cut down to the matches, and the
\* counts added up segment by segment (the active one has the highest id).
GroupCounts(field, matches) ==
    LET inSegment(seg, v) == {l \in s.bm \cap matches : l[1] = seg /\ s.rows[l][field] = v}
        upTo[seg \in 0 .. s.active] ==
            [v \in {s.rows[l][field] : l \in s.bm \cap matches} |->
                Cardinality(inSegment(seg, v)) + IF seg = 0 THEN 0 ELSE upTo[seg - 1][v]]
    IN upTo[s.active]

-----------------------------------------------------------------------------

FilterLists == UNION {[1 .. n -> Filters] : n \in 0 .. MaxFilters}

SearchInit ==
    /\ s \in Views
    /\ q \in [filters : FilterLists, op : {"And", "Or"}, order : {NoOrder} \cup s.sort, offset : 0 .. MaxOffset]
    /\ q.order = NoOrder => q.offset = 0
    /\ fetched = <<>> /\ done = FALSE

SearchNext == FetchByProbe \/ FetchPage \/ FetchOrdered
SearchSpec == SearchInit /\ [][SearchNext]_searchVars

-----------------------------------------------------------------------------
(* The tables a query meets *)

\* What the other modules establish of a table under the read lock: its bitmaps
\* have every live row, a zone map every live row of its segment, the exact
\* indexes every live row of the immutable segments (SecondaryIndexes), and the
\* primary index the live rows, each under its key (MirrorTable).
IsView(v) ==
    LET live == DOMAIN v.rows \ v.dead
        key(l) == [i \in DOMAIN v.pk |-> v.rows[l][v.pk[i]]]
    IN
    /\ DOMAIN v.rows \subseteq Nat \X Nat /\ IsFiniteSet(DOMAIN v.rows)
    /\ \A l \in DOMAIN v.rows : v.rows[l] \in [Field -> Number] /\ l[1] <= v.active
    /\ v.active \in Nat /\ v.sort \subseteq Field
    /\ live \subseteq v.bm /\ v.bm \subseteq DOMAIN v.rows
    /\ v.mm \subseteq DOMAIN v.rows /\ \A k \in v.mm, l \in live : k[1] = l[1] => l \in v.mm
    /\ v.pk \in Seq(Field) /\ v.pk # <<>>
    /\ \A c \in Field \ (Range(v.pk) \cup v.skip) :
         /\ \A l \in live : l[1] # v.active => <<v.rows[l][c], l>> \in v.exact[c]
         /\ \A p \in v.exact[c] : p[2] \in live => p[1] = v.rows[p[2]][c]
    /\ \A l \in live : key(l) \in DOMAIN v.index /\ v.index[key(l)] = l
    /\ \A k \in DOMAIN v.index : v.index[k] \in live /\ key(v.index[k]) = k

Ops == {"Eq", "Ne", "Gt", "Gte", "Lt", "Lte", "Between", "In", "NotIn"}
ASSUME ViewsAreTables == \A v \in Views : IsView(v)
ASSUME FiltersAreFilters ==
    \A f \in Filters : /\ f.field \in Field /\ f.op \in Ops
                        /\ f.value \in Number /\ f.to \in Number /\ f.options \subseteq Number
ASSUME NoOrderIsNoField == NoOrder \notin Field
ASSUME SizesArePositive == {PageSize, Chunk, Buffer} \subseteq Nat \ {0}
ASSUME BoundsAreNumbers == {MaxFilters, MaxOffset} \subseteq Nat

-----------------------------------------------------------------------------
(* Properties *)

\* The rows a query is to find: every row that is alive and satisfies it.
Wanted == {l \in Live : q.filters = <<>> \/ Satisfies(s.rows[l], Given, q.op)}

\* What the shortcuts of search rely on beyond complete indexes.
\*   NumbersInOrder - an order filter meets only values that are ordered alike as
\*                    strings and as numbers
\*   NoSkippedLookup - no Eq or In on a column of BITTICE_SKIP_EXACT_INDEX_FIELDS
\*   OrIsScanned    - under Or, neither zone maps (consulted filter by filter) nor a
\*                    composite key (looked up whatever else may match) interfere
\*   KeyAlone       - an Eq or In on the key comes without other filters
\*   HitsBeforeIn   - an In that is in no index comes before any Eq that is
NumbersInOrder ==
    \A f \in Given : \A l \in DOMAIN s.rows :
        f.op \in {"Gt", "Gte", "Lt", "Lte", "Between"} =>
            \A w \in {f.value, f.to} \ {s.rows[l][f.field]} :
                StrLess(s.rows[l][f.field], w) <=> s.rows[l][f.field] < w
NoSkippedLookup == \A f \in Given : IsLookup(f) => f.field \notin s.skip
OrIsScanned == q.op = "Or" /\ Len(q.filters) > 1 => s.mm = {} /\ ~HasCompositePk
KeyAlone ==
    q.op = "And" /\ Len(q.filters) > 1 /\ ~HasCompositePk
        => \A f \in Given : IsLookup(f) => ~IsPk(f.field)
HitsBeforeIn ==
    \A i, j \in DOMAIN q.filters :
        i < j /\ q.filters[j].op = "In" /\ ~IsPk(q.filters[j].field)
            => AnyValue(q.filters[j].field, q.filters[j].options) # {} \/ ~IsLookup(q.filters[i])

\* A search never misses: whichever branch it takes (primary index, exact
\* indexes, zone maps, bitmaps, or a mixture), every live row that satisfies the
\* query is in its result.
NoMatchIsMissed ==
    NumbersInOrder /\ NoSkippedLookup /\ OrIsScanned => Wanted \subseteq Search

\* A search never returns a superseded or deleted row.
NoDeadRow == Search \subseteq Live

\* Where the key is not mixed with other filters, a search returns exactly the
\* rows wanted.
SearchIsExact ==
    NumbersInOrder /\ NoSkippedLookup /\ OrIsScanned /\ KeyAlone /\ HitsBeforeIn => Search = Wanted

\* A join's fetch of the rows for its keys visits every wanted row once: the
\* pages, each the result of a search of its own, neither overlap nor leave
\* gaps, and the probe misses nothing.
FetchVisitsEveryRowOnce ==
    done /\ q.order = NoOrder /\ NumbersInOrder /\ NoSkippedLookup /\ ~LooksUpSeveral
        => Wanted \subseteq Range(fetched) /\ IsInjective(fetched)

\* An ordered page has the keys that sorting the whole result puts there: neither
\* the thresholds of the parallel tasks, nor cutting their buffers, nor merging
\* them loses a row that belongs on the page.  The row at a place of the page has
\* a key that the sorted result has at that place: fewer rows have a smaller one,
\* and at least as many have none that is greater.  (Which of several rows with
\* equal keys is on the page is left to chance.)
OrderedPageIsRight ==
    done /\ q.order # NoOrder =>
        /\ Len(fetched) = Min({PageSize, IF Cardinality(Search) > q.offset
                                         THEN Cardinality(Search) - q.offset ELSE 0})
        /\ IsInjective(fetched) /\ Range(fetched) \subseteq Search
        /\ \A i \in DOMAIN fetched :
             /\ Cardinality({l \in Search : SortKey(l) < SortKey(fetched[i])}) < q.offset + i
             /\ Cardinality({l \in Search : SortKey(l) <= SortKey(fetched[i])}) >= q.offset + i

\* GROUP BY, answered from bitmaps segment by segment, counts the rows the query
\* returns and no others, superseded ones included in no group.
GroupsCountTheMatches ==
    \A field \in Field :
        LET counts == GroupCounts(field, Search) IN
        /\ DOMAIN counts = {s.rows[l][field] : l \in Search}
        /\ \A v \in DOMAIN counts : counts[v] = Cardinality({l \in Search : s.rows[l][field] = v})

=============================================================================
