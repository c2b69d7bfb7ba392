----------------------------- MODULE JoinQuery -----------------------------
(***************************************************************************)
(* The executor of multi-table saved queries: core/join_query.rs.  It      *)
(* fetches the base rows, then table by table the rows its current rows    *)
(* refer to, joins them in memory, filters, aggregates, sorts and pages;   *)
(* when only LEFT joins are left it cuts the rows to the page early.       *)
(*                                                                         *)
(* A cell is a number and the way it is written ("int": 6351, "dec":       *)
(* 6351.0); 0 stands for the empty cell.  A row maps qualified fields,     *)
(* pairs of alias and column, to cells.                                    *)
(***************************************************************************)
EXTENDS Naturals, Sequences, FiniteSets, SequencesExt, FiniteSetsExt, Functions

CONSTANTS
    Databases,       \* table contents: alias -> sequence of rows (column -> cell)
    Queries,         \* saved queries, parameters substituted
    Base,            \* the alias of the base table
    Key,             \* the primary key column of every table
    Absent,          \* no aggregation, no filter tree, no synthetic field
    JoinResultLimit  \* JOIN_RESULT_LIMIT

VARIABLES
    tables,        \* the tables, as the read locks show them
    query,         \* the query
    stage,         \* "base", "join", "failed" or "done"
    joinsDone,     \* number of joins applied
    currentRows,   \* current_rows
    filteredEarly, \* filters_applied_early
    totalFound,    \* total_found
    response       \* rows and aggregation of the response

joinVars == <<tables, query, stage, joinsDone, currentRows, filteredEarly, totalFound, response>>

-----------------------------------------------------------------------------
(* Lists *)

\* The members of S in the order whose pairs are given.
ByRank(S, order) ==
    [n \in 1 .. Cardinality(S) |-> CHOOSE x \in S : Cardinality({y \in S : <<y, x>> \in order}) = n - 1]

Arranged(list, places, order) == LET at == ByRank(places, order) IN [n \in DOMAIN at |-> list[at[n]]]

\* What a list has at some places, in the order of the list ...
PickAt(list, places) == Arranged(list, places, {p \in places \X places : p[1] < p[2]})

\* ... and where it has something for the first time.
WithoutRepeats(list) == PickAt(list, {i \in DOMAIN list : \A j \in 1 .. i - 1 : list[j] # list[i]})

-----------------------------------------------------------------------------
(* Cells and filters *)

EmptyCell == <<0, "int">>

\* Mutated form of Normalize: keys are compared as they are written.
NormalizeNot(cell) == cell

\* normalize_join_key_fragment
Normalize(cell) == <<cell[1], "int">>

\* compare_filter_value: numbers are compared as numbers.
CellHolds(cell, f) ==
    CASE f.op = "Eq" -> cell[1] = f.value
      [] f.op = "Gt" -> cell[1] > f.value
      [] f.op = "Ne" -> cell[1] # f.value

\* evaluate_filter: a field the row lacks (an unmatched LEFT join) satisfies nothing.
Evaluate(row, f) == f.field \in DOMAIN row /\ CellHolds(row[f.field], f)

\* apply_filters, with filters_op
Passes(row, filters, op) ==
    \/ filters = {}
    \/ IF op = "And" THEN \A f \in filters : Evaluate(row, f) ELSE \E f \in filters : Evaluate(row, f)

\* evaluate_filter_tree, for a group of groups of conditions
PassesTree(row, tree) ==
    LET inGroup(g) == IF g.op = "And" THEN \A f \in g.filters : Evaluate(row, f) ELSE \E f \in g.filters : Evaluate(row, f)
    IN IF tree.op = "And" THEN \A g \in tree.groups : inGroup(g) ELSE \E g \in tree.groups : inGroup(g)

LeftAliases(qry) == {qry.joins[k].alias : k \in {j \in DOMAIN qry.joins : qry.joins[j].kind = "left"}}

\* Filters on a LEFT-joined alias are left to the pushdown.
PostJoinFilters(qry) == {f \in qry.filters : f.field[1] \notin LeftAliases(qry)}

\* collect_pushdown_filters: conditions a table itself is searched for, all of them
\* together whatever filters_op says; none if there is a filter tree.
Pushdown(qry, alias) == IF qry.tree # Absent THEN {} ELSE {f \in qry.filters : f.field[1] = alias}

TreeFields(qry) == IF qry.tree = Absent THEN {} ELSE UNION {{f.field : f \in g.filters} : g \in qry.tree.groups}

AggregateFields(qry) == IF qry.agg = Absent THEN {} ELSE {qry.agg.field, qry.agg.group}
SummedFields(qry) == {qry.joins[k].sum : k \in DOMAIN qry.joins} \ {Absent}

\* The fields a query mentions.
Mentioned(qry) ==
    qry.select \cup {f.field : f \in qry.filters} \cup TreeFields(qry)
    \cup {o.field : o \in Range(qry.order)}
    \cup (UNION {{c.old, c.new} : c \in UNION {Range(qry.joins[k].on) : k \in DOMAIN qry.joins}})
    \cup SummedFields(qry) \cup AggregateFields(qry)

\* collect_needed_fields, sorted_join_fetch_fields: the columns read from a table.
\* The column "PK" is always asked for; a table with a named key has none, and the
\* cell is empty.
Needed(db, qry, alias) == {f \in Mentioned(qry) : f[1] = alias /\ f[2] \in DOMAIN db[alias][1]}

-----------------------------------------------------------------------------
(* Fetching: fetch_rows_from_table and fetch_join_rows *)

Flat(db, qry, alias, row) == [f \in Needed(db, qry, alias) |-> row[f[2]]]

\* A table searched for a set of lookups (column, numbers) and its pushdown
\* filters.  TableSearch shows what the answer is: every row wanted and, when a
\* lookup on the key comes with another one, perhaps rows with other keys.
Answers(db, alias, lookups, filters) ==
    LET table == db[alias]
        eqs == lookups \cup {<<f.field[2], {f.value}>> : f \in {g \in filters : g.op = "Eq"}}
        loose == {l \in eqs : l[1] # Key}
        found(ls) == PickAt(table, {i \in DOMAIN table :
                        /\ \A l \in ls : table[i][l[1]][1] \in l[2]
                        /\ \A f \in filters : f.op # "Eq" => CellHolds(table[i][f.field[2]], f)})
    IN {found(eqs)} \cup (IF loose = {} THEN {} ELSE {found(loose)})

\* compose_key of a current row, if it has every field of the ON conditions.
HasKey(row, join) == \A c \in DOMAIN join.on : join.on[c].old \in DOMAIN row
ComposeKey(row, join) == [c \in DOMAIN join.on |-> Normalize(row[join.on[c].old])]
JoinedKey(row, join) == [c \in DOMAIN join.on |-> Normalize(row[join.on[c].new])]

\* Mutated form of LookupKeys: the first row without a key ends the collection.
LookupKeysStop(rows, join) ==
    LET keyed == PickAt(rows, {i \in DOMAIN rows : \A j \in 1 .. i : HasKey(rows[j], join)})
    IN WithoutRepeats([i \in DOMAIN keyed |-> ComposeKey(keyed[i], join)])

\* build_join_lookup_filters: the distinct keys of the current rows; rows that an
\* earlier LEFT join left without the field are passed over.
LookupKeys(rows, join) ==
    LET keyed == PickAt(rows, {i \in DOMAIN rows : HasKey(rows[i], join)})
    IN WithoutRepeats([i \in DOMAIN keyed |-> ComposeKey(keyed[i], join)])

\* coalesce_join_lookup_filters: keys that differ in one column become one In; the
\* result is a sequence of lookups, sets of pairs of column and numbers.
Coalesced(keys, join) ==
    LET positions == DOMAIN join.on
        one(k, p) == <<join.on[p].new[2], {k[p][1]}>>
        agree(p) == \A i, j \in DOMAIN keys, o \in positions \ {p} : keys[i][o] = keys[j][o]
        all(p) == <<join.on[p].new[2], {keys[i][p][1] : i \in DOMAIN keys}>>
        vary == {p \in positions : agree(p)}
        v == CHOOSE p \in vary : \A o \in vary : p <= o
    IN IF Len(keys) <= 1 \/ vary = {} THEN [i \in DOMAIN keys |-> {one(keys[i], p) : p \in positions}]
       ELSE << {one(keys[1], p) : p \in positions \ {v}} \cup {all(v)} >>

\* fetch_join_rows: batch after batch, rows with a fingerprint already seen dropped.
FetchedRows(db, qry, rows, join) ==
    LET batches == Coalesced(LookupKeys(rows, join), join)
        answers == [b \in DOMAIN batches |-> Answers(db, join.alias, batches[b], Pushdown(qry, join.alias))]
        flat(list) == [n \in DOMAIN list |-> Flat(db, qry, join.alias, list[n])]
        picks == {p \in [DOMAIN batches -> UNION Range(answers)] : \A b \in DOMAIN batches : p[b] \in answers[b]}
    IN {WithoutRepeats(FlattenSeq([b \in DOMAIN batches |-> flat(p[b])])) : p \in picks}

-----------------------------------------------------------------------------
(* Joining: build_join_index and apply_join *)

MergeRow(row, other) == [f \in DOMAIN row \cup DOMAIN other |-> IF f \in DOMAIN other THEN other[f] ELSE row[f]]

\* The synthetic fields of an aggregating join: {alias}.{count_matches_as} and
\* {alias}.{sum_matches_as}.
IsAggregate(join) == join.count \/ join.sum # Absent
SumOf(list, field) == SumFunction([m \in DOMAIN list |-> list[m][field][1]])
Synthetic(join, matches) ==
    LET names == (IF join.count THEN {"count"} ELSE {}) \cup (IF join.sum # Absent THEN {"sum"} ELSE {})
    IN [f \in {join.alias} \X names |-> <<IF f[2] = "count" THEN Len(matches) ELSE SumOf(matches, join.sum), "int">>]

\* What one current row becomes, given the rows that match it.
Joined(row, matches, join) ==
    IF matches = <<>> /\ join.kind = "inner" THEN <<>>
    ELSE IF IsAggregate(join) THEN <<MergeRow(row, Synthetic(join, matches))>>
    ELSE IF matches = <<>> THEN <<row>>
    ELSE [m \in DOMAIN matches |-> MergeRow(row, matches[m])]

MatchesOf(row, fetchedRows, join) ==
    PickAt(fetchedRows, {m \in DOMAIN fetchedRows :
        HasKey(row, join) /\ JoinedKey(fetchedRows[m], join) = ComposeKey(row, join)})
ApplyJoin(rows, fetchedRows, join) ==
    FlattenSeq([i \in DOMAIN rows |-> Joined(rows[i], MatchesOf(rows[i], fetchedRows, join), join)])

-----------------------------------------------------------------------------
(* Sorting and paging *)

CellOr(row, field) == IF field \in DOMAIN row THEN row[field] ELSE EmptyCell

\* compare_rows over the columns of order_by; sort_by is stable.
Precedes(qry, a, b) ==
    LET key(row, k) == CellOr(row, qry.order[k].field)[1] IN
    \E k \in DOMAIN qry.order :
        /\ \A j \in 1 .. k - 1 : key(a, j) = key(b, j)
        /\ IF qry.order[k].desc THEN key(a, k) > key(b, k) ELSE key(a, k) < key(b, k)
Sorted(qry, rows) ==
    Arranged(rows, DOMAIN rows, {p \in (DOMAIN rows) \X (DOMAIN rows) :
        \/ Precedes(qry, rows[p[1]], rows[p[2]])
        \/ ~Precedes(qry, rows[p[2]], rows[p[1]]) /\ p[1] < p[2]})

Page(qry, rows) ==
    IF qry.limit = 0 THEN <<>>
    ELSE SubSeq(rows, Min({qry.offset, Len(rows)}) + 1, Min({qry.offset + qry.limit, Len(rows)}))

Projected(qry, rows) == [i \in DOMAIN rows |-> [f \in qry.select |-> CellOr(rows[i], f)]]

\* Mutated form of CanApplyEarlyWindow: aggregations do not forbid it.
CanApplyEarlyWindowUnderAggregates(qry, k) ==
    LET available == {Base} \cup {qry.joins[j].alias : j \in 1 .. k} IN
    /\ qry.order # <<>> /\ qry.tree = Absent
    /\ \A f \in PostJoinFilters(qry) : f.field[1] \in available
    /\ \A o \in Range(qry.order) : o.field[1] \in available
    /\ \A j \in k + 1 .. Len(qry.joins) : qry.joins[j].kind = "left"

\* can_apply_early_window, after k joins
CanApplyEarlyWindow(qry, k) ==
    LET available == {Base} \cup {qry.joins[j].alias : j \in 1 .. k} IN
    /\ qry.order # <<>> /\ qry.tree = Absent /\ qry.agg = Absent
    /\ \A f \in PostJoinFilters(qry) : f.field[1] \in available
    /\ \A o \in Range(qry.order) : o.field[1] \in available
    /\ \A j \in k + 1 .. Len(qry.joins) : qry.joins[j].kind = "left"

-----------------------------------------------------------------------------
(* Aggregations: run_aggregations, apply_having *)

CellsOf(rows, field) == [i \in DOMAIN rows |-> CellOr(rows[i], field)]

\* Mutated form of Groups: rows without the grouping field are in no group.
GroupsOfPresent(cells) == Range(cells) \ {EmptyCell}

\* The groups of a list of rows; a row without the field is in the empty group.
Groups(cells) == Range(cells)

\* The metric of the rows at some places, whose field has the given cells.
Metric(cells, places, agg) ==
    CASE agg.kind \in {"GroupBy", "TopN"} -> Cardinality(places)
      [] agg.kind = "Sum" -> SumFunctionOnSet([i \in DOMAIN cells |-> cells[i][1]], places)
      [] agg.kind = "Max" -> IF places = {} THEN 0 ELSE Max({cells[i][1] : i \in places})
      [] agg.kind = "CountDistinct" -> Cardinality({cells[i] : i \in places})

\* apply_having, for a lower bound
MeetsHaving(value, agg) == value >= agg.having

\* TopN keeps the n largest groups (ties by value) and only then applies HAVING.
Aggregate(rows, agg) ==
    LET by == CellsOf(rows, agg.group)
        of == CellsOf(rows, agg.field)
        metric == [g \in Groups(by) |-> Metric(of, {i \in DOMAIN by : by[i] = g}, agg)]
        ahead(g) == {h \in Groups(by) : metric[h] > metric[g] \/ (metric[h] = metric[g] /\ h[1] < g[1])}
        kept == IF agg.kind = "TopN" THEN {g \in Groups(by) : Cardinality(ahead(g)) < agg.n} ELSE Groups(by)
    IN [groups |-> [g \in {h \in kept : MeetsHaving(metric[h], agg)} |-> metric[g]],
        summary |-> IF agg.kind \in {"Max", "Sum"} THEN Metric(of, DOMAIN of, agg) ELSE SumFunctionOnSet(metric, kept)]

-----------------------------------------------------------------------------
(* execute_join_query *)

JoinInit ==
    /\ tables \in Databases /\ query \in Queries
    /\ stage = "base" /\ joinsDone = 0 /\ currentRows = <<>> /\ filteredEarly = FALSE /\ totalFound = 0
    /\ response = [rows |-> <<>>, agg |-> Absent]

FetchBase ==
    /\ stage = "base"
    /\ \E found \in Answers(tables, Base, {}, Pushdown(query, Base)) :
         currentRows' = [i \in DOMAIN found |-> Flat(tables, query, Base, found[i])]
    /\ stage' = "join"
    /\ UNCHANGED <<tables, query, joinsDone, filteredEarly, totalFound, response>>

PassAt(rows, filters, op) == PickAt(rows, {i \in DOMAIN rows : Passes(rows[i], filters, op)})

\* The rows cut to the end of the page.
Window(qry, rows) ==
    IF qry.offset + qry.limit = 0 THEN rows ELSE SubSeq(rows, 1, Min({qry.offset + qry.limit, Len(rows)}))

\* Fetch and apply the next join and, if the rest only decorates the rows, cut
\* them to the end of the page.
ApplyNextJoin ==
    /\ stage = "join" /\ joinsDone < Len(query.joins)
    /\ LET join == query.joins[joinsDone + 1] IN
       \E fetchedRows \in FetchedRows(tables, query, currentRows, join) :
         LET joined == ApplyJoin(currentRows, fetchedRows, join)
             window == ~filteredEarly /\ CanApplyEarlyWindow(query, joinsDone + 1)
             passed == PassAt(joined, PostJoinFilters(query), query.op)
         IN IF Len(joined) > JoinResultLimit
            THEN stage' = "failed" /\ UNCHANGED <<joinsDone, currentRows, filteredEarly, totalFound>>
            ELSE /\ joinsDone' = joinsDone + 1 /\ stage' = stage
                 /\ filteredEarly' = (filteredEarly \/ window)
                 /\ totalFound' = IF window THEN Len(passed) ELSE totalFound
                 /\ currentRows' = IF window THEN Window(query, Sorted(query, passed)) ELSE joined
    /\ UNCHANGED <<tables, query, response>>

\* What is left of filtering.
LastFilters(qry, rows, early) ==
    LET passed == IF early THEN rows ELSE PassAt(rows, PostJoinFilters(qry), qry.op)
    IN IF qry.tree = Absent THEN passed ELSE PickAt(passed, {i \in DOMAIN passed : PassesTree(passed[i], qry.tree)})

\* Mutated form of Finish: total_found is taken from what the early cut left.
FinishRecounts ==
    /\ stage = "join" /\ joinsDone = Len(query.joins)
    /\ LET kept == LastFilters(query, currentRows, filteredEarly) IN
       /\ currentRows' = kept
       /\ totalFound' = Len(kept)
       /\ response' = [rows |-> Projected(query, Page(query, Sorted(query, kept))),
                       agg |-> IF query.agg = Absent THEN Absent ELSE Aggregate(kept, query.agg)]
    /\ stage' = "done"
    /\ UNCHANGED <<tables, query, joinsDone, filteredEarly>>

\* What is left of filtering, then the aggregations, the final sort and the page.
Finish ==
    /\ stage = "join" /\ joinsDone = Len(query.joins)
    /\ LET kept == LastFilters(query, currentRows, filteredEarly) IN
       /\ currentRows' = kept
       /\ totalFound' = IF totalFound = 0 THEN Len(kept) ELSE totalFound
       /\ response' = [rows |-> Projected(query, Page(query, Sorted(query, kept))),
                       agg |-> IF query.agg = Absent THEN Absent ELSE Aggregate(kept, query.agg)]
    /\ stage' = "done"
    /\ UNCHANGED <<tables, query, joinsDone, filteredEarly>>

JoinNext == FetchBase \/ ApplyNextJoin \/ Finish
JoinSpec == JoinInit /\ [][JoinNext]_joinVars

-----------------------------------------------------------------------------
(* The data and the queries the executor meets *)

IsList(list) == list \in Seq(Range(list))

\* A table is a list of rows that have the same columns.
IsDatabase(db) ==
    \A alias \in DOMAIN db :
        /\ IsList(db[alias])
        /\ \A i \in DOMAIN db[alias] :
             /\ DOMAIN db[alias][i] = DOMAIN db[alias][1]
             /\ \A c \in DOMAIN db[alias][i] : db[alias][i][c] \in Nat \X {"int", "dec"}

\* What resolve_joins makes sure of: at least one join, each of an alias that is
\* new, and every ON condition names a column of that alias.
IsQuery(qry) ==
    /\ IsList(qry.joins) /\ qry.joins # <<>>
    /\ \A k \in DOMAIN qry.joins :
         LET join == qry.joins[k] IN
         /\ join.alias # Base /\ \A j \in 1 .. k - 1 : qry.joins[j].alias # join.alias
         /\ join.kind \in {"inner", "left"} /\ join.count \in BOOLEAN
         /\ IsList(join.on) /\ \A c \in DOMAIN join.on : join.on[c].new[1] = join.alias
         /\ join.sum # Absent => join.sum[1] = join.alias
    /\ IsList(qry.order) /\ \A k \in DOMAIN qry.order : qry.order[k].desc \in BOOLEAN
    /\ qry.limit \in Nat /\ qry.offset \in Nat
    /\ \A f \in Mentioned(qry) : f = <<f[1], f[2]>>
    /\ Absent \notin Mentioned(qry)

\* The tables are there, with the columns that are joined on, filtered by and
\* summed up, and without one that has the name of a synthetic field.
Fits(qry, db) ==
    LET aliases == {Base} \cup {qry.joins[k].alias : k \in DOMAIN qry.joins}
        has(field) == field[1] \in aliases => \A row \in Range(db[field[1]]) : field[2] \in DOMAIN row
    IN /\ aliases \subseteq DOMAIN db
       /\ \A alias \in aliases : \A row \in Range(db[alias]) : {"count", "sum"} \cap DOMAIN row = {}
       /\ \A k \in DOMAIN qry.joins :
            /\ \A c \in Range(qry.joins[k].on) : has(c.new)
            /\ qry.joins[k].sum # Absent => has(qry.joins[k].sum)
       /\ \A f \in qry.filters : has(f.field)

ASSUME LimitIsPositive == JoinResultLimit \in Nat \ {0}
ASSUME DatabasesAreTables == \A db \in Databases : IsDatabase(db)
ASSUME QueriesAreQueries == \A qry \in Queries : IsQuery(qry)
ASSUME QueriesFit == \A qry \in Queries, db \in Databases : Fits(qry, db)

-----------------------------------------------------------------------------
(* Properties *)

\* The relational reading of the query: nested loops over the tables, a LEFT join
\* keeping unmatched rows, the filters of a LEFT alias part of its ON clause.
Whole(db, alias) ==
    [i \in DOMAIN db[alias] |-> [f \in {<<alias, c>> : c \in DOMAIN db[alias][1]} |-> db[alias][i][f[2]]]]
RefMatches(db, qry, row, join) ==
    LET table == Whole(db, join.alias)
        wanted(m) == /\ \A c \in DOMAIN join.on : join.on[c].old \in DOMAIN row /\ row[join.on[c].old][1] = m[join.on[c].new][1]
                     /\ \A f \in Pushdown(qry, join.alias) : Evaluate(m, f)
    IN PickAt(table, {i \in DOMAIN table : wanted(table[i])})
RefJoin(db, qry, rows, join) ==
    FlattenSeq([i \in DOMAIN rows |-> Joined(rows[i], RefMatches(db, qry, rows[i], join), join)])
RefAfter(db, qry, k) ==
    LET after[n \in 0 .. Len(qry.joins)] ==
            IF n = 0 THEN Whole(db, Base) ELSE RefJoin(db, qry, after[n - 1], qry.joins[n])
    IN after[k]
RefPasses(qry, row) ==
    (\A f \in PostJoinFilters(qry) : Evaluate(row, f)) /\ (qry.tree = Absent \/ PassesTree(row, qry.tree))
RefRows(db, qry) ==
    LET joined == RefAfter(db, qry, Len(qry.joins))
    IN PickAt(joined, {i \in DOMAIN joined : RefPasses(qry, joined[i])})

\* What the executor needs of a query and its data.
\*   AllMustHold   - filters_op is And: the pushdown knows no Or
\*   RowsAreTold   - rows of a joined table differ in a column the query reads: rows
\*                   are told apart by fingerprint, and "PK" is no column
\*   LeftKeysFree  - no Eq on the key of a LEFT-joined table: nothing re-checks it
AllMustHold(qry) == qry.op = "And"
RowsAreTold(db, qry) ==
    \A k \in DOMAIN qry.joins :
        LET alias == qry.joins[k].alias IN
        \A i, j \in DOMAIN db[alias] : i # j => Flat(db, qry, alias, db[alias][i]) # Flat(db, qry, alias, db[alias][j])
LeftKeysFree(qry) == \A f \in qry.filters : f.op = "Eq" /\ f.field[2] = Key => f.field[1] \notin LeftAliases(qry)
Sound(db, qry) == AllMustHold(qry) /\ RowsAreTold(db, qry) /\ LeftKeysFree(qry)

\* The response is the requested page of the relational result, in order: keyed
\* lookups, coalescing, fingerprints, index answers that are too wide, joining on
\* normalized keys and the early cut change nothing.
JoinIsRelational ==
    stage = "done" /\ Sound(tables, query) =>
        response.rows = Projected(query, Page(query, Sorted(query, RefRows(tables, query))))

\* Even when rows cannot be told apart, a query that shows every row shows each
\* distinct row of the relational result and nothing else.
NothingIsInvented ==
    stage = "done" /\ AllMustHold(query) /\ LeftKeysFree(query) /\ query.offset = 0 /\ query.limit >= JoinResultLimit
        /\ (\A k \in DOMAIN query.joins : ~IsAggregate(query.joins[k]))
        => Range(response.rows) = Range(Projected(query, RefRows(tables, query)))

\* Aggregates are over the whole result, whatever page is asked for.
AggregatesSeeEveryRow ==
    stage = "done" /\ Sound(tables, query) /\ query.agg # Absent
        => response.agg = Aggregate(RefRows(tables, query), query.agg)

\* Without HAVING or TopN, the groups of a sum or a count add up to its summary: every
\* row is in one group, rows of an unmatched LEFT join included.
GroupsAddUp ==
    stage = "done" /\ query.agg # Absent /\ query.agg.kind \in {"GroupBy", "Sum"} /\ query.agg.having = 0
        => SumFunction(response.agg.groups) =
           IF query.agg.kind = "GroupBy" THEN Len(currentRows)
           ELSE SumFunction([i \in DOMAIN currentRows |-> CellOr(currentRows[i], query.agg.field)[1]])

\* The joins that the early cut runs before match at most one row each.
NoFanOut(db, qry) ==
    \A k \in DOMAIN qry.joins : qry.joins[k].kind = "left" /\ ~IsAggregate(qry.joins[k]) =>
        \A row \in Range(RefAfter(db, qry, k - 1)) : Len(RefMatches(db, qry, row, qry.joins[k])) <= 1

\* total_found, which clients page by, is the number of rows of the whole result,
\* also when it was counted before the LEFT joins that were left.
TotalIsExact ==
    stage = "done" /\ Sound(tables, query) /\ NoFanOut(tables, query) => totalFound = Len(RefRows(tables, query))

=============================================================================
