--------------------------- MODULE MCJoinQuery ---------------------------
(* Three tables of two rows and queries over them that differ in joins,    *)
(* filters, order, page and aggregation.                                   *)
EXTENDS JoinQuery

I(n) == <<n, "int">>
D(n) == IF n = 0 THEN EmptyCell ELSE <<n, "dec">>

MCDatabases ==
    {[a |-> <<[id |-> I(1), k |-> I(ak[1])], [id |-> I(2), k |-> I(ak[2])]>>,
      b |-> <<[id |-> I(1), k |-> D(bk[1]), v |-> I(bv[1])], [id |-> I(2), k |-> D(bk[2]), v |-> I(bv[2])]>>,
      c |-> <<[id |-> I(1), k |-> I(ck[1])], [id |-> I(2), k |-> I(ck[2])]>>] :
        ak \in {<<1, 1>>, <<1, 2>>, <<2, 0>>}, bk \in {<<1, 1>>, <<2, 1>>, <<0, 2>>},
        bv \in {<<1, 1>>, <<1, 2>>, <<2, 1>>}, ck \in {<<1, 1>>, <<2, 1>>, <<3, 2>>}}

On(old, new) == [old |-> old, new |-> new]
J(alias, kind, on) == [alias |-> alias, kind |-> kind, on |-> on, count |-> FALSE, sum |-> Absent]

JoinLists ==
    LET b(kind) == J("b", kind, <<On(<<"a", "k">>, <<"b", "k">>)>>)
        c(kind) == J("c", kind, <<On(<<"b", "v">>, <<"c", "k">>)>>)
    IN {<<b(x), c(y)>> : x \in {"inner", "left"}, y \in {"inner", "left"}}
       \cup {<<J("b", x, <<On(<<"a", "k">>, <<"b", "k">>), On(<<"a", "id">>, <<"b", "v">>)>>)>> : x \in {"inner", "left"}}
       \cup {<<c2, b("left")>> : c2 \in {J("c", "left", <<On(<<"a", "k">>, <<"c", "k">>)>>)}}
       \cup {<<[b("left") EXCEPT !.count = TRUE, !.sum = n]>> : n \in {Absent, <<"b", "v">>}}
       \cup {<<b("inner"), [c("inner") EXCEPT !.count = TRUE]>>}

Filter(alias, col, op, value) == [field |-> <<alias, col>>, op |-> op, value |-> value]
FilterSets ==
    {{}, {Filter("a", "k", "Eq", 1), Filter("a", "id", "Eq", 1)}, {Filter("b", "v", "Gt", 1)},
     {Filter("b", "v", "Eq", 1), Filter("b", "id", "Eq", 2)}, {Filter("a", "id", "Gt", 1), Filter("c", "id", "Ne", 1)}}

Tree == [op |-> "Or", groups |-> {[op |-> "And", filters |-> {Filter("a", "k", "Eq", 1), Filter("b", "v", "Gt", 1)}],
                                  [op |-> "Or", filters |-> {Filter("a", "id", "Eq", 2)}]}]
Asc(alias, col) == [field |-> <<alias, col>>, desc |-> FALSE]
Agg(kind, field, having) == [kind |-> kind, field |-> field, group |-> <<"b", "v">>, n |-> 1, having |-> having]

Shown == {<<"a", "id">>, <<"a", "k">>, <<"b", "v">>, <<"b", "count">>, <<"b", "sum">>, <<"c", "id">>, <<"c", "count">>}
Query(joins, filters, op, tree, order, agg, limit, offset, select) ==
    [joins |-> joins, filters |-> filters, op |-> op, tree |-> tree, order |-> order, agg |-> agg,
     limit |-> limit, offset |-> offset, select |-> {f \in select : f[1] \in {Base} \cup {joins[i].alias : i \in DOMAIN joins}}]

Orders == {<<>>, <<Asc("a", "k")>>, <<[Asc("b", "v") EXCEPT !.desc = TRUE], Asc("a", "id")>>}
Aggs == {Agg("GroupBy", <<"a", "k">>, 0), Agg("TopN", <<"a", "k">>, 2), Agg("Sum", <<"a", "k">>, 0),
         Agg("Max", <<"b", "id">>, 0), Agg("CountDistinct", <<"a", "k">>, 0)}
MCQueries ==
    {Query(js, fs, op, Absent, o, Absent, p[1], p[2], sel) :
        js \in JoinLists, fs \in FilterSets, op \in {"And", "Or"}, o \in Orders, p \in {<<9, 0>>, <<1, 0>>, <<1, 1>>},
        sel \in {Shown, Shown \cup {<<"b", "id">>}}}
    \cup {Query(js, {}, "And", Tree, o, Absent, 1, 0, Shown) : js \in JoinLists, o \in Orders}
    \cup {Query(js, fs, "And", Absent, o, g, 1, 0, Shown) : js \in JoinLists, fs \in FilterSets, o \in Orders, g \in Aggs}
=============================================================================
