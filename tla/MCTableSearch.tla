-------------------------- MODULE MCTableSearch --------------------------
(* Three rows: two in an immutable segment, one in the active segment that *)
(* may supersede one of them; two columns with values whose order as       *)
(* numbers and as strings differs.                                         *)
EXTENDS TableSearch

MCField == {"id", "f", "g"}
Num == {2, 10}
Loc == {<<0, 1>>, <<0, 2>>, <<1, 1>>}
Stale == <<10, <<7, 1>>>>

View(last, f, g, dead, zones, stale, mode) ==
    LET id == [l \in Loc |-> IF l = <<1, 1>> THEN last ELSE l[2]]
        rows == [l \in Loc |-> [id |-> id[l], f |-> f[l], g |-> g[l]]]
        gone == dead \cup {l \in Loc : l # <<1, 1>> /\ id[l] = last}
        pk == IF mode = "composite" THEN <<"id", "g">> ELSE <<"id">>
        key(l) == [i \in DOMAIN pk |-> rows[l][pk[i]]]
    IN [rows |-> rows, dead |-> gone, active |-> 1, bm |-> Loc, mm |-> zones, pk |-> pk,
        skip |-> IF mode = "skip" THEN {"g"} ELSE {},
        sort |-> IF mode = "single" /\ zones = {} /\ dead = {} /\ ~stale THEN {"f"} ELSE {},
        exact |-> [c \in {"f", "g"} |->
                      {<<rows[l][c], l>> : l \in {k \in Loc : k[1] = 0}} \cup (IF stale THEN {Stale} ELSE {})],
        index |-> [k \in {key(l) : l \in Loc \ gone} |-> CHOOSE l \in Loc \ gone : key(l) = k]]

MCViews ==
    {View(last, f, g, dead, zones, stale, mode) :
        last \in {1, 3}, f \in [Loc -> Num], g \in [Loc -> Num], dead \in {{}, {<<0, 2>>}},
        zones \in {{}, Loc}, stale \in BOOLEAN, mode \in {"single"}}
    \cup
    {View(last, f, g, dead, zones, FALSE, "composite") :
        last \in {1, 3}, f \in [Loc -> Num], g \in [Loc -> Num], dead \in {{}, {<<0, 2>>}},
        zones \in {{}, Loc}}
    \cup
    {View(last, f, g, dead, {}, FALSE, "skip") :
        last \in {1, 3}, f \in [Loc -> Num], g \in [Loc -> Num], dead \in {{}, {<<0, 2>>}}}

F(field, op, value) == [field |-> field, op |-> op, value |-> value, to |-> value, options |-> {}]
MCFilters ==
    {F("id", "Eq", 1), F("f", "Eq", 2), F("f", "Eq", 5), F("g", "Eq", 10),
     F("f", "Gt", 2), F("f", "Lte", 2), F("g", "Ne", 2),
     [F("f", "Between", 2) EXCEPT !.to = 10],
     [F("id", "In", 1) EXCEPT !.options = {1, 2, 3}],
     [F("g", "In", 10) EXCEPT !.options = {10, 12}]}
=============================================================================
