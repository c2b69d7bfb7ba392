--------------------------- MODULE CompactionProof ---------------------------
(***************************************************************************)
(* Proofs about Compaction, for every set of keys and values, all segment  *)
(* sizes and any number of rows, compactions, wipes and process deaths:    *)
(* its types (CompactionTypes), that no key changes what it reads as       *)
(* (ContentTheorem) and that directories and table agree (StrayTheorem).   *)
(*                                                                         *)
(* The last two need to know, in every step of compact(), a wipe and a     *)
(* recovery, how the files relate to the table they stand for: CleanInv    *)
(* says it per control point, for as long as no death fell into a window.  *)
(***************************************************************************)
EXTENDS Compaction, TableOpsProof, FiniteSetTheorems

-----------------------------------------------------------------------------
(* Rows and segments *)

\* The rows of a segment have consecutive local ids from 1, so that record_count
\* tells which they are.
Dense(rows) ==
    \A s \in Nat : \E n \in Nat : \A l \in Loc : l[1] = s => (l \in DOMAIN rows <=> l[2] <= n)

\* The segments that hold a row.
SegsOf(rows) == {l[1] : l \in DOMAIN rows}

-----------------------------------------------------------------------------
(* Sets of locations *)

\* A bounded set of locations is finite.
LEMMA LocsFinite ==
    ASSUME NEW S \in SUBSET Loc, NEW B \in Nat, \A l \in S : l[1] <= B /\ l[2] <= B
    PROVE  IsFiniteSet(S)
<1>1. IsFiniteSet(0 .. B)
  BY FS_Interval
<1>2. IsFiniteSet((0 .. B) \X (0 .. B))
  BY <1>1, FS_Product
<1>3. S \in SUBSET ((0 .. B) \X (0 .. B))
  BY DEF Loc
<1> QED
  BY <1>2, <1>3, FS_Subset

\* So are the rows of a table, a directory or a compaction, and those of one segment.
LEMMA RowsFinite ==
    ASSUME NEW d, DOMAIN d.rows \subseteq Loc, Bounded(d)
    PROVE  /\ IsFiniteSet(DOMAIN d.rows)
           /\ \A s : CountIn(d.rows, s) \in Nat
<1>1. PICK B \in Nat : \A l \in DOMAIN d.rows : l[1] <= B /\ l[2] <= B
  BY DEF Bounded
<1>2. IsFiniteSet(DOMAIN d.rows)
  BY <1>1, LocsFinite
<1>3. ASSUME NEW s PROVE CountIn(d.rows, s) \in Nat
  <2> DEFINE T == {l \in DOMAIN d.rows : l[1] = s}
  <2>1. T \in SUBSET DOMAIN d.rows
    OBVIOUS
  <2>2. IsFiniteSet(T)
    <3> HIDE DEF T
    <3> QED BY <1>2, <2>1, FS_Subset
  <2>3. Cardinality(T) \in Nat
    <3> HIDE DEF T
    <3> QED BY <2>2, FS_CardinalityType
  <2> QED
    BY <2>3 DEF CountIn
<1> QED
  BY <1>2, <1>3

\* A segment whose local ids are 1 to n has n rows.
LEMMA CountDense ==
    ASSUME NEW rows, DOMAIN rows \subseteq Loc, NEW s \in Nat, NEW n \in Nat,
           \A l \in Loc : l[1] = s => (l \in DOMAIN rows <=> l[2] <= n)
    PROVE  CountIn(rows, s) = n
<1> DEFINE T == {l \in DOMAIN rows : l[1] = s}
           f == [i \in 1 .. n |-> <<s, i>>]
<1>1. \A i \in 1 .. n : <<s, i>> \in T
  <2> SUFFICES ASSUME NEW i \in 1 .. n PROVE <<s, i>> \in T
    OBVIOUS
  <2>1. <<s, i>> \in Loc /\ <<s, i>>[1] = s /\ <<s, i>>[2] <= n
    BY DEF Loc
  <2> QED
    BY <2>1
<1>2. \A l \in T : \E i \in 1 .. n : l = <<s, i>>
  <2> SUFFICES ASSUME NEW l \in T PROVE \E i \in 1 .. n : l = <<s, i>>
    OBVIOUS
  <2>1. l \in Loc /\ l[1] = s /\ l[2] <= n
    OBVIOUS
  <2>2. l[2] \in 1 .. n /\ l = <<l[1], l[2]>>
    BY <2>1 DEF Loc
  <2> QED
    BY <2>1, <2>2
<1>3. f \in Bijection(1 .. n, T)
  <2>1. f \in [1 .. n -> T]
    BY <1>1
  <2>2. \A i, j \in 1 .. n : f[i] = f[j] => i = j
    OBVIOUS
  <2>3. \A l \in T : \E i \in 1 .. n : f[i] = l
    BY <1>2
  <2> HIDE DEF f, T
  <2> QED
    BY <2>1, <2>2, <2>3 DEF Bijection, Injection, Surjection, IsInjective
<1>4. IsFiniteSet(1 .. n) /\ Cardinality(1 .. n) = n
  BY FS_Interval
<1>5. Cardinality(T) = n
  <2>1. ExistsBijection(1 .. n, T)
    BY <1>3 DEF ExistsBijection
  <2> HIDE DEF T
  <2> QED
    BY <1>4, <2>1, FS_Bijection
<1> QED
  BY <1>5 DEF CountIn

\* The order of locations.
LEMMA NewerOrder ==
    /\ \A a, b \in Loc : a # b => Newer(a, b) \/ Newer(b, a)
    /\ \A a, b \in Loc : ~ (Newer(a, b) /\ Newer(b, a))
    /\ \A a, b, c \in Loc : Newer(a, b) /\ Newer(b, c) => Newer(a, c)
    /\ \A a \in Loc : ~ Newer(a, a)
<1>1. \A a \in Loc : a[1] \in Nat /\ a[2] \in Nat /\ a = <<a[1], a[2]>>
  BY DEF Loc
<1> QED
  BY <1>1 DEF Newer

\* Ranks number a set of locations from 1, ...
LEMMA RankRange ==
    ASSUME NEW S \in SUBSET Loc, IsFiniteSet(S), NEW l \in S
    PROVE  Rank(l, S) \in 1 .. Cardinality(S)
<1> DEFINE U == {m \in S : ~Newer(m, l)}
<1>1. U \in SUBSET S /\ l \in U
  BY NewerOrder
<1> HIDE DEF U
<1>2. IsFiniteSet(U) /\ Cardinality(U) <= Cardinality(S)
  BY <1>1, FS_Subset
<1>3. Cardinality(U) \in Nat /\ Cardinality(S) \in Nat /\ Cardinality(U) # 0
  BY <1>1, <1>2, FS_CardinalityType, FS_EmptySet
<1>4. Cardinality(U) \in 1 .. Cardinality(S)
  BY <1>2, <1>3
<1> QED
  BY <1>4 DEF U, Rank

\* ... growing with the location, ...
LEMMA RankGrows ==
    ASSUME NEW S \in SUBSET Loc, IsFiniteSet(S), NEW l \in S, NEW m \in S, Newer(l, m)
    PROVE  Rank(m, S) < Rank(l, S)
<1> DEFINE U == {x \in S : ~Newer(x, m)}
           V == {x \in S : ~Newer(x, l)}
<1>1. V \in SUBSET S /\ U \in SUBSET V /\ l \in V /\ l \notin U
  BY NewerOrder
<1> HIDE DEF U, V
<1>2. IsFiniteSet(V)
  BY <1>1, FS_Subset
<1>3. Cardinality(U) <= Cardinality(V) /\ Cardinality(U) # Cardinality(V) /\ IsFiniteSet(U)
  BY <1>1, <1>2, FS_Subset
<1>4. Cardinality(U) \in Nat /\ Cardinality(V) \in Nat
  BY <1>2, <1>3, FS_CardinalityType
<1>5. Cardinality(U) < Cardinality(V)
  BY <1>3, <1>4
<1> QED
  BY <1>5 DEF U, V, Rank

\* ... and leaving no number out.
LEMMA RankOnto ==
    ASSUME NEW S \in SUBSET Loc, IsFiniteSet(S)
    PROVE  /\ \A l, m \in S : Rank(l, S) = Rank(m, S) => l = m
           /\ \A k \in 1 .. Cardinality(S) : \E l \in S : Rank(l, S) = k
<1> DEFINE f == [l \in S |-> Rank(l, S)]
           N == Cardinality(S)
<1>1. N \in Nat
  BY FS_CardinalityType
<1>2. \A l \in S : Rank(l, S) \in 1 .. N
  BY RankRange
<1>3. ASSUME NEW l \in S, NEW m \in S, Rank(l, S) = Rank(m, S) PROVE l = m
  <2>1. Rank(l, S) \in Nat /\ Rank(m, S) \in Nat
    BY <1>1, <1>2
  <2>2. ~ Newer(l, m) /\ ~ Newer(m, l)
    BY <1>3, <2>1, RankGrows
  <2> QED
    BY <2>2, NewerOrder
<1>4. f \in Injection(S, 1 .. N)
  <2>1. f \in [S -> 1 .. N]
    BY <1>2
  <2>2. \A a, b \in S : f[a] = f[b] => a = b
    BY <1>3
  <2> HIDE DEF f
  <2> QED
    BY <2>1, <2>2 DEF Injection, IsInjective
<1>5. IsFiniteSet(1 .. N) /\ Cardinality(1 .. N) = N
  BY <1>1, FS_Interval
<1>6. f \in Surjection(S, 1 .. N)
  <2> HIDE DEF f
  <2> QED BY <1>4, <1>5, FS_Injection
<1>7. \A k \in 1 .. N : \E l \in S : f[l] = k
  <2> HIDE DEF f
  <2> QED BY <1>6 DEF Surjection
<1> QED
  BY <1>3, <1>7

-----------------------------------------------------------------------------
(* How compact() packs rows into segments *)

\* Division by the size of a segment.
LEMMA DivMod ==
    ASSUME NEW T \in Nat \ {0}, NEW k \in Nat
    PROVE  k \div T \in Nat /\ k % T \in 0 .. T - 1 /\ k = T * (k \div T) + (k % T)
<1>1. k \div T \in Nat
  OBVIOUS
<1>2. k % T \in 0 .. T - 1
  OBVIOUS
<1>3. k = T * (k \div T) + (k % T)
  OBVIOUS
<1> QED
  BY <1>1, <1>2, <1>3

\* Its results are the only ones.
LEMMA DivModUnique ==
    ASSUME NEW T \in Nat \ {0}, NEW q \in Nat, NEW r \in 0 .. T - 1
    PROVE  (T * q + r) \div T = q /\ (T * q + r) % T = r
<1> DEFINE k == T * q + r
           d == k \div T
           e == k % T
<1>1. T * q \in Nat
  OBVIOUS
<1>2. k \in Nat
  BY <1>1
<1>3. d \in Nat /\ e \in 0 .. T - 1 /\ k = T * d + e
  <2> HIDE DEF k
  <2> QED BY <1>2, DivMod
<1> HIDE DEF d, e
<1>4. T * q + r = T * d + e
  BY <1>3
<1> HIDE DEF k
<1>5. ASSUME NEW a \in Nat, NEW b \in Nat, a < b PROVE T * a + T <= T * b
  <2>1. b = a + (b - a) /\ b - a \in Nat \ {0}
    BY <1>5
  <2> DEFINE c == b - a
  <2>2. T * b = T * a + T * c
    BY <2>1
  <2>3. T * c >= T
    <3> HIDE DEF c
    <3>1. c \in Nat \ {0}
      BY <2>1 DEF c
    <3>2. c - 1 \in Nat
      BY <3>1
    <3>3. T * c = T * (c - 1) + T
      BY <3>1
    <3>4. T * (c - 1) \in Nat
      BY <3>2
    <3> QED BY <3>3, <3>4
  <2>4. T * a \in Nat /\ T * b \in Nat /\ T * c \in Nat
    BY <2>1
  <2> HIDE DEF c
  <2> QED BY <2>2, <2>3, <2>4
<1>6. ~ (q < d)
  <2> SUFFICES ASSUME q < d PROVE FALSE
    OBVIOUS
  <2>1. T * q + T <= T * d
    BY <1>3, <1>5
  <2>2. T * d \in Nat
    BY <1>3
  <2> QED BY <1>1, <1>3, <1>4, <2>1, <2>2
<1>7. ~ (d < q)
  <2> SUFFICES ASSUME d < q PROVE FALSE
    OBVIOUS
  <2>1. T * d + T <= T * q
    BY <1>3, <1>5
  <2>2. T * d \in Nat
    BY <1>3
  <2> QED BY <1>1, <1>3, <1>4, <2>1, <2>2
<1>8. d = q
  BY <1>3, <1>6, <1>7
<1>9. e = r
  BY <1>1, <1>3, <1>4, <1>8
<1> QED
  BY <1>8, <1>9 DEF d, e, k

\* Where the row number k (from 0) goes, when segments from first on are filled.
Slot(k, first) == <<first + (k \div TargetRows), 1 + (k % TargetRows)>>

\* Slots are locations, and different for different rows.
LEMMA SlotsDiffer ==
    ASSUME NEW first \in Nat
    PROVE  /\ \A k \in Nat : Slot(k, first) \in Loc /\ Slot(k, first)[1] >= first
           /\ \A j, k \in Nat : Slot(j, first) = Slot(k, first) => j = k
<1>1. TargetRows \in Nat \ {0}
  BY SizesArePositive
<1>2. \A k \in Nat : /\ k \div TargetRows \in Nat /\ k % TargetRows \in 0 .. TargetRows - 1
                     /\ k = TargetRows * (k \div TargetRows) + (k % TargetRows)
  BY <1>1, DivMod
<1>3. ASSUME NEW k \in Nat PROVE Slot(k, first) \in Loc /\ Slot(k, first)[1] >= first
  <2>1. first + (k \div TargetRows) \in Nat /\ first + (k \div TargetRows) >= first
        /\ 1 + (k % TargetRows) \in Nat \ {0}
    BY <1>1, <1>2
  <2> QED
    BY <2>1 DEF Slot, Loc
<1>4. ASSUME NEW j \in Nat, NEW k \in Nat, Slot(j, first) = Slot(k, first) PROVE j = k
  <2>1. /\ first + (j \div TargetRows) = first + (k \div TargetRows)
        /\ 1 + (j % TargetRows) = 1 + (k % TargetRows)
    BY <1>4 DEF Slot
  <2>2. /\ j \div TargetRows \in Nat /\ k \div TargetRows \in Nat
        /\ j % TargetRows \in Nat /\ k % TargetRows \in Nat
    BY <1>1, <1>2
  <2>3. j \div TargetRows = k \div TargetRows /\ j % TargetRows = k % TargetRows
    BY <2>1, <2>2
  <2> QED
    BY <1>2, <2>3
<1> QED
  BY <1>3, <1>4

\* The first N slots, segment by segment: the ids are consecutive, and so are the
\* local ids in each.
LEMMA SlotsFill ==
    ASSUME NEW first \in Nat, NEW N \in Nat, NEW rows,
           DOMAIN rows = {Slot(k, first) : k \in 0 .. N - 1}
    PROVE  /\ Dense(rows)
           /\ \A s \in SegsOf(rows) : first .. s \subseteq SegsOf(rows)
<1> DEFINE T == TargetRows
<1>1. T \in Nat \ {0}
  BY SizesArePositive
<1> HIDE DEF T
<1>2. ASSUME NEW q \in Nat, NEW r \in 0 .. T - 1
      PROVE  /\ T * q + r \in Nat /\ Slot(T * q + r, first) = <<first + q, 1 + r>>
             /\ T * q + r < N => <<first + q, 1 + r>> \in DOMAIN rows
  <2>1. T * q \in Nat
    BY <1>1
  <2>2. T * q + r \in Nat
    BY <1>1, <2>1
  <2>3. (T * q + r) \div T = q /\ (T * q + r) % T = r
    BY <1>1, DivModUnique
  <2>4. Slot(T * q + r, first) = <<first + q, 1 + r>>
    BY <2>3 DEF Slot, T
  <2>5. T * q + r < N => T * q + r \in 0 .. N - 1
    BY <2>2
  <2> QED
    BY <2>2, <2>4, <2>5
<1>3. ASSUME NEW l \in DOMAIN rows
      PROVE  \E q \in Nat, r \in 0 .. T - 1 : l = <<first + q, 1 + r>> /\ T * q + r < N
  <2>1. PICK k \in 0 .. N - 1 : l = Slot(k, first)
    OBVIOUS
  <2>2. k \in Nat /\ k < N
    OBVIOUS
  <2>3. k \div T \in Nat /\ k % T \in 0 .. T - 1 /\ k = T * (k \div T) + (k % T)
    BY <1>1, <2>2, DivMod
  <2>4. l = <<first + (k \div T), 1 + (k % T)>>
    BY <2>1 DEF Slot, T
  <2> QED
    BY <2>2, <2>3, <2>4
<1>4. ASSUME NEW s \in Nat
      PROVE  \E n \in Nat : \A l \in Loc : l[1] = s => (l \in DOMAIN rows <=> l[2] <= n)
  <2>1. CASE s < first
    <3>1. \A l \in Loc : l[1] = s => (l \in DOMAIN rows <=> l[2] <= 0)
      <4> SUFFICES ASSUME NEW l \in Loc, l[1] = s PROVE l \notin DOMAIN rows /\ ~ (l[2] <= 0)
        OBVIOUS
      <4>1. l \notin DOMAIN rows
        BY <1>3, <2>1
      <4>2. l[2] \in Nat \ {0}
        BY DEF Loc
      <4> QED
        BY <4>1, <4>2
    <3> QED
      BY <3>1
  <2>2. CASE ~ (s < first)
    <3> DEFINE q == s - first
    <3>1. q \in Nat /\ s = first + q
      BY <2>2
    <3> HIDE DEF q
    <3>2. T * q \in Nat
      BY <1>1, <3>1
    <3>3. ASSUME NEW l \in Loc, l[1] = s
          PROVE  l \in DOMAIN rows <=> l[2] <= T /\ T * q + l[2] <= N
      <4>1. l[2] \in Nat \ {0} /\ l = <<first + q, l[2]>>
        BY <3>1, <3>3 DEF Loc
      <4>2. ASSUME l \in DOMAIN rows PROVE l[2] <= T /\ T * q + l[2] <= N
        <5>1. PICK a \in Nat, r \in 0 .. T - 1 : l = <<first + a, 1 + r>> /\ T * a + r < N
          BY <1>3, <4>2
        <5>2. first + a = first + q /\ l[2] = 1 + r
          BY <4>1, <5>1
        <5>3. a = q
          BY <3>1, <5>2
        <5> QED
          BY <1>1, <3>2, <5>1, <5>2, <5>3
      <4>3. ASSUME l[2] <= T, T * q + l[2] <= N PROVE l \in DOMAIN rows
        <5>1. l[2] - 1 \in 0 .. T - 1 /\ T * q + (l[2] - 1) < N /\ 1 + (l[2] - 1) = l[2]
          BY <1>1, <3>2, <4>1, <4>3
        <5>2. <<first + q, 1 + (l[2] - 1)>> \in DOMAIN rows
          BY <1>2, <3>1, <5>1
        <5> QED
          BY <4>1, <5>1, <5>2
      <4> QED
        BY <4>2, <4>3
    <3>4. CASE N <= T * q
      <4>1. \A l \in Loc : l[1] = s => (l \in DOMAIN rows <=> l[2] <= 0)
        <5> SUFFICES ASSUME NEW l \in Loc, l[1] = s PROVE l \in DOMAIN rows <=> l[2] <= 0
          OBVIOUS
        <5>1. l[2] \in Nat \ {0}
          BY DEF Loc
        <5> QED
          BY <3>2, <3>3, <3>4, <5>1
      <4> QED
        BY <4>1
    <3>5. CASE T * q < N
      <4> DEFINE n == IF N - T * q < T THEN N - T * q ELSE T
      <4>1. n \in Nat
        BY <1>1, <3>2, <3>5
      <4>2. \A i \in Nat : i <= n <=> i <= T /\ T * q + i <= N
        BY <1>1, <3>2, <3>5
      <4>3. \A l \in Loc : l[2] \in Nat
        BY DEF Loc
      <4> HIDE DEF n
      <4>4. \A l \in Loc : l[1] = s => (l \in DOMAIN rows <=> l[2] <= n)
        BY <3>3, <4>2, <4>3
      <4> QED
        BY <4>1, <4>4
    <3> QED
      BY <3>2, <3>4, <3>5
  <2> QED
    BY <2>1, <2>2
<1>5. ASSUME NEW s \in SegsOf(rows), NEW u \in first .. s PROVE u \in SegsOf(rows)
  <2>1. PICK l \in DOMAIN rows : s = l[1]
    BY DEF SegsOf
  <2>2. PICK q \in Nat, r \in 0 .. T - 1 : l = <<first + q, 1 + r>> /\ T * q + r < N
    BY <1>3
  <2> DEFINE a == u - first
  <2>3. a \in Nat /\ a <= q /\ u = first + a
    BY <2>1, <2>2
  <2> HIDE DEF a
  <2>4. T * a <= T * q /\ T * a \in Nat /\ T * q \in Nat
    <3>1. q - a \in Nat /\ q = a + (q - a)
      BY <2>3
    <3>2. T * q = T * a + T * (q - a)
      BY <1>1, <2>3, <3>1
    <3>3. T * (q - a) \in Nat /\ T * a \in Nat /\ T * q \in Nat
      BY <1>1, <2>3, <3>1
    <3> QED
      BY <3>2, <3>3
  <2>5. 0 \in 0 .. T - 1 /\ T * a + 0 < N
    BY <1>1, <2>2, <2>4
  <2>6. <<first + a, 1 + 0>> \in DOMAIN rows
    BY <1>2, <2>3, <2>5
  <2>7. <<first + a, 1 + 0>>[1] = u
    BY <2>3
  <2> QED
    BY <2>6, <2>7 DEF SegsOf
<1> QED
  BY <1>4, <1>5 DEF Dense

\* What compact() writes: each survivor's row once, ...
Copies(rows, from, live) ==
    \E g \in [DOMAIN rows -> live] :
        /\ \A x \in DOMAIN rows : rows[x] = from[g[x]]
        /\ \A x, y \in DOMAIN rows : g[x] = g[y] => x = y
        /\ \A l \in live : \E x \in DOMAIN rows : g[x] = l

\* ... into segments with the ids after the active one, and an index of them.
LEMMA PackedIs ==
    ASSUME NEW tb, WellFormed(tb), NEW segs
    PROVE  LET new == Packed(tb, segs) IN
           /\ Copies(new.rows, tb.rows, Survivors(tb, segs))
           /\ DOMAIN new.rows \subseteq Loc /\ Bounded(new) /\ Dense(new.rows)
           /\ \A s \in SegsOf(new.rows) : s \in Nat /\ s > tb.active
                                          /\ tb.active + 1 .. s \subseteq SegsOf(new.rows)
           /\ new.index \in [PK -> DOMAIN new.rows \cup {NoLoc}]
           /\ \A p \in PK : IF \E x \in DOMAIN new.rows : new.rows[x].pk = p
                            THEN /\ new.index[p] \in DOMAIN new.rows
                                 /\ new.rows[new.index[p]].pk = p
                            ELSE new.index[p] = NoLoc
<1> DEFINE live == Survivors(tb, segs)
           first == tb.active + 1
           N == Cardinality(live)
           place(l) == Placed(l, live, first)
           locs == {place(l) : l \in live}
           src == [x \in locs |-> CHOOSE l \in live : place(l) = x]
           new == Packed(tb, segs)
           of(p) == {x \in locs : new.rows[x].pk = p}
<1>1. live \in SUBSET Loc /\ live \in SUBSET (DOMAIN tb.rows) /\ tb.active \in Nat /\ first \in Nat
  BY DEF Survivors, Live, WellFormed, IsTable
<1>2. IsFiniteSet(live) /\ N \in Nat
  <2>1. IsFiniteSet(DOMAIN tb.rows)
    BY RowsFinite DEF WellFormed, IsTable
  <2> HIDE DEF live
  <2> QED
    BY <1>1, <2>1, FS_Subset, FS_CardinalityType
<1> HIDE DEF live, first
<1>3. \A l \in live : place(l) = Slot(Rank(l, live) - 1, first) /\ Rank(l, live) - 1 \in 0 .. N - 1
                      /\ Rank(l, live) - 1 \in Nat
  <2> SUFFICES ASSUME NEW l \in live
               PROVE  place(l) = Slot(Rank(l, live) - 1, first) /\ Rank(l, live) - 1 \in 0 .. N - 1
                      /\ Rank(l, live) - 1 \in Nat
    OBVIOUS
  <2>1. Rank(l, live) \in 1 .. N
    BY <1>1, <1>2, RankRange
  <2>2. place(l) = Slot(Rank(l, live) - 1, first)
    BY DEF Placed, Slot
  <2> HIDE DEF place, N
  <2> QED
    BY <1>2, <2>1, <2>2
<1>4. \A k \in 0 .. N - 1 : \E l \in live : place(l) = Slot(k, first)
  <2> SUFFICES ASSUME NEW k \in 0 .. N - 1 PROVE \E l \in live : place(l) = Slot(k, first)
    OBVIOUS
  <2>1. k + 1 \in 1 .. N /\ (k + 1) - 1 = k
    BY <1>2
  <2>2. PICK l \in live : Rank(l, live) = k + 1
    BY <1>1, <1>2, <2>1, RankOnto
  <2> HIDE DEF place, N
  <2> QED
    BY <1>3, <2>1, <2>2
<1>5. locs = {Slot(k, first) : k \in 0 .. N - 1}
  <2> HIDE DEF place, N
  <2> QED
    BY <1>3, <1>4
<1>6. \A l, m \in live : place(l) = place(m) => l = m
  <2> SUFFICES ASSUME NEW l \in live, NEW m \in live, place(l) = place(m) PROVE l = m
    OBVIOUS
  <2>1. Rank(l, live) - 1 = Rank(m, live) - 1
    <3> HIDE DEF place, N
    <3> QED BY <1>1, <1>3, SlotsDiffer
  <2>2. Rank(l, live) \in Nat /\ Rank(m, live) \in Nat
    <3>1. Rank(l, live) \in 1 .. N /\ Rank(m, live) \in 1 .. N
      BY <1>1, <1>2, RankRange
    <3> QED BY <1>2, <3>1
  <2>3. Rank(l, live) = Rank(m, live)
    BY <2>1, <2>2
  <2> QED
    BY <1>1, <1>2, <2>3, RankOnto
<1>7. /\ src \in [locs -> live]
      /\ \A x \in locs : place(src[x]) = x
      /\ \A l \in live : place(l) \in locs /\ src[place(l)] = l
  <2> HIDE DEF place, N
  <2>1. \A x \in locs : \E l \in live : place(l) = x
    OBVIOUS
  <2>2. \A x \in locs : src[x] \in live /\ place(src[x]) = x
    BY <2>1
  <2>3. ASSUME NEW l \in live PROVE place(l) \in locs /\ src[place(l)] = l
    BY <1>6, <2>2
  <2> QED
    BY <2>2, <2>3
<1>8. /\ new.rows = [x \in locs |-> tb.rows[src[x]]]
      /\ new.index = [p \in PK |-> IF of(p) = {} THEN NoLoc
                                   ELSE CHOOSE x \in of(p) : \A y \in of(p) \ {x} : Newer(x, y)]
  <2>1. \A x \in locs : src[x] = CHOOSE l \in live : place(l) = x
    OBVIOUS
  <2>2. new.rows = [x \in locs |-> tb.rows[CHOOSE l \in live : place(l) = x]]
    BY DEF Packed, live, first
  <2>3. new.rows = [x \in locs |-> tb.rows[src[x]]]
    BY <2>1, <2>2
  <2>4. new.index = [p \in PK |-> IF of(p) = {} THEN NoLoc
                                   ELSE CHOOSE x \in of(p) : \A y \in of(p) \ {x} : Newer(x, y)]
    BY DEF Packed, live, first
  <2> QED
    BY <2>3, <2>4
<1> HIDE DEF new, src, locs, place, N, of
<1>9. DOMAIN new.rows = locs
  BY <1>8
<1>10. Copies(new.rows, tb.rows, live)
  <2>1. src \in [DOMAIN new.rows -> live] /\ \A x \in DOMAIN new.rows : new.rows[x] = tb.rows[src[x]]
    BY <1>7, <1>8, <1>9
  <2>2. \A x, y \in DOMAIN new.rows : src[x] = src[y] => x = y
    <3> SUFFICES ASSUME NEW x \in locs, NEW y \in locs, src[x] = src[y] PROVE x = y
      BY <1>9
    <3>1. place(src[x]) = x /\ place(src[y]) = y
      BY <1>7
    <3> QED BY <3>1
  <2>3. \A l \in live : \E x \in DOMAIN new.rows : src[x] = l
    BY <1>7, <1>9
  <2> QED
    BY <2>1, <2>2, <2>3 DEF Copies
<1>11. \A x \in locs : x \in Loc /\ x[1] >= first
  <2>1. \A k \in 0 .. N - 1 : k \in Nat
    BY <1>2
  <2> QED
    BY <1>1, <1>5, <2>1, SlotsDiffer
<1>12. Dense(new.rows) /\ \A s \in SegsOf(new.rows) : first .. s \subseteq SegsOf(new.rows)
  BY <1>1, <1>2, <1>5, <1>9, SlotsFill
<1>13. Bounded(new)
  <2>1. \E B \in Nat : \A x \in locs : x[1] <= B /\ x[2] <= B
    <3>1. \A k \in 0 .. N - 1 : Slot(k, first)[1] <= first + N /\ Slot(k, first)[2] <= TargetRows
      <4> SUFFICES ASSUME NEW k \in 0 .. N - 1
                   PROVE  Slot(k, first)[1] <= first + N /\ Slot(k, first)[2] <= TargetRows
        OBVIOUS
      <4>1. TargetRows \in Nat \ {0} /\ k \in Nat /\ k < N
        BY <1>2, SizesArePositive
      <4>2. k \div TargetRows \in Nat /\ k % TargetRows \in 0 .. TargetRows - 1
            /\ k = TargetRows * (k \div TargetRows) + (k % TargetRows)
        BY <4>1, DivMod
      <4>3. k \div TargetRows <= k
        BY <4>1
      <4> QED BY <1>1, <1>2, <4>1, <4>2, <4>3 DEF Slot
    <3>2. first + N + TargetRows \in Nat /\ first + N <= first + N + TargetRows
          /\ TargetRows <= first + N + TargetRows
      BY <1>1, <1>2, SizesArePositive
    <3>3. \A x \in locs : x[1] \in Nat /\ x[2] \in Nat /\ x[1] <= first + N /\ x[2] <= TargetRows
      BY <1>5, <1>11, <3>1 DEF Loc
    <3>4. \A x \in locs : x[1] <= first + N + TargetRows /\ x[2] <= first + N + TargetRows
      BY <1>1, <1>2, <3>2, <3>3, SizesArePositive
    <3> QED BY <3>2, <3>4
  <2> QED
    BY <1>9, <2>1 DEF Bounded
<1>14. \A s \in SegsOf(new.rows) : s \in Nat /\ s > tb.active
  <2>1. \A x \in locs : x[1] \in Nat /\ x[1] > tb.active
    BY <1>1, <1>11 DEF Loc, first
  <2> QED
    BY <1>9, <2>1 DEF SegsOf
<1>15. /\ new.index \in [PK -> DOMAIN new.rows \cup {NoLoc}]
       /\ \A p \in PK : IF \E x \in DOMAIN new.rows : new.rows[x].pk = p
                        THEN new.index[p] \in DOMAIN new.rows /\ new.rows[new.index[p]].pk = p
                        ELSE new.index[p] = NoLoc
  <2>1. ASSUME NEW p \in PK
        PROVE  /\ IF \E x \in locs : new.rows[x].pk = p
                  THEN new.index[p] \in locs /\ new.rows[new.index[p]].pk = p
                  ELSE new.index[p] = NoLoc
               /\ new.index[p] \in locs \cup {NoLoc}
    <3>1. new.index[p] = IF of(p) = {} THEN NoLoc
                         ELSE CHOOSE x \in of(p) : \A y \in of(p) \ {x} : Newer(x, y)
      BY <1>8
    <3>2. of(p) = {x \in locs : new.rows[x].pk = p}
      BY DEF of
    <3>3. CASE of(p) # {}
      <4>1. PICK B \in Nat : \A x \in locs : x[1] <= B /\ x[2] <= B
        BY <1>9, <1>13 DEF Bounded
      <4>2. of(p) \in SUBSET Loc /\ \A x \in of(p) : x[1] <= B /\ x[2] <= B
        BY <1>11, <3>2, <4>1
      <4>3. \E x \in of(p) : \A y \in of(p) \ {x} : Newer(x, y)
        BY <3>3, <4>2, NewestExists
      <4>4. new.index[p] \in of(p)
        BY <3>1, <3>3, <4>3
      <4> QED BY <3>2, <4>4
    <3>4. CASE of(p) = {}
      BY <3>1, <3>2, <3>4
    <3> QED BY <3>3, <3>4
  <2>2. new.index = [p \in PK |-> new.index[p]]
    BY <1>8
  <2> QED
    BY <1>9, <2>1, <2>2
<1>16. tb.active + 1 = first
  BY DEF first
<1> QED
  BY <1>9, <1>10, <1>11, <1>12, <1>13, <1>14, <1>15, <1>16 DEF new, live

-----------------------------------------------------------------------------
(* Directories and segments: what the operators on them return *)

\* Rows of the declared kind, at bounded locations.
RowsOK(rows) ==
    /\ DOMAIN rows \subseteq Loc
    /\ \A l \in DOMAIN rows : rows[l] \in Row
    /\ \E B \in Nat : \A l \in DOMAIN rows : l[1] <= B /\ l[2] <= B

\* The files of a table, of the declared kinds.
DiskOK(d) ==
    /\ DOMAIN d = {"dirs", "rows", "dead", "segs", "active"}
    /\ d.dirs \subseteq Nat /\ DOMAIN d.segs \subseteq Nat /\ d.active \in Nat
    /\ RowsOK(d.rows) /\ d.dead \subseteq Loc

\* The parts of a table.
LEMMA TableParts ==
    ASSUME NEW tb
    PROVE  WellFormed(tb) <=>
             /\ DOMAIN tb = {"active", "count", "flushed", "rows", "deleted", "index", "wal"}
             /\ tb.active \in Nat /\ tb.count \in Nat /\ tb.flushed \in Nat
             /\ RowsOK(tb.rows)
             /\ tb.deleted \subseteq Loc /\ tb.index \in Index /\ tb.wal \in Seq(WalOp)
<1> QED
  BY DEF WellFormed, IsTable, Bounded, RowsOK

\* Rows put together from two places are rows.
LEMMA OverIs ==
    ASSUME NEW new, NEW old
    PROVE  /\ DOMAIN Over(new, old) = DOMAIN new \cup DOMAIN old
           /\ \A l \in DOMAIN new : Over(new, old)[l] = new[l]
           /\ \A l \in DOMAIN old \ DOMAIN new : Over(new, old)[l] = old[l]
<1> QED
  BY DEF Over

\* Laying rows over rows keeps them rows.
LEMMA OverOK ==
    ASSUME NEW new, NEW old, RowsOK(new), RowsOK(old)
    PROVE  RowsOK(Over(new, old))
<1> DEFINE r == Over(new, old)
<1>1. /\ DOMAIN r = DOMAIN new \cup DOMAIN old
      /\ \A l \in DOMAIN new : r[l] = new[l]
      /\ \A l \in DOMAIN old \ DOMAIN new : r[l] = old[l]
  BY OverIs
<1> HIDE DEF r
<1>2. DOMAIN r \subseteq Loc /\ \A l \in DOMAIN r : r[l] \in Row
  BY <1>1 DEF RowsOK
<1>3. PICK A \in Nat : \A l \in DOMAIN new : l[1] <= A /\ l[2] <= A
  BY DEF RowsOK
<1>4. PICK B \in Nat : \A l \in DOMAIN old : l[1] <= B /\ l[2] <= B
  BY DEF RowsOK
<1>5. ASSUME NEW l \in DOMAIN r PROVE l[1] <= A + B /\ l[2] <= A + B
  <2>1. l[1] \in Nat /\ l[2] \in Nat
    BY <1>2 DEF Loc
  <2>2. (l[1] <= A /\ l[2] <= A) \/ (l[1] <= B /\ l[2] <= B)
    <3>1. CASE l \in DOMAIN new
      BY <1>3, <3>1
    <3>2. CASE l \in DOMAIN old
      BY <1>4, <3>2
    <3> QED
      BY <1>1, <3>1, <3>2
  <2> QED
    BY <2>1, <2>2
<1>6. A + B \in Nat
  OBVIOUS
<1>7. RowsOK(r)
  BY <1>2, <1>5, <1>6 DEF RowsOK
<1> QED
  BY <1>7 DEF r

\* So is a part of them.
LEMMA WithinIs ==
    ASSUME NEW rows, NEW segs
    PROVE  /\ DOMAIN Within(rows, segs) = {l \in DOMAIN rows : l[1] \in segs}
           /\ \A l \in DOMAIN Within(rows, segs) : Within(rows, segs)[l] = rows[l]
<1> QED
  BY DEF Within

\* So does taking a part of them ...
LEMMA PartOK ==
    ASSUME NEW rows, RowsOK(rows), NEW part, DOMAIN part \subseteq DOMAIN rows,
           \A l \in DOMAIN part : part[l] = rows[l]
    PROVE  RowsOK(part)
<1>1. PICK B \in Nat : \A l \in DOMAIN rows : l[1] <= B /\ l[2] <= B
  BY DEF RowsOK
<1>2. \A l \in DOMAIN part : l[1] <= B /\ l[2] <= B
  BY <1>1
<1>3. DOMAIN part \subseteq Loc /\ \A l \in DOMAIN part : part[l] \in Row
  BY DEF RowsOK
<1> QED
  BY <1>2, <1>3 DEF RowsOK

\* ... and the part that lies in some segments.
LEMMA WithinOK ==
    ASSUME NEW rows, RowsOK(rows), NEW segs
    PROVE  RowsOK(Within(rows, segs))
<1> DEFINE w == Within(rows, segs)
<1>1. DOMAIN w \subseteq DOMAIN rows /\ \A l \in DOMAIN w : w[l] = rows[l]
  BY DEF Within
<1> HIDE DEF w
<1>2. RowsOK(w)
  BY <1>1, PartOK
<1> QED
  BY <1>2 DEF w

\* A segment has a number of rows.
LEMMA CountOK ==
    ASSUME NEW rows, RowsOK(rows), NEW s
    PROVE  CountIn(rows, s) \in Nat /\ IsFiniteSet(SegsOf(rows)) /\ SegsOf(rows) \subseteq Nat
<1> DEFINE d == [rows |-> rows]
<1>1. d.rows = rows
  OBVIOUS
<1>2. DOMAIN d.rows \subseteq Loc /\ Bounded(d)
  BY <1>1 DEF RowsOK, Bounded
<1> HIDE DEF d
<1>3. IsFiniteSet(DOMAIN rows) /\ CountIn(rows, s) \in Nat
  BY <1>1, <1>2, RowsFinite
<1>4. IsFiniteSet(SegsOf(rows))
  <2>1. PICK B \in Nat : \A l \in DOMAIN rows : l[1] <= B /\ l[2] <= B
    BY DEF RowsOK
  <2>2. SegsOf(rows) \subseteq 0 .. B
    BY <2>1 DEF SegsOf, RowsOK, Loc
  <2>3. IsFiniteSet(0 .. B)
    BY FS_Interval
  <2> QED
    BY <2>2, <2>3, FS_Subset
<1>5. SegsOf(rows) \subseteq Nat
  BY DEF SegsOf, RowsOK, Loc
<1> QED
  BY <1>3, <1>4, <1>5

\* A flush.
LEMMA FlushedIs ==
    ASSUME NEW d, DOMAIN d = {"dirs", "rows", "dead", "segs", "active"}, NEW tb
    PROVE  LET new == Flushed(d, tb) IN
           /\ DOMAIN new = {"dirs", "rows", "dead", "segs", "active"}
           /\ new.dirs = d.dirs /\ new.segs = d.segs /\ new.active = d.active
           /\ new.rows = Over(tb.rows, d.rows) /\ new.dead = d.dead \cup tb.deleted
<1> QED
  BY DEF Flushed

\* A flush of a well-formed table leaves well-formed directories.
LEMMA FlushedOK ==
    ASSUME NEW d, DiskOK(d), NEW tb, WellFormed(tb)
    PROVE  DiskOK(Flushed(d, tb))
<1> DEFINE new == Flushed(d, tb)
<1>1. /\ DOMAIN new = {"dirs", "rows", "dead", "segs", "active"}
      /\ new.dirs = d.dirs /\ new.segs = d.segs /\ new.active = d.active
      /\ new.rows = Over(tb.rows, d.rows) /\ new.dead = d.dead \cup tb.deleted
  BY FlushedIs DEF DiskOK
<1> HIDE DEF new
<1>2. RowsOK(new.rows)
  BY <1>1, TableParts, OverOK DEF DiskOK
<1>3. new.dead \subseteq Loc
  BY <1>1, TableParts DEF DiskOK
<1>4. DiskOK(new)
  BY <1>1, <1>2, <1>3 DEF DiskOK
<1> QED
  BY <1>4 DEF new

\* The tombstones that a table can hold.
LEMMA MarkedIs ==
    ASSUME NEW tb, WellFormed(tb), NEW segs
    PROVE  LET new == Marked(tb, segs) IN
           /\ WellFormed(new)
           /\ new.active = tb.active /\ new.count = tb.count /\ new.flushed = tb.flushed
           /\ new.rows = tb.rows /\ new.index = tb.index /\ new.wal = tb.wal
           /\ new.deleted = {l \in tb.deleted : l[1] \in segs \cup {tb.active}}
<1> DEFINE new == Marked(tb, segs)
<1>1. /\ DOMAIN new = DOMAIN tb
      /\ new.active = tb.active /\ new.count = tb.count /\ new.flushed = tb.flushed
      /\ new.rows = tb.rows /\ new.index = tb.index /\ new.wal = tb.wal
      /\ new.deleted = {l \in tb.deleted : l[1] \in segs \cup {tb.active}}
  BY TableParts DEF Marked
<1> HIDE DEF new
<1>2. WellFormed(new)
  BY <1>1, TableParts
<1>3. /\ WellFormed(new)
      /\ new.active = tb.active /\ new.count = tb.count /\ new.flushed = tb.flushed
      /\ new.rows = tb.rows /\ new.index = tb.index /\ new.wal = tb.wal
      /\ new.deleted = {l \in tb.deleted : l[1] \in segs \cup {tb.active}}
  BY <1>1, <1>2
<1> QED
  BY <1>3 DEF new

\* ensure_active_segment.
LEMMA ActivateIs ==
    ASSUME NEW tb, WellFormed(tb), NEW d, DiskOK(d)
    PROVE  LET new == Activate(tb, d) IN
           /\ WellFormed(new)
           /\ new.active = d.active /\ new.count = CountIn(d.rows, d.active)
           /\ new.rows = Over(tb.rows, Within(d.rows, {d.active}))
           /\ new.deleted = tb.deleted \cup {l \in d.dead : l[1] = d.active}
           /\ new.index = tb.index /\ new.wal = tb.wal
<1> DEFINE new == Activate(tb, d)
<1>1. /\ DOMAIN new = DOMAIN tb
      /\ new.active = d.active /\ new.count = CountIn(d.rows, d.active)
      /\ new.flushed = CountIn(d.rows, d.active)
      /\ new.rows = Over(tb.rows, Within(d.rows, {d.active}))
      /\ new.deleted = tb.deleted \cup {l \in d.dead : l[1] = d.active}
      /\ new.index = tb.index /\ new.wal = tb.wal
  BY TableParts DEF Activate
<1> HIDE DEF new
<1>2. RowsOK(new.rows)
  BY <1>1, TableParts, WithinOK, OverOK DEF DiskOK
<1>3. new.count \in Nat /\ new.flushed \in Nat
  BY <1>1, CountOK DEF DiskOK
<1>4. new.deleted \subseteq Loc /\ new.active \in Nat
  BY <1>1, TableParts DEF DiskOK
<1>5. WellFormed(new)
  BY <1>1, <1>2, <1>3, <1>4, TableParts
<1>6. /\ WellFormed(new)
      /\ new.active = d.active /\ new.count = CountIn(d.rows, d.active)
      /\ new.rows = Over(tb.rows, Within(d.rows, {d.active}))
      /\ new.deleted = tb.deleted \cup {l \in d.dead : l[1] = d.active}
      /\ new.index = tb.index /\ new.wal = tb.wal
  BY <1>1, <1>5
<1> QED
  BY <1>6 DEF new

\* The manifest with more segments, or fewer.
LEMMA ListingIs ==
    ASSUME NEW m, NEW tb, NEW segs
    PROVE  /\ DOMAIN Listing(m, tb, segs) = DOMAIN m \cup segs
           /\ \A s \in segs : Listing(m, tb, segs)[s] = CountIn(tb.rows, s)
           /\ \A s \in DOMAIN m \ segs : Listing(m, tb, segs)[s] = m[s]
           /\ DOMAIN Unlisting(m, segs) = DOMAIN m \ segs
           /\ \A s \in DOMAIN m \ segs : Unlisting(m, segs)[s] = m[s]
<1> DEFINE c == [s \in segs |-> CountIn(tb.rows, s)]
<1>1. DOMAIN c = segs /\ \A s \in segs : c[s] = CountIn(tb.rows, s)
  OBVIOUS
<1>2. Listing(m, tb, segs) = Over(c, m)
  BY DEF Listing
<1> HIDE DEF c
<1>3. /\ DOMAIN Over(c, m) = segs \cup DOMAIN m
      /\ \A s \in segs : Over(c, m)[s] = CountIn(tb.rows, s)
      /\ \A s \in DOMAIN m \ segs : Over(c, m)[s] = m[s]
  BY <1>1, OverIs
<1>4. /\ DOMAIN Unlisting(m, segs) = DOMAIN m \ segs
      /\ \A s \in DOMAIN m \ segs : Unlisting(m, segs)[s] = m[s]
  BY DEF Unlisting
<1> QED
  BY <1>2, <1>3, <1>4

\* flush_active_segment of a segment with rows.
LEMMA SealedIs ==
    ASSUME NEW d, DiskOK(d), NEW tb, WellFormed(tb), NEW m, DOMAIN m \subseteq Nat
    PROVE  LET new == Sealed(d, tb, m) IN
           /\ DiskOK(new)
           /\ new.dirs = d.dirs \cup {tb.active, tb.active + 1}
           /\ new.rows = Over(tb.rows, d.rows) /\ new.dead = d.dead \cup tb.deleted
           /\ new.segs = Listing(m, tb, {tb.active}) /\ new.active = tb.active + 1
<1> DEFINE new == Sealed(d, tb, m)
           f == Flushed(d, tb)
<1>1. /\ DOMAIN f = {"dirs", "rows", "dead", "segs", "active"}
      /\ f.dirs = d.dirs /\ f.segs = d.segs /\ f.active = d.active
      /\ f.rows = Over(tb.rows, d.rows) /\ f.dead = d.dead \cup tb.deleted
  BY FlushedIs DEF DiskOK
<1>2. DiskOK(f)
  BY FlushedOK
<1>3. new = [f EXCEPT !.segs = Listing(m, tb, {tb.active}), !.active = tb.active + 1,
                      !.dirs = @ \cup {tb.active, tb.active + 1}]
  BY DEF Sealed
<1> HIDE DEF f, new
<1>4. /\ DOMAIN new = {"dirs", "rows", "dead", "segs", "active"}
      /\ new.dirs = f.dirs \cup {tb.active, tb.active + 1} /\ new.rows = f.rows /\ new.dead = f.dead
      /\ new.segs = Listing(m, tb, {tb.active}) /\ new.active = tb.active + 1
  BY <1>1, <1>3
<1>5. tb.active \in Nat
  BY TableParts
<1>6. DOMAIN new.segs \subseteq Nat
  <2>1. DOMAIN Listing(m, tb, {tb.active}) = DOMAIN m \cup {tb.active}
    BY DEF Listing, Over
  <2> QED
    BY <1>4, <1>5, <2>1
<1>7. DiskOK(new)
  <2>1. new.dirs \subseteq Nat /\ new.active \in Nat
    BY <1>2, <1>4, <1>5 DEF DiskOK
  <2>2. RowsOK(new.rows) /\ new.dead \subseteq Loc
    BY <1>2, <1>4 DEF DiskOK
  <2> QED
    BY <1>4, <1>6, <2>1, <2>2 DEF DiskOK
<1>8. /\ DiskOK(new)
      /\ new.dirs = d.dirs \cup {tb.active, tb.active + 1}
      /\ new.rows = Over(tb.rows, d.rows) /\ new.dead = d.dead \cup tb.deleted
      /\ new.segs = Listing(m, tb, {tb.active}) /\ new.active = tb.active + 1
  BY <1>1, <1>4, <1>7
<1> QED
  BY <1>8 DEF new

\* The removal of directories.
LEMMA WithoutDirsIs ==
    ASSUME NEW d, DiskOK(d), NEW segs
    PROVE  LET new == WithoutDirs(d, segs) IN
           /\ DiskOK(new)
           /\ new.dirs = d.dirs \ segs /\ new.segs = d.segs /\ new.active = d.active
           /\ new.rows = Within(d.rows, d.dirs \ segs)
           /\ new.dead = {l \in d.dead : l[1] \notin segs}
<1> DEFINE new == WithoutDirs(d, segs)
<1>1. /\ DOMAIN new = {"dirs", "rows", "dead", "segs", "active"}
      /\ new.dirs = d.dirs \ segs /\ new.segs = d.segs /\ new.active = d.active
      /\ new.rows = Within(d.rows, d.dirs \ segs)
      /\ new.dead = {l \in d.dead : l[1] \notin segs}
  BY DEF WithoutDirs, DiskOK
<1> HIDE DEF new
<1>2. RowsOK(new.rows)
  BY <1>1, WithinOK DEF DiskOK
<1>3. DiskOK(new)
  BY <1>1, <1>2 DEF DiskOK
<1>4. /\ DiskOK(new)
      /\ new.dirs = d.dirs \ segs /\ new.segs = d.segs /\ new.active = d.active
      /\ new.rows = Within(d.rows, d.dirs \ segs)
      /\ new.dead = {l \in d.dead : l[1] \notin segs}
  BY <1>1, <1>3
<1> QED
  BY <1>4 DEF new

-----------------------------------------------------------------------------
(* The loops of recovery and of delete_all_rows *)

\* Induction up to a bound, for a set.
LEMMA UpTo ==
    ASSUME NEW N \in Nat, NEW Good, 0 \in Good,
           \A k \in 1 .. N : k - 1 \in Good => k \in Good
    PROVE  \A k \in 0 .. N : k \in Good
<1> DEFINE Bad == {k \in 0 .. N : k \notin Good}
<1>1. SUFFICES ASSUME Bad # {} PROVE FALSE
  OBVIOUS
<1>2. PICK k \in Bad : \A m \in Bad : k <= m
  <2>1. Bad \in SUBSET Nat
    OBVIOUS
  <2> HIDE DEF Bad
  <2> QED
    BY <1>1, <2>1, LeastNat
<1>3. k \in 1 .. N /\ k - 1 \in 0 .. N /\ k \notin Good
  OBVIOUS
<1>4. k - 1 \in Good
  BY <1>2, <1>3
<1> QED
  BY <1>3, <1>4

\* replay_wal passes through one table after every entry.
LEMMA ReplaySteps ==
    ASSUME NEW tb, NEW log, Len(log) \in Nat
    PROVE  \E f : /\ f[0] = tb /\ ReplayWal(tb, log) = f[Len(log)]
                  /\ \A k \in 1 .. Len(log) : f[k] = Replay(f[k - 1], log[k])
<1> DEFINE f == CHOOSE f : f = [n \in 0 .. Len(log) |-> IF n = 0 THEN tb ELSE Replay(f[n - 1], log[n])]
<1>1. ReplayWal(tb, log) = f[Len(log)]
  BY DEF ReplayWal
<1>2. \E g : g = [n \in 0 .. Len(log) |-> IF n = 0 THEN tb ELSE Replay(g[n - 1], log[n])]
  <2>1. \E g : Loop(g, Len(log), tb, log)
    BY LoopRuns
  <2> QED
    BY <2>1 DEF Loop
<1>3. f = [n \in 0 .. Len(log) |-> IF n = 0 THEN tb ELSE Replay(f[n - 1], log[n])]
  BY <1>2, Zenon
<1> HIDE DEF f
<1>4. f[0] = tb
  BY <1>3
<1>5. ASSUME NEW k \in 1 .. Len(log) PROVE f[k] = Replay(f[k - 1], log[k])
  <2>1. k \in 0 .. Len(log) /\ k # 0
    OBVIOUS
  <2> QED
    BY <1>3, <2>1
<1> QED
  BY <1>1, <1>4, <1>5

\* The table that replay_wal returns.
LEMMA ReplayWalGrown ==
    ASSUME NEW tb, WellFormed(tb), NEW log \in Seq(WalOp)
    PROVE  WellFormed(ReplayWal(tb, log))
<1>1. Len(log) \in Nat /\ \A k \in 1 .. Len(log) : log[k] \in WalOp
  OBVIOUS
<1>2. PICK f : /\ f[0] = tb /\ ReplayWal(tb, log) = f[Len(log)]
               /\ \A k \in 1 .. Len(log) : f[k] = Replay(f[k - 1], log[k])
  BY <1>1, ReplaySteps
<1> DEFINE Good == {k \in Nat : WellFormed(f[k])}
<1>3. 0 \in Good
  BY <1>2
<1>4. ASSUME NEW k \in 1 .. Len(log), k - 1 \in Good PROVE k \in Good
  <2>1. WellFormed(f[k - 1])
    BY <1>4
  <2>2. WellFormed(Replay(f[k - 1], log[k]))
    BY <1>1, <2>1, ReplayGrown DEF Grown
  <2> QED
    BY <1>2, <2>2
<1>5. Len(log) \in Good
  <2> HIDE DEF Good
  <2>1. \A k \in 0 .. Len(log) : k \in Good
    BY <1>1, <1>3, <1>4, UpTo
  <2> QED
    BY <1>1, <2>1
<1> QED
  BY <1>2, <1>5

\* The loop of delete_all_rows: f gives the table after each of the first k rows.
DeleteLoop(f, k, tb) ==
    f = [n \in 0 .. k |-> IF n = 0 THEN tb ELSE Delete(f[n - 1], KeyAt(tb, n))]

\* It has a result, ...
LEMMA DeleteLoopRuns ==
    ASSUME NEW tb, NEW N \in Nat
    PROVE  \E f : DeleteLoop(f, N, tb)
<1> DEFINE Good == {k \in Nat : \E f : DeleteLoop(f, k, tb)}
<1>1. 0 \in Good
  <2> DEFINE f == [n \in 0 .. 0 |-> tb]
  <2>1. f = [n \in 0 .. 0 |-> IF n = 0 THEN tb ELSE Delete(f[n - 1], KeyAt(tb, n))]
    OBVIOUS
  <2> QED
    BY <2>1 DEF DeleteLoop
<1>2. ASSUME NEW k \in 1 .. N, k - 1 \in Good PROVE k \in Good
  <2>1. PICK f : DeleteLoop(f, k - 1, tb)
    BY <1>2
  <2> DEFINE g == [n \in 0 .. k |-> IF n = k THEN Delete(f[k - 1], KeyAt(tb, k)) ELSE f[n]]
  <2>2. ASSUME NEW n \in 0 .. k
        PROVE  g[n] = IF n = 0 THEN tb ELSE Delete(g[n - 1], KeyAt(tb, n))
    <3>1. CASE n = k
      BY <3>1
    <3>2. CASE n # k
      <4>1. n \in 0 .. k - 1 /\ (n # 0 => n - 1 \in 0 .. k - 1 /\ n - 1 # k)
        BY <3>2
      <4>2. g[n] = f[n] /\ (n # 0 => g[n - 1] = f[n - 1])
        BY <3>2, <4>1
      <4>3. f[n] = IF n = 0 THEN tb ELSE Delete(f[n - 1], KeyAt(tb, n))
        BY <2>1, <4>1 DEF DeleteLoop
      <4> HIDE DEF g
      <4> QED
        BY <4>2, <4>3
    <3> QED
      BY <3>1, <3>2
  <2>3. g = [n \in 0 .. k |-> g[n]]
    OBVIOUS
  <2> HIDE DEF g
  <2>4. DeleteLoop(g, k, tb)
    BY <2>2, <2>3 DEF DeleteLoop
  <2> QED
    BY <2>4
<1>3. N \in Good
  <2> HIDE DEF Good
  <2>1. \A k \in 0 .. N : k \in Good
    BY <1>1, <1>2, UpTo
  <2> QED
    BY <2>1
<1> QED
  BY <1>3

\* ... reached by deleting the keys of the live rows one by one.
LEMMA DeleteSteps ==
    ASSUME NEW tb, WellFormed(tb)
    PROVE  LET N == Cardinality(Live(tb)) IN
           /\ N \in Nat
           /\ \A k \in 1 .. N : KeyAt(tb, k) \in PK
           /\ \A l \in Live(tb) : \E k \in 1 .. N : KeyAt(tb, k) = tb.rows[l].pk
           /\ \E f : /\ f[0] = tb /\ DeleteLive(tb) = f[N]
                     /\ \A k \in 1 .. N : f[k] = Delete(f[k - 1], KeyAt(tb, k))
<1> DEFINE N == Cardinality(Live(tb))
<1>1. Live(tb) \in SUBSET Loc /\ IsFiniteSet(Live(tb))
  <2>1. Live(tb) \subseteq DOMAIN tb.rows /\ Live(tb) \in SUBSET Loc
    BY DEF WellFormed, IsTable, Live
  <2>2. IsFiniteSet(DOMAIN tb.rows)
    BY RowsFinite DEF WellFormed, IsTable
  <2> QED
    BY <2>1, <2>2, FS_Subset
<1>2. N \in Nat
  BY <1>1, FS_CardinalityType
<1>3. ASSUME NEW k \in 1 .. N PROVE KeyAt(tb, k) \in PK
  <2>1. \E l \in Live(tb) : Rank(l, Live(tb)) = k
    BY <1>1, RankOnto
  <2> DEFINE c == CHOOSE l \in Live(tb) : Rank(l, Live(tb)) = k
  <2>2. c \in Live(tb)
    BY <2>1
  <2>3. KeyAt(tb, k) = tb.rows[c].pk
    BY DEF KeyAt
  <2> HIDE DEF c
  <2> QED
    BY <2>2, <2>3 DEF WellFormed, IsTable, Live, Row
<1>4. ASSUME NEW l \in Live(tb) PROVE \E k \in 1 .. N : KeyAt(tb, k) = tb.rows[l].pk
  <2> DEFINE k == Rank(l, Live(tb))
             c == CHOOSE m \in Live(tb) : Rank(m, Live(tb)) = k
  <2>1. k \in 1 .. N
    BY <1>1, RankRange
  <2>2. c \in Live(tb) /\ Rank(c, Live(tb)) = k
    OBVIOUS
  <2>3. c = l
    <3> HIDE DEF c
    <3> QED
      BY <1>1, <2>2, RankOnto
  <2>4. KeyAt(tb, k) = tb.rows[c].pk
    BY DEF KeyAt
  <2> QED
    BY <2>1, <2>3, <2>4
<1> DEFINE f == CHOOSE f : f = [n \in 0 .. N |-> IF n = 0 THEN tb ELSE Delete(f[n - 1], KeyAt(tb, n))]
<1>5. DeleteLive(tb) = f[N]
  BY DEF DeleteLive
<1> HIDE DEF N
<1>6. \E g : g = [n \in 0 .. N |-> IF n = 0 THEN tb ELSE Delete(g[n - 1], KeyAt(tb, n))]
  BY <1>2, DeleteLoopRuns DEF DeleteLoop
<1>7. f = [n \in 0 .. N |-> IF n = 0 THEN tb ELSE Delete(f[n - 1], KeyAt(tb, n))]
  BY <1>6, Zenon
<1> HIDE DEF f
<1>8. f[0] = tb
  BY <1>2, <1>7
<1>9. ASSUME NEW k \in 1 .. N PROVE f[k] = Delete(f[k - 1], KeyAt(tb, k))
  <2>1. k \in 0 .. N /\ k # 0
    BY <1>2
  <2> QED
    BY <1>7, <2>1
<1>10. /\ N \in Nat
       /\ \A k \in 1 .. N : KeyAt(tb, k) \in PK
       /\ \A l \in Live(tb) : \E k \in 1 .. N : KeyAt(tb, k) = tb.rows[l].pk
       /\ \E g : /\ g[0] = tb /\ DeleteLive(tb) = g[N]
                 /\ \A k \in 1 .. N : g[k] = Delete(g[k - 1], KeyAt(tb, k))
  BY <1>2, <1>3, <1>4, <1>5, <1>8, <1>9
<1> QED
  BY <1>10 DEF N

\* Deleting every live key, one by one, leaves a well-formed table: by induction
\* on the rows deleted so far.
LEMMA DeleteLiveOK ==
    ASSUME NEW tb, WellFormed(tb)
    PROVE  WellFormed(DeleteLive(tb))
<1> DEFINE N == Cardinality(Live(tb))
<1>1. /\ N \in Nat /\ \A k \in 1 .. N : KeyAt(tb, k) \in PK
      /\ \E f : /\ f[0] = tb /\ DeleteLive(tb) = f[N]
                /\ \A k \in 1 .. N : f[k] = Delete(f[k - 1], KeyAt(tb, k))
  BY DeleteSteps
<1> HIDE DEF N
<1>2. PICK f : /\ f[0] = tb /\ DeleteLive(tb) = f[N]
               /\ \A k \in 1 .. N : f[k] = Delete(f[k - 1], KeyAt(tb, k))
  BY <1>1
<1> DEFINE Good == {k \in Nat : WellFormed(f[k])}
<1>3. 0 \in Good
  BY <1>2
<1>4. ASSUME NEW k \in 1 .. N, k - 1 \in Good PROVE k \in Good
  <2>1. WellFormed(f[k - 1])
    BY <1>4
  <2>2. WellFormed(Delete(f[k - 1], KeyAt(tb, k)))
    BY <1>1, <2>1, DeleteGrown DEF Grown
  <2>3. k \in Nat
    BY <1>1
  <2> QED
    BY <1>2, <2>2, <2>3
<1>5. N \in Good
  <2> HIDE DEF Good
  <2>1. \A k \in 0 .. N : k \in Good
    BY <1>1, <1>3, <1>4, UpTo
  <2> QED
    BY <1>1, <2>1
<1> QED
  BY <1>2, <1>5

-----------------------------------------------------------------------------
(* Type correctness *)

\* Control, bounds and history.
Control ==
    /\ pc \in {"up", "renaming", "deleting", "installed", "saved", "ghosts", "wiping", "down", "recopy"}
    /\ ops \in 0 .. MaxOps /\ compacts \in 0 .. MaxCompacts /\ crashes \in 0 .. MaxCrashes
    /\ content \in [PK -> Val \cup {NoVal}] /\ copying \in BOOLEAN

\* The type invariant, with what makes counts of rows numbers.
TypeInv ==
    /\ WellFormed(t) /\ sealed \subseteq Nat /\ DOMAIN listed \subseteq Nat
    /\ DiskOK(disk) /\ idxFile \in Index
    /\ RowsOK(out.rows) /\ out.index \in Index /\ todo \subseteq Nat
    /\ Control

\* The empty table, and a table that has kept only its log.
LEMMA EmptyTableIs ==
    ASSUME NEW w \in Seq(WalOp)
    PROVE  LET new == [EmptyTable EXCEPT !.wal = w] IN
           /\ WellFormed(new) /\ WellFormed(EmptyTable) /\ NoIndex \in Index
           /\ new.active = 0 /\ new.count = 0 /\ new.rows = <<>> /\ new.deleted = {}
           /\ new.index = NoIndex /\ new.wal = w
           /\ DOMAIN new.rows = {}
<1> DEFINE new == [EmptyTable EXCEPT !.wal = w]
<1>1. NoIndex \in Index
  BY DEF NoIndex, Index
<1>2. DOMAIN <<>> = {} /\ <<>> \in Seq(WalOp)
  OBVIOUS
<1>3. RowsOK(<<>>)
  BY <1>2 DEF RowsOK
<1>4. /\ new.active = 0 /\ new.count = 0 /\ new.flushed = 0 /\ new.rows = <<>> /\ new.deleted = {}
      /\ new.index = NoIndex /\ new.wal = w
      /\ DOMAIN new = {"active", "count", "flushed", "rows", "deleted", "index", "wal"}
  BY DEF EmptyTable
<1>5. WellFormed(EmptyTable)
  <2>1. /\ DOMAIN EmptyTable = {"active", "count", "flushed", "rows", "deleted", "index", "wal"}
        /\ EmptyTable.active = 0 /\ EmptyTable.count = 0 /\ EmptyTable.flushed = 0
        /\ EmptyTable.rows = <<>> /\ EmptyTable.deleted = {}
        /\ EmptyTable.index = NoIndex /\ EmptyTable.wal = <<>>
    BY DEF EmptyTable
  <2>2. /\ EmptyTable.active \in Nat /\ EmptyTable.count \in Nat /\ EmptyTable.flushed \in Nat
        /\ RowsOK(EmptyTable.rows) /\ EmptyTable.deleted \subseteq Loc
        /\ EmptyTable.index \in Index /\ EmptyTable.wal \in Seq(WalOp)
    BY <1>1, <1>2, <1>3, <2>1
  <2> QED
    BY <2>1, <2>2, TableParts
<1> HIDE DEF new
<1>6. WellFormed(new)
  BY <1>1, <1>3, <1>4, TableParts
<1>7. /\ WellFormed(new) /\ WellFormed(EmptyTable) /\ NoIndex \in Index
      /\ new.active = 0 /\ new.count = 0 /\ new.rows = <<>> /\ new.deleted = {}
      /\ new.index = NoIndex /\ new.wal = w
      /\ DOMAIN new.rows = {}
  BY <1>1, <1>2, <1>4, <1>5, <1>6
<1> QED
  BY <1>7 DEF new

\* The table with another log.
LEMMA WalIs ==
    ASSUME NEW tb, WellFormed(tb), NEW w \in Seq(WalOp)
    PROVE  LET new == [tb EXCEPT !.wal = w] IN
           /\ WellFormed(new)
           /\ new.active = tb.active /\ new.count = tb.count /\ new.rows = tb.rows
           /\ new.deleted = tb.deleted /\ new.index = tb.index /\ new.wal = w
<1> DEFINE new == [tb EXCEPT !.wal = w]
<1>1. /\ DOMAIN new = DOMAIN tb
      /\ new.active = tb.active /\ new.count = tb.count /\ new.flushed = tb.flushed
      /\ new.rows = tb.rows /\ new.deleted = tb.deleted /\ new.index = tb.index /\ new.wal = w
  BY TableParts
<1> HIDE DEF new
<1>2. WellFormed(new)
  BY <1>1, TableParts
<1>3. /\ WellFormed(new)
      /\ new.active = tb.active /\ new.count = tb.count /\ new.rows = tb.rows
      /\ new.deleted = tb.deleted /\ new.index = tb.index /\ new.wal = w
  BY <1>1, <1>2
<1> QED
  BY <1>3 DEF new

\* flush_active_segment.
LEMMA FlushActiveOK ==
    ASSUME NEW tb, WellFormed(tb), DiskOK(disk), sealed \subseteq Nat, DOMAIN listed \subseteq Nat,
           FlushActiveSegment(tb)
    PROVE  WellFormed(t') /\ DiskOK(disk') /\ sealed' \subseteq Nat /\ DOMAIN listed' \subseteq Nat
<1>1. CASE tb.count = 0
  <2>1. disk' = Flushed(disk, tb) /\ t' = tb /\ sealed' = sealed /\ listed' = listed
    BY <1>1 DEF FlushActiveSegment
  <2>2. DiskOK(Flushed(disk, tb))
    BY FlushedOK
  <2> QED
    BY <2>1, <2>2
<1>2. CASE tb.count # 0
  <2>1. /\ disk' = Sealed(disk, tb, listed) /\ listed' = disk'.segs
        /\ sealed' = sealed \cup {tb.active} /\ t' = Activate(tb, disk')
    BY <1>2 DEF FlushActiveSegment
  <2>2. DiskOK(disk')
    BY <2>1, SealedIs
  <2>3. WellFormed(t')
    BY <2>1, <2>2, ActivateIs
  <2>4. DOMAIN listed' \subseteq Nat /\ sealed' \subseteq Nat
    BY <2>1, <2>2, TableParts DEF DiskOK
  <2> QED
    BY <2>2, <2>3, <2>4
<1> QED
  BY <1>1, <1>2

\* What Table::open and reload_if_needed read.
LEMMA LoadedIs ==
    ASSUME TypeInv
    PROVE  /\ LoadSegments \subseteq Nat
           /\ WellFormed(Loaded)
           /\ Loaded.active = disk.active /\ Loaded.count = CountIn(disk.rows, disk.active)
           /\ Loaded.rows = Over(LoadedRows, Within(disk.rows, {disk.active}))
           /\ Loaded.deleted = {l \in disk.dead : l[1] \in LoadSegments}
                                   \cup {l \in disk.dead : l[1] = disk.active}
           /\ Loaded.index = idxFile /\ Loaded.wal = <<>>
           /\ WellFormed(SyncIndex(Loaded)) /\ WellFormed(Replayed)
<1> DEFINE base == [EmptyTable EXCEPT !.rows = LoadedRows, !.index = idxFile,
                                      !.deleted = {l \in disk.dead : l[1] \in LoadSegments}]
<1>1. /\ DOMAIN base = {"active", "count", "flushed", "rows", "deleted", "index", "wal"}
      /\ base.active = 0 /\ base.count = 0 /\ base.flushed = 0 /\ base.rows = LoadedRows
      /\ base.deleted = {l \in disk.dead : l[1] \in LoadSegments}
      /\ base.index = idxFile /\ base.wal = <<>>
  BY DEF EmptyTable
<1>2. Loaded = Activate(base, disk)
  BY DEF Loaded
<1> HIDE DEF base
<1>3. LoadSegments \subseteq Nat
  BY DEF LoadSegments, TypeInv, DiskOK
<1>4. RowsOK(LoadedRows)
  <2>1. DOMAIN LoadedRows \subseteq DOMAIN disk.rows
        /\ \A l \in DOMAIN LoadedRows : LoadedRows[l] = disk.rows[l]
    BY DEF LoadedRows
  <2> QED
    BY <2>1, PartOK DEF TypeInv, DiskOK
<1>5. WellFormed(base)
  <2>1. idxFile \in Index /\ disk.dead \subseteq Loc
    BY DEF TypeInv, DiskOK
  <2>2. <<>> \in Seq(WalOp)
    OBVIOUS
  <2>3. /\ base.active \in Nat /\ base.count \in Nat /\ base.flushed \in Nat
        /\ RowsOK(base.rows) /\ base.deleted \subseteq Loc
        /\ base.index \in Index /\ base.wal \in Seq(WalOp)
    BY <1>1, <1>4, <2>1, <2>2
  <2> QED
    BY <1>1, <2>3, TableParts
<1>6. /\ WellFormed(Loaded)
      /\ Loaded.active = disk.active /\ Loaded.count = CountIn(disk.rows, disk.active)
      /\ Loaded.rows = Over(LoadedRows, Within(disk.rows, {disk.active}))
      /\ Loaded.deleted = {l \in disk.dead : l[1] \in LoadSegments}
                              \cup {l \in disk.dead : l[1] = disk.active}
      /\ Loaded.index = idxFile /\ Loaded.wal = <<>>
  <2>1. DiskOK(disk)
    BY DEF TypeInv
  <2>2. LET new == Activate(base, disk) IN
        /\ WellFormed(new)
        /\ new.active = disk.active /\ new.count = CountIn(disk.rows, disk.active)
        /\ new.rows = Over(base.rows, Within(disk.rows, {disk.active}))
        /\ new.deleted = base.deleted \cup {l \in disk.dead : l[1] = disk.active}
        /\ new.index = base.index /\ new.wal = base.wal
    BY <1>5, <2>1, ActivateIs
  <2> QED
    BY <1>1, <1>2, <2>2
<1>7. WellFormed(SyncIndex(Loaded))
  <2>1. [Loaded EXCEPT !.index = Loaded.index] = Loaded
    BY <1>2, <1>6, TableParts DEF Activate
  <2>2. Loaded.index \in Index
    BY <1>6, TableParts
  <2>3. WellFormed(SyncIndex([Loaded EXCEPT !.index = Loaded.index]))
    BY <1>6, <2>2, LoadGrown DEF Grown
  <2> QED
    BY <2>1, <2>3
<1>8. WellFormed(Replayed)
  <2>1. t.wal \in Seq(WalOp)
    BY TableParts DEF TypeInv
  <2> QED
    BY <1>7, <2>1, ReplayWalGrown DEF Replayed
<1> QED
  BY <1>3, <1>6, <1>7, <1>8

\* The steps that apply rows.
LEMMA TypeRows ==
    ASSUME TypeInv, NEW p \in PK, DeleteRow(p) \/ \E v \in Val : WriteRow(p, v)
    PROVE  TypeInv'
<1>1. ASSUME NEW v \in Val, WriteRow(p, v) PROVE TypeInv'
  <2>1. WellFormed(Insert(t, p, v))
    BY InsertGrown DEF TypeInv, Grown
  <2>2. WellFormed(Reconcile(Insert(t, p, v)))
    BY <2>1, ReconcileGrown DEF Grown
  <2>3. WellFormed(t')
    BY <1>1, <2>2, MarkedIs DEF WriteRow, Applied
  <2>4. DiskOK(disk')
    BY <1>1, <2>3, FlushedOK DEF WriteRow, TypeInv
  <2>5. Control'
    BY <1>1, BoundsAreNat DEF WriteRow, TypeInv, Control
  <2> QED
    BY <1>1, <2>3, <2>4, <2>5 DEF WriteRow, TypeInv, work
<1>2. ASSUME DeleteRow(p) PROVE TypeInv'
  <2>1. WellFormed(Delete(t, p))
    BY DeleteGrown DEF TypeInv, Grown
  <2>2. WellFormed(t')
    BY <1>2, <2>1, MarkedIs DEF DeleteRow
  <2>3. DiskOK(disk')
    BY <1>2, <2>2, FlushedOK DEF DeleteRow, TypeInv
  <2>4. Control'
    BY <1>2, BoundsAreNat DEF DeleteRow, TypeInv, Control
  <2> QED
    BY <1>2, <2>2, <2>3, <2>4 DEF DeleteRow, TypeInv, work
<1> QED
  BY <1>1, <1>2

\* The flushes.
LEMMA TypeFlushes ==
    ASSUME TypeInv, SaveIndex \/ Rotate \/ EndCopy \/ DeleteAllRows
    PROVE  TypeInv'
<1>1. ASSUME SaveIndex PROVE TypeInv'
  <2>1. <<>> \in Seq(WalOp)
    OBVIOUS
  <2>2. WellFormed(t')
    BY <1>1, <2>1, WalIs DEF SaveIndex, TypeInv
  <2>3. idxFile' \in Index
    BY <1>1, TableParts DEF SaveIndex, TypeInv
  <2>4. Control'
    BY <1>1 DEF SaveIndex, TypeInv, Control, bounds, history
  <2> QED
    BY <1>1, <2>2, <2>3, <2>4 DEF SaveIndex, TypeInv, work
<1>2. ASSUME NEW tb, WellFormed(tb), FlushActiveSegment(tb), Control', UNCHANGED <<idxFile, work>>
      PROVE  TypeInv'
  <2>1. WellFormed(t') /\ DiskOK(disk') /\ sealed' \subseteq Nat /\ DOMAIN listed' \subseteq Nat
    BY <1>2, FlushActiveOK DEF TypeInv
  <2> QED
    BY <1>2, <2>1 DEF TypeInv, work
<1>3. ASSUME Rotate PROVE TypeInv'
  <2>1. Control'
    BY <1>3 DEF Rotate, TypeInv, Control, bounds, history
  <2> QED
    BY <1>2, <1>3, <2>1 DEF Rotate, TypeInv
<1>4. ASSUME EndCopy PROVE TypeInv'
  <2>1. Control'
    BY <1>4 DEF EndCopy, TypeInv, Control, bounds, history
  <2> QED
    BY <1>2, <1>4, <2>1 DEF EndCopy, TypeInv
<1>5. ASSUME DeleteAllRows PROVE TypeInv'
  <2>1. WellFormed(DeleteLive(t))
    BY DeleteLiveOK DEF TypeInv
  <2>2. WellFormed(Marked(DeleteLive(t), sealed))
    BY <2>1, MarkedIs
  <2>3. Control'
    BY <1>5, BoundsAreNat DEF DeleteAllRows, TypeInv, Control
  <2> QED
    BY <1>2, <1>5, <2>2, <2>3 DEF DeleteAllRows
<1> QED
  BY <1>1, <1>3, <1>4, <1>5

\* compact(): the rows it packs, ...
LEMMA PackedOK ==
    ASSUME NEW tb, WellFormed(tb), NEW segs
    PROVE  RowsOK(Packed(tb, segs).rows) /\ Packed(tb, segs).index \in Index
<1> DEFINE new == Packed(tb, segs)
           live == Survivors(tb, segs)
<1>1. /\ Copies(new.rows, tb.rows, live)
      /\ DOMAIN new.rows \subseteq Loc /\ Bounded(new)
      /\ new.index \in [PK -> DOMAIN new.rows \cup {NoLoc}]
  BY PackedIs
<1>2. live \subseteq DOMAIN tb.rows
  BY DEF Survivors, Live
<1> HIDE DEF new, live
<1>3. \A x \in DOMAIN new.rows : new.rows[x] \in Row
  BY <1>1, <1>2 DEF Copies, WellFormed, IsTable
<1>4. RowsOK(new.rows) /\ new.index \in Index
  BY <1>1, <1>3 DEF RowsOK, Bounded, Index
<1> QED
  BY <1>4 DEF new

\* ... and its steps.
LEMMA TypeCompact ==
    ASSUME TypeInv, Compact
    PROVE  TypeInv'
<1>1. ASSUME CompactBegin PROVE TypeInv'
  <2>1. WellFormed(t') /\ DiskOK(disk') /\ sealed' \subseteq Nat /\ DOMAIN listed' \subseteq Nat
    BY <1>1, FlushActiveOK DEF CompactBegin, TypeInv
  <2>2. out' = Packed(t', sealed') \/ out' = NoOutput
    BY <1>1 DEF CompactBegin
  <2>3. RowsOK(out'.rows) /\ out'.index \in Index
    <3>1. CASE out' = Packed(t', sealed')
      BY <2>1, <3>1, PackedOK
    <3>2. CASE out' = NoOutput
      <4>1. NoOutput.rows = <<>> /\ NoOutput.index = NoIndex
        BY DEF NoOutput, NoRows
      <4>2. RowsOK(<<>>) /\ NoIndex \in Index
        BY DEF RowsOK, NoIndex, Index
      <4> QED
        BY <3>2, <4>1, <4>2
    <3> QED
      BY <2>2, <3>1, <3>2
  <2>4. todo' \subseteq Nat
    BY <1>1, <2>3 DEF CompactBegin, RowsOK, Loc
  <2>5. Control'
    BY <1>1, BoundsAreNat DEF CompactBegin, TypeInv, Control, history
  <2> QED
    BY <1>1, <2>1, <2>3, <2>4, <2>5 DEF CompactBegin, TypeInv
<1>2. ASSUME CompactRename PROVE TypeInv'
  <2>1. CASE todo = {}
    BY <1>2, <2>1 DEF CompactRename, TypeInv, Control, bounds, history
  <2>2. CASE todo # {}
    <3>1. PICK s \in todo :
             /\ disk' = [WithoutDirs(disk, {s}) EXCEPT
                            !.dirs = @ \cup {s}, !.rows = Over(Within(out.rows, {s}), @)]
             /\ todo' = todo \ {s} /\ pc' = pc
      BY <1>2, <2>2 DEF CompactRename
    <3> DEFINE d == WithoutDirs(disk, {s})
    <3>2. DiskOK(d)
      BY WithoutDirsIs DEF TypeInv
    <3>3. disk' = [d EXCEPT !.dirs = @ \cup {s}, !.rows = Over(Within(out.rows, {s}), @)]
      BY <3>1
    <3> HIDE DEF d
    <3>4. /\ DOMAIN disk' = {"dirs", "rows", "dead", "segs", "active"}
          /\ disk'.dirs = d.dirs \cup {s} /\ disk'.rows = Over(Within(out.rows, {s}), d.rows)
          /\ disk'.dead = d.dead /\ disk'.segs = d.segs /\ disk'.active = d.active
      BY <3>2, <3>3 DEF DiskOK
    <3>5. RowsOK(disk'.rows)
      <4>1. RowsOK(Within(out.rows, {s}))
        BY WithinOK DEF TypeInv
      <4> QED
        BY <3>2, <3>4, <4>1, OverOK DEF DiskOK
    <3>6. s \in Nat
      BY DEF TypeInv
    <3>7. DiskOK(disk')
      <4>1. disk'.dirs \subseteq Nat
        BY <3>2, <3>4, <3>6 DEF DiskOK
      <4> QED
        BY <3>2, <3>4, <3>5, <4>1 DEF DiskOK
    <3>8. Control'
      BY <1>2, <3>1 DEF CompactRename, TypeInv, Control, bounds, history
    <3> QED
      BY <1>2, <3>1, <3>7, <3>8 DEF CompactRename, TypeInv
  <2> QED
    BY <2>1, <2>2
<1>3. ASSUME CompactDelete PROVE TypeInv'
  <2>1. PICK s \in todo : disk' = WithoutDirs(disk, {s}) /\ todo' = todo \ {s}
    BY <1>3 DEF CompactDelete
  <2>2. DiskOK(disk')
    BY <2>1, WithoutDirsIs DEF TypeInv
  <2>3. Control'
    BY <1>3 DEF CompactDelete, TypeInv, Control, bounds, history
  <2> QED
    BY <1>3, <2>1, <2>2, <2>3 DEF CompactDelete, TypeInv
<1>4. ASSUME CompactInstall PROVE TypeInv'
  <2> DEFINE new == SegsOf(out.rows)
             next == 1 + t.active + Cardinality(new)
             keep == Within(t.rows, {t.active})
  <2>1. /\ sealed' = new
        /\ listed' = Listing(Unlisting(listed, sealed), out, new)
        /\ disk' = [disk EXCEPT !.segs = listed', !.active = next]
        /\ t' = [t EXCEPT !.rows = Over(out.rows, keep), !.index = out.index,
                          !.deleted = {l \in @ : l[1] = t.active}]
    BY <1>4 DEF CompactInstall, SegsOf
  <2>2. new \subseteq Nat /\ IsFiniteSet(new)
    BY CountOK DEF TypeInv
  <2>3. next \in Nat
    BY <2>2, FS_CardinalityType, TableParts DEF TypeInv
  <2>4. RowsOK(Over(out.rows, keep))
    BY WithinOK, OverOK, TableParts DEF TypeInv
  <2> HIDE DEF new, next, keep
  <2>5. DOMAIN listed' \subseteq Nat
    <3>1. DOMAIN listed' = (DOMAIN listed \ sealed) \cup new
      BY <2>1 DEF Listing, Unlisting, Over
    <3> QED
      BY <2>2, <3>1 DEF TypeInv
  <2>6. DiskOK(disk')
    <3>1. /\ DOMAIN disk' = DOMAIN disk
          /\ disk'.dirs = disk.dirs /\ disk'.rows = disk.rows /\ disk'.dead = disk.dead
          /\ disk'.segs = listed' /\ disk'.active = next
      BY <2>1 DEF TypeInv, DiskOK
    <3> QED
      BY <2>3, <2>5, <3>1 DEF TypeInv, DiskOK
  <2>7. WellFormed(t')
    <3>1. /\ DOMAIN t' = DOMAIN t
          /\ t'.active = t.active /\ t'.count = t.count /\ t'.flushed = t.flushed
          /\ t'.rows = Over(out.rows, keep) /\ t'.index = out.index /\ t'.wal = t.wal
          /\ t'.deleted = {l \in t.deleted : l[1] = t.active}
      BY <2>1, TableParts DEF TypeInv
    <3>2. t'.deleted \subseteq Loc /\ out.index \in Index
      BY <3>1, TableParts DEF TypeInv
    <3> QED
      BY <2>4, <3>1, <3>2, TableParts DEF TypeInv
  <2>8. Control'
    BY <1>4 DEF CompactInstall, TypeInv, Control, bounds, history
  <2> QED
    BY <1>4, <2>1, <2>2, <2>5, <2>6, <2>7, <2>8 DEF CompactInstall, TypeInv, work
<1>5. ASSUME CompactSaveIndex PROVE TypeInv'
  <2>1. idxFile' \in Index
    BY <1>5, TableParts DEF CompactSaveIndex, TypeInv
  <2>2. Control'
    BY <1>5 DEF CompactSaveIndex, TypeInv, Control, bounds, history
  <2> QED
    BY <1>5, <2>1, <2>2 DEF CompactSaveIndex, TypeInv, work
<1>6. ASSUME CompactEnd PROVE TypeInv'
  <2> DEFINE left == [t EXCEPT !.wal = <<>>, !.rows = Within(@, sealed),
                               !.deleted = {l \in @ : l[1] \in sealed}]
  <2>1. /\ disk' = [disk EXCEPT !.dirs = @ \cup {disk.active}]
        /\ t' = Activate(left, disk')
    BY <1>6 DEF CompactEnd
  <2>2. DiskOK(disk')
    <3>1. /\ DOMAIN disk' = DOMAIN disk
          /\ disk'.dirs = disk.dirs \cup {disk.active} /\ disk'.rows = disk.rows
          /\ disk'.dead = disk.dead /\ disk'.segs = disk.segs /\ disk'.active = disk.active
      BY <2>1 DEF TypeInv, DiskOK
    <3> QED
      BY <3>1 DEF TypeInv, DiskOK
  <2>3. WellFormed(left)
    <3>1. /\ DOMAIN left = DOMAIN t
          /\ left.active = t.active /\ left.count = t.count /\ left.flushed = t.flushed
          /\ left.rows = Within(t.rows, sealed) /\ left.index = t.index /\ left.wal = <<>>
          /\ left.deleted = {l \in t.deleted : l[1] \in sealed}
      BY TableParts DEF TypeInv
    <3> HIDE DEF left
    <3>2. RowsOK(left.rows)
      BY <3>1, WithinOK, TableParts DEF TypeInv
    <3>3. left.deleted \subseteq Loc /\ left.wal \in Seq(WalOp)
      BY <3>1, TableParts DEF TypeInv
    <3> QED
      BY <3>1, <3>2, <3>3, TableParts DEF TypeInv
  <2> HIDE DEF left
  <2>4. WellFormed(t')
    BY <2>1, <2>2, <2>3, ActivateIs
  <2>5. RowsOK(out'.rows) /\ out'.index \in Index
    <3>1. out'.rows = <<>> /\ out'.index = NoIndex
      BY <1>6 DEF CompactEnd, NoOutput, NoRows
    <3> QED
      BY <3>1 DEF RowsOK, NoIndex, Index
  <2>6. Control'
    BY <1>6 DEF CompactEnd, TypeInv, Control, bounds, history
  <2> QED
    BY <1>6, <2>2, <2>4, <2>5, <2>6 DEF CompactEnd, TypeInv
<1>7. ASSUME PurgeGhosts PROVE TypeInv'
  <2> DEFINE d == WithoutDirs(disk, sealed \cup {t.active})
  <2>1. /\ listed' = Unlisting(listed, sealed)
        /\ disk' = [d EXCEPT !.dirs = @ \cup {0}, !.segs = listed', !.active = 0]
        /\ t' = Activate(EmptyTable, disk') /\ sealed' = {} /\ idxFile' = NoIndex
    BY <1>7 DEF PurgeGhosts
  <2>2. DiskOK(d)
    BY WithoutDirsIs DEF TypeInv
  <2> HIDE DEF d
  <2>3. DOMAIN listed' \subseteq Nat
    BY <2>1 DEF Unlisting, TypeInv
  <2>4. DiskOK(disk')
    <3>1. /\ DOMAIN disk' = DOMAIN d
          /\ disk'.dirs = d.dirs \cup {0} /\ disk'.rows = d.rows
          /\ disk'.dead = d.dead /\ disk'.segs = listed' /\ disk'.active = 0
      BY <2>1, <2>2 DEF DiskOK
    <3> QED
      BY <2>2, <2>3, <3>1 DEF DiskOK
  <2>5. WellFormed(EmptyTable) /\ NoIndex \in Index
    <3>1. <<>> \in Seq(WalOp)
      OBVIOUS
    <3> QED
      BY <3>1, EmptyTableIs
  <2>6. WellFormed(t')
    BY <2>1, <2>4, <2>5, ActivateIs
  <2>7. Control'
    BY <1>7 DEF PurgeGhosts, TypeInv, Control, bounds, history
  <2> QED
    BY <1>7, <2>1, <2>3, <2>4, <2>5, <2>6, <2>7 DEF PurgeGhosts, TypeInv, work
<1> QED
  BY <1>1, <1>2, <1>3, <1>4, <1>5, <1>6, <1>7 DEF Compact

\* Wipes, deaths and recovery.
LEMMA TypeRest ==
    ASSUME TypeInv, WipeDirs \/ WipeLog \/ Crash \/ Open \/ Recopy \/ ReloadIfNeeded
    PROVE  TypeInv'
<1>1. t.wal \in Seq(WalOp) /\ <<>> \in Seq(WalOp)
  BY TableParts DEF TypeInv
<1>2. /\ WellFormed([EmptyTable EXCEPT !.wal = t.wal]) /\ NoIndex \in Index
      /\ DOMAIN <<>> = {}
  BY <1>1, EmptyTableIs
<1>3. DiskOK([EmptyDisk EXCEPT !.segs = disk.segs, !.active = disk.active])
  <2> DEFINE d == [EmptyDisk EXCEPT !.segs = disk.segs, !.active = disk.active]
  <2>1. /\ DOMAIN d = {"dirs", "rows", "dead", "segs", "active"}
        /\ d.dirs = {0} /\ d.rows = <<>> /\ d.dead = {} /\ d.segs = disk.segs /\ d.active = disk.active
    BY DEF EmptyDisk, NoRows
  <2> HIDE DEF d
  <2>2. RowsOK(d.rows)
    BY <2>1 DEF RowsOK
  <2>3. DiskOK(d)
    BY <2>1, <2>2 DEF DiskOK, TypeInv
  <2> QED
    BY <2>3 DEF d
<1>4. ASSUME WipeDirs PROVE TypeInv'
  <2>1. Control'
    BY <1>4, BoundsAreNat DEF WipeDirs, TypeInv, Control
  <2> QED
    BY <1>2, <1>3, <1>4, <2>1 DEF WipeDirs, TypeInv, work
<1>5. ASSUME WipeLog PROVE TypeInv'
  <2>1. WellFormed(t')
    BY <1>1, <1>5, WalIs DEF WipeLog, TypeInv
  <2>2. Control'
    BY <1>5 DEF WipeLog, TypeInv, Control, bounds, history
  <2> QED
    BY <1>2, <1>5, <2>1, <2>2 DEF WipeLog, TypeInv, work
<1>6. ASSUME Crash PROVE TypeInv'
  <2>1. RowsOK(out'.rows) /\ out'.index \in Index
    <3>1. out'.rows = <<>> /\ out'.index = NoIndex
      BY <1>6 DEF Crash, NoOutput, NoRows
    <3> QED
      BY <3>1 DEF RowsOK, NoIndex, Index
  <2>2. Control'
    BY <1>6, BoundsAreNat DEF Crash, TypeInv, Control
  <2> QED
    BY <1>2, <1>6, <2>1, <2>2 DEF Crash, TypeInv
<1>7. ASSUME Open PROVE TypeInv'
  <2> DEFINE rec == Marked(Reconcile(Replayed), LoadSegments)
             tb == [rec EXCEPT !.wal = <<>>]
  <2>1. WellFormed(tb) /\ LoadSegments \subseteq Nat /\ Replayed.index \in Index
    <3>1. WellFormed(Replayed) /\ LoadSegments \subseteq Nat
      BY LoadedIs
    <3>2. WellFormed(Reconcile(Replayed))
      BY <3>1, ReconcileGrown DEF Grown
    <3>3. WellFormed(rec)
      BY <3>2, MarkedIs
    <3> HIDE DEF rec
    <3> QED
      BY <1>1, <3>1, <3>3, WalIs, TableParts
  <2>2. CASE tb.count = 0
    <3>1. /\ t' = tb /\ sealed' = LoadSegments /\ listed' = disk.segs
          /\ disk' = [Flushed(disk, tb) EXCEPT !.dirs = @ \cup {tb.active}]
      BY <1>7, <2>2 DEF Open
    <3> DEFINE d == Flushed(disk, tb)
    <3>2. DiskOK(d)
      BY <2>1, FlushedOK DEF TypeInv
    <3>3. disk' = [d EXCEPT !.dirs = @ \cup {tb.active}]
      BY <3>1
    <3> HIDE DEF d, tb
    <3>4. DiskOK(disk')
      <4>1. /\ DOMAIN disk' = DOMAIN d
            /\ disk'.dirs = d.dirs \cup {tb.active} /\ disk'.rows = d.rows
            /\ disk'.dead = d.dead /\ disk'.segs = d.segs /\ disk'.active = d.active
        BY <3>2, <3>3 DEF DiskOK
      <4>2. tb.active \in Nat
        BY <2>1, TableParts
      <4> QED
        BY <3>2, <4>1, <4>2 DEF DiskOK
    <3>5. DOMAIN listed' \subseteq Nat
      BY <3>1 DEF TypeInv, DiskOK
    <3> QED
      <4>1. Control' /\ idxFile' \in Index /\ work' = work
        BY <1>7, <2>1 DEF Open, TypeInv, Control, bounds, history
      <4> QED
        BY <2>1, <3>1, <3>4, <3>5, <4>1 DEF TypeInv, work
  <2>3. CASE tb.count # 0
    <3>1. /\ disk' = Sealed(disk, tb, disk.segs) /\ listed' = disk'.segs
          /\ sealed' = LoadSegments \cup {tb.active} /\ t' = Activate(tb, disk')
      BY <1>7, <2>3 DEF Open
    <3> HIDE DEF tb
    <3>2. DiskOK(disk')
      <4>1. DiskOK(disk) /\ DOMAIN disk.segs \subseteq Nat
        BY DEF TypeInv, DiskOK
      <4>2. DiskOK(Sealed(disk, tb, disk.segs))
        BY <2>1, <4>1, SealedIs
      <4> QED
        BY <3>1, <4>2
    <3>3. WellFormed(t')
      BY <2>1, <3>1, <3>2, ActivateIs
    <3>4. DOMAIN listed' \subseteq Nat /\ sealed' \subseteq Nat
      BY <2>1, <3>1, <3>2, TableParts DEF DiskOK
    <3>5. Control' /\ idxFile' \in Index /\ work' = work
      BY <1>7, <2>1 DEF Open, TypeInv, Control, bounds, history
    <3> QED
      BY <3>2, <3>3, <3>4, <3>5 DEF TypeInv, work
  <2> QED
    BY <2>2, <2>3
<1>8. ASSUME Recopy PROVE TypeInv'
  <2>1. Control'
    BY <1>8 DEF Recopy, TypeInv, Control, bounds
  <2> QED
    BY <1>2, <1>3, <1>8, <2>1 DEF Recopy, TypeInv, work
<1>9. ASSUME ReloadIfNeeded PROVE TypeInv'
  <2>1. WellFormed(Loaded) /\ LoadSegments \subseteq Nat
    BY LoadedIs
  <2>2. WellFormed(t')
    BY <1>1, <1>9, <2>1, WalIs DEF ReloadIfNeeded
  <2>3. Control'
    BY <1>9 DEF ReloadIfNeeded, TypeInv, Control, bounds, history
  <2> QED
    BY <1>9, <2>1, <2>2, <2>3 DEF ReloadIfNeeded, TypeInv, work
<1> QED
  BY <1>4, <1>5, <1>6, <1>7, <1>8, <1>9

\* The initial state and every step.
LEMMA InitTypes == Init => TypeInv
<1> SUFFICES ASSUME Init PROVE TypeInv
  OBVIOUS
<1>1. <<>> \in Seq(WalOp) /\ DOMAIN <<>> = {}
  OBVIOUS
<1>2. WellFormed(t) /\ NoIndex \in Index
  BY <1>1, EmptyTableIs DEF Init
<1>3. RowsOK(<<>>)
  BY <1>1 DEF RowsOK
<1>4. DiskOK(disk)
  BY <1>1, <1>3 DEF Init, EmptyDisk, NoRows, DiskOK
<1>5. RowsOK(out.rows) /\ out.index \in Index
  BY <1>2, <1>3 DEF Init, NoOutput, NoRows
<1>6. Control
  <2>1. ops \in 0 .. MaxOps /\ compacts \in 0 .. MaxCompacts /\ crashes \in 0 .. MaxCrashes
    BY BoundsAreNat DEF Init
  <2>2. content \in [PK -> Val \cup {NoVal}]
    BY DEF Init
  <2> QED
    BY <2>1, <2>2 DEF Init, Control
<1> QED
  BY <1>1, <1>2, <1>4, <1>5, <1>6 DEF Init, TypeInv

\* Every step keeps the kinds.
LEMMA NextTypes == TypeInv /\ [Next]_vars => TypeInv'
<1> SUFFICES ASSUME TypeInv, [Next]_vars PROVE TypeInv'
  OBVIOUS
<1>1. CASE UNCHANGED vars
  BY <1>1 DEF vars, work, bounds, history, TypeInv, Control
<1>2. CASE \E p \in PK : DeleteRow(p) \/ \E v \in Val : WriteRow(p, v)
  BY <1>2, TypeRows
<1>3. CASE SaveIndex \/ Rotate \/ EndCopy \/ DeleteAllRows
  BY <1>3, TypeFlushes
<1>4. CASE Compact
  BY <1>4, TypeCompact
<1>5. CASE WipeDirs \/ WipeLog \/ Crash \/ Open \/ Recopy \/ ReloadIfNeeded
  BY <1>5, TypeRest
<1> QED
  BY <1>1, <1>2, <1>3, <1>4, <1>5 DEF Next

\* Type correctness of Compaction for every instance, with the table, the directories
\* and the packed rows bounded.
THEOREM CompactionTypes == Spec => []TypeOK
<1>1. TypeInv => TypeOK
  BY DEF TypeInv, TypeOK, Control, WellFormed, DiskOK, RowsOK
<1> QED
  BY <1>1, InitTypes, NextTypes, PTL DEF Spec
-----------------------------------------------------------------------------
(* The inductive invariant, part by part *)

\* The manifest counts the rows of the segments it names.
Counted(m, rows, segs) == DOMAIN m = segs /\ \A s \in segs : m[s] = CountIn(rows, s)

\* Two sets of rows that agree.
SameRows(rows, other) == DOMAIN rows = DOMAIN other /\ \A l \in DOMAIN other : rows[l] = other[l]

\* Rows are in the immutable segments, none of which is empty, and in the active
\* one, which comes after them.
Stored(tb, segs) ==
    /\ Dense(tb.rows) /\ tb.count = CountIn(tb.rows, tb.active)
    /\ \A s \in segs : s < tb.active /\ \E l \in DOMAIN tb.rows : l[1] = s
    /\ \A l \in DOMAIN tb.rows : l[1] \in segs \/ l[1] = tb.active
    /\ tb.deleted \subseteq DOMAIN tb.rows

\* The index names the live row of every key, which has the key's content.
Keys(tb, c) ==
    \A p \in PK :
        /\ LiveOf(tb, p) \subseteq {tb.index[p]}
        /\ tb.index[p] = NoLoc => c[p] = NoVal
        /\ tb.index[p] # NoLoc => tb.index[p] \in LiveOf(tb, p) /\ tb.rows[tb.index[p]].val = c[p]

\* A location that the log or primary.idx names is of the key, or of a segment that
\* is gone for good.
Gone(x, segs, top) == x \in Loc /\ x[1] < top /\ x[1] \notin segs
Names(x, p, rows, segs, top) ==
    (x \in DOMAIN rows /\ rows[x].pk = p) \/ (x \notin DOMAIN rows /\ Gone(x, segs, top))

\* So is every location of primary.idx.
IndexNames(idx, rows, segs, top) ==
    \A p \in PK : idx[p] # NoLoc => Names(idx[p], p, rows, segs, top)

\* Whether the log mentions a key; its last and its first entry.
HasEntry(w, p) == \E i \in 1 .. Len(w) : w[i].pk = p
LastOf(w, i) == \A j \in 1 .. Len(w) : j > i => w[j].pk # w[i].pk
FirstOf(w, i) == \A j \in 1 .. Len(w) : j < i => w[j].pk # w[i].pk

\* The log and primary.idx against the rows and the tombstones.  The last entry of a
\* key has its content; without an entry, primary.idx names the row or, after a
\* compaction, a row that has moved.
Logged(w, idx, c, rows, dead, segs, top) ==
    /\ \A i \in 1 .. Len(w) : w[i].op = "delete" => Names(w[i].loc, w[i].pk, rows, segs, top)
    /\ IndexNames(idx, rows, segs, top)
    /\ \A i \in 1 .. Len(w) : LastOf(w, i) => c[w[i].pk] = w[i].val
    /\ \A p \in PK : ~HasEntry(w, p) =>
         /\ c[p] = NoVal => idx[p] = NoLoc
         /\ c[p] # NoVal => idx[p] # NoLoc /\ (idx[p] \in DOMAIN rows => idx[p] \notin dead)

\* The first entry of a key, when an insert, differs from the row primary.idx names.
Ahead(w, idx, rows, dead) ==
    \A i \in 1 .. Len(w) :
        /\ FirstOf(w, i) /\ w[i].op = "insert"
        /\ idx[w[i].pk] \in DOMAIN rows /\ idx[w[i].pk] \in dead
        => rows[idx[w[i].pk]].val # w[i].val

\* A table in use, ...
Clean(tb, segs, m, idx, c) ==
    /\ Stored(tb, segs) /\ Counted(m, tb.rows, segs) /\ Keys(tb, c)
    /\ Logged(tb.wal, idx, c, tb.rows, tb.deleted, segs, tb.active)
    /\ Ahead(tb.wal, idx, tb.rows, DOMAIN tb.rows)

\* ... its directories, and its manifest.
AtRest(tb, segs, d) ==
    /\ SameRows(d.rows, tb.rows) /\ d.dead = tb.deleted
    /\ segs \cup {tb.active} \subseteq d.dirs
Named(tb, segs, m, d) == segs # {} => d.segs = m /\ d.active = tb.active

-----------------------------------------------------------------------------
(* Consecutive local ids *)

\* record_count tells which local ids there are.
LEMMA DenseCount ==
    ASSUME NEW rows, RowsOK(rows), Dense(rows)
    PROVE  \A l \in Loc : l \in DOMAIN rows <=> l[2] <= CountIn(rows, l[1])
<1> SUFFICES ASSUME NEW l \in Loc PROVE l \in DOMAIN rows <=> l[2] <= CountIn(rows, l[1])
  OBVIOUS
<1>1. l[1] \in Nat
  BY DEF Loc
<1>2. PICK n \in Nat : \A k \in Loc : k[1] = l[1] => (k \in DOMAIN rows <=> k[2] <= n)
  BY <1>1 DEF Dense
<1>3. CountIn(rows, l[1]) = n
  <2>1. DOMAIN rows \subseteq Loc
    BY DEF RowsOK
  <2> QED
    BY <1>1, <1>2, <2>1, CountDense
<1> QED
  BY <1>2, <1>3

\* A row appended to a segment.
LEMMA AppendDense ==
    ASSUME NEW rows, RowsOK(rows), Dense(rows), NEW s \in Nat, NEW new, DOMAIN new \subseteq Loc,
           DOMAIN new = DOMAIN rows \cup {<<s, CountIn(rows, s) + 1>>}
    PROVE  /\ Dense(new) /\ CountIn(new, s) = CountIn(rows, s) + 1
           /\ \A u \in Nat \ {s} : CountIn(new, u) = CountIn(rows, u)
           /\ <<s, CountIn(rows, s) + 1>> \notin DOMAIN rows
<1> DEFINE n == CountIn(rows, s)
           x == <<s, n + 1>>
<1>1. n \in Nat
  BY CountOK
<1>2. \A l \in Loc : l \in DOMAIN rows <=> l[2] <= CountIn(rows, l[1])
  BY DenseCount
<1>3. x \in Loc /\ x[1] = s /\ x[2] = n + 1
  BY <1>1 DEF Loc
<1> HIDE DEF n
<1>4. x \notin DOMAIN rows
  <2>1. ~ (n + 1 <= n)
    BY <1>1
  <2> QED
    BY <1>2, <1>3, <2>1 DEF n
<1>5. \A l \in Loc : l[1] = s => (l \in DOMAIN new <=> l[2] <= n + 1)
  <2> SUFFICES ASSUME NEW l \in Loc, l[1] = s PROVE l \in DOMAIN new <=> l[2] <= n + 1
    OBVIOUS
  <2>1. l \in DOMAIN rows <=> l[2] <= n
    BY <1>2 DEF n
  <2>2. l = x <=> l[2] = n + 1
    BY <1>3 DEF Loc
  <2>3. l[2] \in Nat
    BY DEF Loc
  <2>4. l \in DOMAIN new <=> l \in DOMAIN rows \/ l = x
    BY DEF n
  <2> QED
    BY <1>1, <2>1, <2>2, <2>3, <2>4
<1>6. CountIn(new, s) = n + 1
  BY <1>1, <1>5, CountDense
<1>7. \A u \in Nat \ {s} : CountIn(new, u) = CountIn(rows, u)
  <2> SUFFICES ASSUME NEW u \in Nat \ {s} PROVE CountIn(new, u) = CountIn(rows, u)
    OBVIOUS
  <2>1. {l \in DOMAIN new : l[1] = u} = {l \in DOMAIN rows : l[1] = u}
    BY <1>3 DEF n
  <2> QED
    BY <2>1 DEF CountIn
<1>8. Dense(new)
  <2> SUFFICES ASSUME NEW u \in Nat
               PROVE  \E k \in Nat : \A l \in Loc : l[1] = u => (l \in DOMAIN new <=> l[2] <= k)
    BY DEF Dense
  <2>1. CASE u = s
    BY <1>1, <1>5, <2>1
  <2>2. CASE u # s
    <3>1. PICK k \in Nat : \A l \in Loc : l[1] = u => (l \in DOMAIN rows <=> l[2] <= k)
      BY DEF Dense
    <3>2. \A l \in Loc : l[1] = u => (l \in DOMAIN new <=> l \in DOMAIN rows)
      BY <1>3, <2>2 DEF n
    <3> QED
      BY <3>1, <3>2
  <2> QED
    BY <2>1, <2>2
<1> QED
  BY <1>4, <1>6, <1>7, <1>8 DEF n

-----------------------------------------------------------------------------
(* The log *)

\* An entry at the end of the log.
LEMMA AppendIs ==
    ASSUME NEW w \in Seq(WalOp), NEW e \in WalOp
    PROVE  /\ Append(w, e) \in Seq(WalOp) /\ Len(w) \in Nat /\ Len(Append(w, e)) = Len(w) + 1
           /\ \A i \in 1 .. Len(w) : Append(w, e)[i] = w[i]
           /\ Append(w, e)[Len(w) + 1] = e
<1> QED
  OBVIOUS

\* The rows of a table have grown in the active segment: what was named still is.
LEMMA NamesKept ==
    ASSUME NEW rows, NEW new, NEW segs, NEW top \in Nat,
           DOMAIN rows \subseteq DOMAIN new, \A l \in DOMAIN rows : new[l] = rows[l],
           \A l \in DOMAIN new \ DOMAIN rows : l[1] = top,
           NEW x, NEW p, Names(x, p, rows, segs, top)
    PROVE  Names(x, p, new, segs, top)
<1>1. CASE x \in DOMAIN rows
  BY <1>1 DEF Names
<1>2. CASE x \notin DOMAIN rows
  <2>1. x \in Loc /\ x[1] < top /\ x[1] \notin segs
    BY <1>2 DEF Names, Gone
  <2>2. x[1] # top
    BY <2>1
  <2> QED
    BY <1>2, <2>1, <2>2 DEF Names, Gone
<1> QED
  BY <1>1, <1>2

\* A logged change of one key.
LEMMA LoggedGrows ==
    ASSUME NEW w \in Seq(WalOp), NEW e \in WalOp, NEW idx, NEW c \in [PK -> Val \cup {NoVal}],
           NEW rows, NEW dead, NEW segs, NEW top \in Nat,
           Logged(w, idx, c, rows, dead, segs, top),
           NEW new, DOMAIN rows \subseteq DOMAIN new, \A l \in DOMAIN rows : new[l] = rows[l],
           \A l \in DOMAIN new \ DOMAIN rows : l[1] = top,
           NEW gone, \A l \in gone \ dead : l \in DOMAIN rows /\ rows[l].pk = e.pk,
           e.op = "delete" => Names(e.loc, e.pk, rows, segs, top)
    PROVE  Logged(Append(w, e), idx, [c EXCEPT ![e.pk] = e.val], new, gone, segs, top)
<1> DEFINE w2 == Append(w, e)
           c2 == [c EXCEPT ![e.pk] = e.val]
<1>1. /\ Len(w) \in Nat /\ Len(w2) = Len(w) + 1
      /\ \A i \in 1 .. Len(w) : w2[i] = w[i]
      /\ w2[Len(w) + 1] = e
  BY AppendIs
<1>2. /\ e.pk \in PK /\ c2[e.pk] = e.val
      /\ \A p \in PK : p # e.pk => c2[p] = c[p]
      /\ \A i \in 1 .. Len(w) : w[i].pk \in PK
  BY DEF WalOp
<1> HIDE DEF w2, c2
<1>3. \A x, p : Names(x, p, rows, segs, top) => Names(x, p, new, segs, top)
  BY NamesKept
<1>4. ASSUME NEW i \in 1 .. Len(w2), w2[i].op = "delete"
      PROVE  Names(w2[i].loc, w2[i].pk, new, segs, top)
  <2>1. CASE i = Len(w) + 1
    BY <1>1, <1>3, <1>4, <2>1
  <2>2. CASE i # Len(w) + 1
    <3>1. i \in 1 .. Len(w)
      BY <1>1, <2>2
    <3> QED
      BY <1>1, <1>3, <1>4, <3>1 DEF Logged
  <2> QED
    BY <2>1, <2>2
<1>5. IndexNames(idx, new, segs, top)
  BY <1>3 DEF Logged, IndexNames
<1>6. ASSUME NEW i \in 1 .. Len(w2), LastOf(w2, i) PROVE c2[w2[i].pk] = w2[i].val
  <2>1. CASE i = Len(w) + 1
    BY <1>1, <1>2, <2>1
  <2>2. CASE i # Len(w) + 1
    <3>1. i \in 1 .. Len(w) /\ Len(w) + 1 \in 1 .. Len(w2) /\ Len(w) + 1 > i
      BY <1>1, <2>2
    <3>2. w2[i] = w[i] /\ w[i].pk # e.pk
      BY <1>1, <1>6, <3>1 DEF LastOf
    <3>3. LastOf(w, i)
      <4> SUFFICES ASSUME NEW j \in 1 .. Len(w), j > i PROVE w[j].pk # w[i].pk
        BY DEF LastOf
      <4>1. j \in 1 .. Len(w2) /\ w2[j] = w[j]
        BY <1>1
      <4> QED
        BY <1>6, <3>2, <4>1 DEF LastOf
    <3> QED
      BY <1>2, <3>1, <3>2, <3>3 DEF Logged
  <2> QED
    BY <2>1, <2>2
<1>7. ASSUME NEW p \in PK, ~HasEntry(w2, p)
      PROVE  /\ c2[p] = NoVal => idx[p] = NoLoc
             /\ c2[p] # NoVal => idx[p] # NoLoc /\ (idx[p] \in DOMAIN new => idx[p] \notin gone)
  <2>1. p # e.pk
    <3>1. Len(w) + 1 \in 1 .. Len(w2)
      BY <1>1
    <3> QED
      BY <1>1, <1>7, <3>1 DEF HasEntry
  <2>2. ~HasEntry(w, p)
    <3>1. \A i \in 1 .. Len(w) : i \in 1 .. Len(w2) /\ w2[i] = w[i]
      BY <1>1
    <3> QED
      BY <1>7, <3>1 DEF HasEntry
  <2>3. /\ c2[p] = NoVal => idx[p] = NoLoc
        /\ c2[p] # NoVal => idx[p] # NoLoc /\ (idx[p] \in DOMAIN rows => idx[p] \notin dead)
    BY <1>2, <2>1, <2>2 DEF Logged
  <2>4. ASSUME c2[p] # NoVal, idx[p] \in DOMAIN new PROVE idx[p] \notin gone
    <3>1. Names(idx[p], p, rows, segs, top)
      BY <2>3, <2>4 DEF Logged, IndexNames
    <3>2. CASE idx[p] \in DOMAIN rows
      BY <2>1, <2>3, <2>4, <3>1, <3>2 DEF Names
    <3>3. CASE idx[p] \notin DOMAIN rows
      <4>1. idx[p][1] < top /\ idx[p][1] = top
        BY <2>4, <3>1, <3>3 DEF Names, Gone
      <4> QED
        BY <4>1
    <3> QED
      BY <3>2, <3>3
  <2> QED
    BY <2>3, <2>4
<1>8. Logged(w2, idx, c2, new, gone, segs, top)
  BY <1>4, <1>5, <1>6, <1>7 DEF Logged
<1> QED
  BY <1>8 DEF w2, c2

\* The log stays ahead of primary.idx.
LEMMA AheadGrows ==
    ASSUME NEW w \in Seq(WalOp), NEW e \in WalOp, NEW idx, NEW rows, NEW segs, NEW top \in Nat,
           IndexNames(idx, rows, segs, top),
           DOMAIN rows \subseteq Loc, Ahead(w, idx, rows, DOMAIN rows),
           NEW new, DOMAIN new \subseteq Loc,
           DOMAIN rows \subseteq DOMAIN new, \A l \in DOMAIN rows : new[l] = rows[l],
           \A l \in DOMAIN new \ DOMAIN rows : l[1] = top,
           e.op = "insert" /\ ~HasEntry(w, e.pk) /\ idx[e.pk] \in DOMAIN rows
               => rows[idx[e.pk]].val # e.val
    PROVE  Ahead(Append(w, e), idx, new, DOMAIN new)
<1> DEFINE w2 == Append(w, e)
<1>1. /\ Len(w) \in Nat /\ Len(w2) = Len(w) + 1
      /\ \A i \in 1 .. Len(w) : w2[i] = w[i]
      /\ w2[Len(w) + 1] = e
  BY AppendIs
<1>2. e.pk \in PK /\ \A i \in 1 .. Len(w) : w[i].pk \in PK
  BY DEF WalOp
<1> HIDE DEF w2
<1>3. NoLoc \notin Loc
  BY DEF NoLoc, Loc
<1>4. ASSUME NEW p \in PK, idx[p] \in DOMAIN new PROVE idx[p] \in DOMAIN rows /\ new[idx[p]] = rows[idx[p]]
  <2>1. Names(idx[p], p, rows, segs, top)
    BY <1>3, <1>4 DEF IndexNames
  <2>2. CASE idx[p] \notin DOMAIN rows
    <3>1. idx[p][1] < top /\ idx[p][1] = top
      BY <1>4, <2>1, <2>2 DEF Names, Gone
    <3> QED
      BY <3>1
  <2> QED
    BY <2>2
<1>5. ASSUME NEW i \in 1 .. Len(w2), FirstOf(w2, i), w2[i].op = "insert",
             idx[w2[i].pk] \in DOMAIN new
      PROVE  new[idx[w2[i].pk]].val # w2[i].val
  <2>1. CASE i = Len(w) + 1
    <3>1. ~HasEntry(w, e.pk)
      <4>1. \A j \in 1 .. Len(w) : j \in 1 .. Len(w2) /\ j < i /\ w2[j] = w[j]
        BY <1>1, <2>1
      <4> QED
        BY <1>1, <1>5, <2>1, <4>1 DEF FirstOf, HasEntry
    <3> QED
      BY <1>1, <1>2, <1>4, <1>5, <2>1, <3>1
  <2>2. CASE i # Len(w) + 1
    <3>1. i \in 1 .. Len(w)
      BY <1>1, <2>2
    <3>2. w2[i] = w[i] /\ w[i].pk \in PK
      BY <1>1, <1>2, <3>1
    <3>3. FirstOf(w, i)
      <4>1. \A j \in 1 .. Len(w) : j \in 1 .. Len(w2) /\ w2[j] = w[j]
        BY <1>1
      <4> QED
        BY <1>5, <3>2, <4>1 DEF FirstOf
    <3>4. idx[w[i].pk] \in DOMAIN rows /\ new[idx[w[i].pk]] = rows[idx[w[i].pk]]
      BY <1>4, <1>5, <3>2
    <3>5. rows[idx[w[i].pk]].val # w[i].val
      BY <1>5, <3>1, <3>2, <3>3, <3>4 DEF Ahead
    <3> QED
      BY <3>2, <3>4, <3>5
  <2> QED
    BY <2>1, <2>2
<1>6. Ahead(w2, idx, new, DOMAIN new)
  BY <1>5 DEF Ahead
<1> QED
  BY <1>6 DEF w2

-----------------------------------------------------------------------------
(* Rows applied to a clean table *)

\* What an insert that writes a row changes ...
Appended(tb, new, p, v, x) ==
    /\ new.count = tb.count + 1
    /\ DOMAIN new.rows = DOMAIN tb.rows \cup {x} /\ new.rows[x] = [pk |-> p, val |-> v]
    /\ \A l \in DOMAIN tb.rows \ {x} : new.rows[l] = tb.rows[l]
    /\ new.deleted = tb.deleted \cup ({tb.index[p]} \ {NoLoc})
    /\ new.index = [tb.index EXCEPT ![p] = x]
    /\ new.wal = Append(tb.wal, InsertOp(p, v))

\* ... one that finds the row already there ...
Untouched(tb, new) ==
    /\ new.count = tb.count /\ new.rows = tb.rows /\ new.deleted = tb.deleted
    /\ new.index = tb.index /\ new.wal = tb.wal

\* What appending a row changes: one location, one index entry, one log entry.
LEMMA AppendRowIs ==
    ASSUME NEW tb, WellFormed(tb), NEW p \in PK, NEW v \in Val
    PROVE  LET new == AppendRow(tb, p, v)
               x == <<tb.active, tb.count + 1>> IN
           /\ new.active = tb.active /\ new.count = tb.count + 1
           /\ DOMAIN new.rows = DOMAIN tb.rows \cup {x} /\ new.rows[x] = [pk |-> p, val |-> v]
           /\ \A l \in DOMAIN tb.rows \ {x} : new.rows[l] = tb.rows[l]
           /\ new.deleted = tb.deleted
           /\ new.index = [tb.index EXCEPT ![p] = x]
           /\ new.wal = Append(tb.wal, InsertOp(p, v))
<1> DEFINE new == AppendRow(tb, p, v)
           x == <<tb.active, tb.count + 1>>
           r == [k \in DOMAIN tb.rows \cup {x} |-> IF k = x THEN [pk |-> p, val |-> v] ELSE tb.rows[k]]
<1>1. /\ new.active = tb.active /\ new.count = tb.count + 1 /\ new.rows = r
      /\ new.deleted = tb.deleted /\ new.index = [tb.index EXCEPT ![p] = x]
      /\ new.wal = Append(tb.wal, InsertOp(p, v))
  BY DEF AppendRow, WellFormed, IsTable
<1>2. /\ DOMAIN r = DOMAIN tb.rows \cup {x} /\ r[x] = [pk |-> p, val |-> v]
      /\ \A l \in DOMAIN tb.rows \ {x} : r[l] = tb.rows[l]
  OBVIOUS
<1> HIDE DEF new, r, x
<1>3. /\ new.active = tb.active /\ new.count = tb.count + 1
      /\ DOMAIN new.rows = DOMAIN tb.rows \cup {x} /\ new.rows[x] = [pk |-> p, val |-> v]
      /\ \A l \in DOMAIN tb.rows \ {x} : new.rows[l] = tb.rows[l]
      /\ new.deleted = tb.deleted
      /\ new.index = [tb.index EXCEPT ![p] = x]
      /\ new.wal = Append(tb.wal, InsertOp(p, v))
  BY <1>1, <1>2
<1> QED
  BY <1>3 DEF new, x

\* Table::insert, without the flush that looking up the row may cause.
LEMMA InsertIs ==
    ASSUME NEW tb, WellFormed(tb), NEW p \in PK, NEW v \in Val
    PROVE  LET new == Insert(tb, p, v) IN
           /\ WellFormed(new) /\ new.active = tb.active
           /\ \/ tb.index[p] # NoLoc /\ Lookup(tb, p) = v /\ Untouched(tb, new)
              \/ /\ tb.index[p] = NoLoc \/ Lookup(tb, p) # v
                 /\ Appended(tb, new, p, v, <<tb.active, tb.count + 1>>)
<1> DEFINE new == Insert(tb, p, v)
           x == <<tb.active, tb.count + 1>>
           read == GetRow(tb, p)
           dead == Tombstone(read, tb.index[p])
<1>1. WellFormed(new)
  BY InsertGrown DEF Grown
<1>2. WellFormed(read)
  BY GetRowGrown DEF Grown
<1>3. read.active = tb.active /\ Untouched(tb, read)
  BY DEF GetRow, FlushBuffers, Untouched, WellFormed, IsTable
<1>4. CASE tb.index[p] = NoLoc
  <2>1. new = AppendRow(tb, p, v)
    BY <1>4 DEF Insert
  <2>2. /\ new.active = tb.active /\ new.count = tb.count + 1
        /\ DOMAIN new.rows = DOMAIN tb.rows \cup {x} /\ new.rows[x] = [pk |-> p, val |-> v]
        /\ \A l \in DOMAIN tb.rows \ {x} : new.rows[l] = tb.rows[l]
        /\ new.deleted = tb.deleted
        /\ new.index = [tb.index EXCEPT ![p] = x]
        /\ new.wal = Append(tb.wal, InsertOp(p, v))
    BY <2>1, AppendRowIs
  <2> HIDE DEF new, x
  <2>3. new.deleted = tb.deleted \cup ({tb.index[p]} \ {NoLoc})
    BY <1>4, <2>2
  <2>4. WellFormed(new) /\ new.active = tb.active /\ Appended(tb, new, p, v, x)
    BY <1>1, <2>2, <2>3 DEF Appended
  <2> QED
    BY <1>4, <2>4 DEF new, x
<1>5. CASE tb.index[p] # NoLoc /\ Lookup(tb, p) = v
  <2>1. new = read
    BY <1>5 DEF Insert
  <2> HIDE DEF new, read
  <2> QED
    BY <1>1, <1>3, <1>5, <2>1 DEF new
<1>6. CASE tb.index[p] # NoLoc /\ Lookup(tb, p) # v
  <2>1. new = AppendRow(dead, p, v)
    BY <1>6 DEF Insert
  <2>2. tb.index[p] \in Loc
    BY <1>6 DEF WellFormed, IsTable, Index
  <2>3. WellFormed(dead)
    BY <1>2, <2>2, TombstoneGrown DEF Grown
  <2>4. /\ dead.active = read.active /\ dead.count = read.count /\ dead.rows = read.rows
        /\ dead.deleted = read.deleted \cup {tb.index[p]}
        /\ dead.index = read.index /\ dead.wal = read.wal
    BY <1>2 DEF Tombstone, WellFormed, IsTable
  <2> DEFINE y == <<dead.active, dead.count + 1>>
  <2>5. /\ new.active = dead.active /\ new.count = dead.count + 1
        /\ DOMAIN new.rows = DOMAIN dead.rows \cup {y} /\ new.rows[y] = [pk |-> p, val |-> v]
        /\ \A l \in DOMAIN dead.rows \ {y} : new.rows[l] = dead.rows[l]
        /\ new.deleted = dead.deleted
        /\ new.index = [dead.index EXCEPT ![p] = y]
        /\ new.wal = Append(dead.wal, InsertOp(p, v))
    BY <2>1, <2>3, AppendRowIs
  <2>6. x = y
    BY <1>3, <2>4 DEF Untouched
  <2> HIDE DEF new, read, dead, x, y
  <2>7. new.deleted = tb.deleted \cup ({tb.index[p]} \ {NoLoc})
    BY <1>3, <1>6, <2>4, <2>5 DEF Untouched
  <2>8. new.active = tb.active /\ Appended(tb, new, p, v, x)
    BY <1>3, <2>4, <2>5, <2>6, <2>7 DEF Appended, Untouched
  <2> QED
    BY <1>1, <1>6, <2>8 DEF new, x
<1> QED
  BY <1>4, <1>5, <1>6

\* ... and a delete that finds a row.
Removed(tb, new, p) ==
    /\ tb.index[p] \in Loc
    /\ new.deleted = tb.deleted \cup {tb.index[p]}
    /\ new.index = [tb.index EXCEPT ![p] = NoLoc]
    /\ new.wal = Append(tb.wal, DeleteOp(p, tb.index[p]))

\* Table::delete.
LEMMA DeleteIs ==
    ASSUME NEW tb, WellFormed(tb), NEW p \in PK
    PROVE  LET new == Delete(tb, p) IN
           /\ WellFormed(new)
           /\ new.active = tb.active /\ new.count = tb.count /\ new.rows = tb.rows
           /\ tb.index[p] = NoLoc => new = tb
           /\ tb.index[p] # NoLoc => Removed(tb, new, p)
<1>1. WellFormed(Delete(tb, p))
  BY DeleteGrown DEF Grown
<1>2. tb.index[p] # NoLoc => tb.index[p] \in Loc
  BY DEF WellFormed, IsTable, Index
<1> QED
  BY <1>1, <1>2 DEF Delete, Removed, WellFormed, IsTable

\* reconcile_orphan_rows, when the index names every live row: nothing to do.
LEMMA ReconcileKeeps ==
    ASSUME NEW tb, WellFormed(tb), \A p \in PK : LiveOf(tb, p) \subseteq {tb.index[p]}
    PROVE  LET new == Reconcile(tb) IN
           WellFormed(new) /\ new.active = tb.active /\ Untouched(tb, new)
<1> DEFINE new == Reconcile(tb)
<1>1. WellFormed(new)
  BY ReconcileGrown DEF Grown
<1>2. /\ new.active = tb.active /\ new.count = tb.count /\ new.rows = tb.rows /\ new.wal = tb.wal
      /\ new.deleted = tb.deleted \cup {l \in Live(tb) : l # Winner(tb, tb.rows[l].pk)}
      /\ new.index = [p \in PK |-> IF LiveOf(tb, p) = {} THEN tb.index[p] ELSE Winner(tb, p)]
  BY DEF Reconcile, WellFormed, IsTable
<1> HIDE DEF new
<1>3. ASSUME NEW p \in PK, LiveOf(tb, p) # {} PROVE Winner(tb, p) = tb.index[p]
  BY <1>3, WinnerExists
<1>4. ASSUME NEW l \in Live(tb) PROVE l = Winner(tb, tb.rows[l].pk)
  <2>1. tb.rows[l].pk \in PK
    BY DEF Live, WellFormed, IsTable, Row
  <2>2. l \in LiveOf(tb, tb.rows[l].pk)
    BY DEF LiveOf
  <2> QED
    BY <1>3, <2>1, <2>2
<1>5. new.deleted = tb.deleted
  BY <1>2, <1>4
<1>6. new.index = tb.index
  <2>1. tb.index = [p \in PK |-> tb.index[p]]
    BY DEF WellFormed, IsTable, Index
  <2>2. \A p \in PK : (IF LiveOf(tb, p) = {} THEN tb.index[p] ELSE Winner(tb, p)) = tb.index[p]
    BY <1>3
  <2> QED
    BY <1>2, <2>1, <2>2
<1>7. WellFormed(new) /\ new.active = tb.active /\ Untouched(tb, new)
  BY <1>1, <1>2, <1>5, <1>6 DEF Untouched
<1> QED
  BY <1>7 DEF new

\* Every tombstone is in a loaded segment.
LEMMA MarkedKeeps ==
    ASSUME NEW tb, WellFormed(tb), NEW segs, Stored(tb, segs)
    PROVE  LET new == Marked(tb, segs) IN
           WellFormed(new) /\ new.active = tb.active /\ Untouched(tb, new)
<1> DEFINE new == Marked(tb, segs)
<1>1. /\ WellFormed(new)
      /\ new.active = tb.active /\ new.count = tb.count /\ new.flushed = tb.flushed
      /\ new.rows = tb.rows /\ new.index = tb.index /\ new.wal = tb.wal
      /\ new.deleted = {l \in tb.deleted : l[1] \in segs \cup {tb.active}}
  BY MarkedIs
<1> HIDE DEF new
<1>2. new.deleted = tb.deleted
  BY <1>1 DEF Stored
<1>3. WellFormed(new) /\ new.active = tb.active /\ Untouched(tb, new)
  BY <1>1, <1>2 DEF Untouched
<1> QED
  BY <1>3 DEF new

\* Clean tables with the same parts.
LEMMA UntouchedClean ==
    ASSUME NEW tb, NEW new, new.active = tb.active, Untouched(tb, new),
           NEW segs, NEW m, NEW idx, NEW c, Clean(tb, segs, m, idx, c)
    PROVE  Clean(new, segs, m, idx, c)
<1>1. \A p : LiveOf(new, p) = LiveOf(tb, p)
  BY DEF LiveOf, Live, Untouched
<1>2. Keys(new, c)
  BY <1>1 DEF Clean, Keys, Untouched
<1>3. Stored(new, segs) /\ Counted(m, new.rows, segs)
  BY DEF Clean, Stored, Untouched
<1> QED
  BY <1>2, <1>3 DEF Clean, Untouched

\* Rows and tombstones are only added.
Extends(tb, new) ==
    /\ new.active = tb.active
    /\ DOMAIN tb.rows \subseteq DOMAIN new.rows
    /\ \A l \in DOMAIN tb.rows : new.rows[l] = tb.rows[l]
    /\ tb.deleted \subseteq new.deleted

\* In a clean table a key's row is found by the index.
LEMMA CleanLookup ==
    ASSUME NEW tb, NEW c, Keys(tb, c), NEW p \in PK, tb.index[p] # NoLoc
    PROVE  /\ Lookup(tb, p) = c[p]
           /\ tb.index[p] \in DOMAIN tb.rows /\ tb.rows[tb.index[p]].pk = p
           /\ tb.rows[tb.index[p]].val = c[p] /\ tb.index[p] \notin tb.deleted
<1>1. tb.index[p] \in LiveOf(tb, p) /\ tb.rows[tb.index[p]].val = c[p]
  BY DEF Keys
<1>2. /\ tb.index[p] \in DOMAIN tb.rows /\ tb.rows[tb.index[p]].pk = p
      /\ tb.index[p] \notin tb.deleted
  BY <1>1 DEF LiveOf, Live
<1> QED
  BY <1>1, <1>2 DEF Lookup

\* A row applied to a clean table.
LEMMA InsertClean ==
    ASSUME NEW tb, WellFormed(tb), NEW segs \in SUBSET Nat, NEW m, NEW idx \in Index,
           NEW c \in [PK -> Val \cup {NoVal}], Clean(tb, segs, m, idx, c), NEW p \in PK, NEW v \in Val
    PROVE  LET new == Insert(tb, p, v) IN
           /\ WellFormed(new) /\ Extends(tb, new)
           /\ Clean(new, segs, m, idx, [c EXCEPT ![p] = v])
<1> DEFINE new == Insert(tb, p, v)
           c2 == [c EXCEPT ![p] = v]
           x == <<tb.active, tb.count + 1>>
           e == InsertOp(p, v)
<1>1. /\ WellFormed(new) /\ new.active = tb.active
      /\ \/ tb.index[p] # NoLoc /\ Lookup(tb, p) = v /\ Untouched(tb, new)
         \/ (tb.index[p] = NoLoc \/ Lookup(tb, p) # v) /\ Appended(tb, new, p, v, x)
  BY InsertIs
<1>2. c2[p] = v /\ \A q \in PK : q # p => c2[q] = c[q]
  OBVIOUS
<1>3. /\ Stored(tb, segs) /\ Counted(m, tb.rows, segs) /\ Keys(tb, c)
      /\ Logged(tb.wal, idx, c, tb.rows, tb.deleted, segs, tb.active)
      /\ Ahead(tb.wal, idx, tb.rows, DOMAIN tb.rows)
  BY DEF Clean
<1>4. RowsOK(tb.rows) /\ tb.active \in Nat /\ tb.count \in Nat /\ tb.wal \in Seq(WalOp)
      /\ tb.index \in Index
  BY TableParts
<1> HIDE DEF new
<1>5. CASE tb.index[p] # NoLoc /\ Lookup(tb, p) = v /\ Untouched(tb, new)
  <2>1. c[p] = v
    BY <1>3, <1>5, CleanLookup
  <2>2. c2 = c
    BY <2>1
  <2>3. Extends(tb, new)
    BY <1>1, <1>5 DEF Extends, Untouched
  <2>4. Clean(new, segs, m, idx, c)
    BY <1>1, <1>5, UntouchedClean
  <2> QED
    BY <1>1, <2>2, <2>3, <2>4 DEF new
<1>6. CASE (tb.index[p] = NoLoc \/ Lookup(tb, p) # v) /\ Appended(tb, new, p, v, x)
  <2> HIDE DEF c2, x
  <2>1. /\ new.count = tb.count + 1
        /\ DOMAIN new.rows = DOMAIN tb.rows \cup {x} /\ new.rows[x] = [pk |-> p, val |-> v]
        /\ \A l \in DOMAIN tb.rows \ {x} : new.rows[l] = tb.rows[l]
        /\ new.deleted = tb.deleted \cup ({tb.index[p]} \ {NoLoc})
        /\ new.index = [tb.index EXCEPT ![p] = x]
        /\ new.wal = Append(tb.wal, e)
    BY <1>6 DEF Appended
  <2>2. DOMAIN new.rows \subseteq Loc
    BY <1>1, TableParts DEF RowsOK
  <2>3. tb.count = CountIn(tb.rows, tb.active) /\ x = <<tb.active, CountIn(tb.rows, tb.active) + 1>>
    BY <1>3 DEF Stored, x
  <2>4. /\ Dense(new.rows) /\ CountIn(new.rows, tb.active) = tb.count + 1
        /\ \A u \in Nat \ {tb.active} : CountIn(new.rows, u) = CountIn(tb.rows, u)
        /\ x \notin DOMAIN tb.rows
    <3>1. Dense(tb.rows)
      BY <1>3 DEF Stored
    <3>2. DOMAIN new.rows = DOMAIN tb.rows \cup {<<tb.active, CountIn(tb.rows, tb.active) + 1>>}
      BY <2>1, <2>3
    <3>3. /\ Dense(new.rows) /\ CountIn(new.rows, tb.active) = CountIn(tb.rows, tb.active) + 1
          /\ \A u \in Nat \ {tb.active} : CountIn(new.rows, u) = CountIn(tb.rows, u)
          /\ <<tb.active, CountIn(tb.rows, tb.active) + 1>> \notin DOMAIN tb.rows
      BY <1>4, <2>2, <3>1, <3>2, AppendDense
    <3> QED
      BY <2>3, <3>3
  <2>5. x[1] = tb.active /\ x \in Loc /\ x # NoLoc
    BY <1>4 DEF x, Loc, NoLoc
  <2>6. \A l \in DOMAIN tb.rows : new.rows[l] = tb.rows[l]
    BY <2>1, <2>4
  <2>7. Extends(tb, new)
    BY <1>1, <2>1, <2>6 DEF Extends
  <2>8. tb.index[p] # NoLoc => tb.index[p] \in DOMAIN tb.rows /\ tb.rows[tb.index[p]].pk = p
    BY <1>3, CleanLookup
  <2>9. new.deleted \subseteq DOMAIN tb.rows
    BY <1>3, <2>1, <2>8 DEF Stored
  <2>10. Stored(new, segs)
    <3>1. \A s \in segs : s < new.active /\ \E l \in DOMAIN new.rows : l[1] = s
      BY <1>1, <1>3, <2>1 DEF Stored
    <3>2. \A l \in DOMAIN new.rows : l[1] \in segs \/ l[1] = new.active
      BY <1>1, <1>3, <2>1, <2>5 DEF Stored
    <3>3. new.count = CountIn(new.rows, new.active)
      BY <1>1, <2>1, <2>4
    <3> QED
      BY <2>1, <2>4, <2>9, <3>1, <3>2, <3>3 DEF Stored
  <2>11. Counted(m, new.rows, segs)
    <3>1. \A s \in segs : s \in Nat /\ s # tb.active
      BY <1>3, <1>4 DEF Stored
    <3> QED
      BY <1>3, <2>4, <3>1 DEF Counted
  <2>12. Keys(new, c2)
    <3> SUFFICES ASSUME NEW q \in PK
                 PROVE  /\ LiveOf(new, q) \subseteq {new.index[q]}
                        /\ new.index[q] = NoLoc => c2[q] = NoVal
                        /\ new.index[q] # NoLoc => /\ new.index[q] \in LiveOf(new, q)
                                                   /\ new.rows[new.index[q]].val = c2[q]
      BY DEF Keys
    <3>1. CASE q = p
      <4>1. new.index[p] = x
        BY <1>4, <2>1 DEF Index
      <4>2. x \in LiveOf(new, p) /\ new.rows[x].val = v
        BY <2>1, <2>4, <2>9 DEF LiveOf, Live
      <4>3. ASSUME NEW l \in LiveOf(new, p) PROVE l = x
        <5>1. CASE l \in DOMAIN tb.rows
          <6>1. l \in LiveOf(tb, p)
            BY <2>1, <2>6, <5>1 DEF LiveOf, Live
          <6>2. l = tb.index[p]
            BY <1>3, <6>1 DEF Keys
          <6>3. l \in Loc /\ NoLoc \notin Loc
            BY <1>4, <5>1 DEF RowsOK, NoLoc, Loc
          <6>4. l \in new.deleted
            BY <2>1, <6>2, <6>3
          <6> QED
            BY <6>4 DEF LiveOf, Live
        <5>2. CASE l \notin DOMAIN tb.rows
          BY <2>1, <5>2 DEF LiveOf, Live
        <5> QED
          BY <5>1, <5>2
      <4> QED
        BY <1>2, <2>5, <3>1, <4>1, <4>2, <4>3 DEF c2
    <3>2. CASE q # p
      <4>1. new.index[q] = tb.index[q] /\ c2[q] = c[q]
        BY <1>2, <1>4, <2>1, <3>2 DEF Index, c2
      <4>2. ASSUME NEW l PROVE l \in LiveOf(new, q) <=> l \in LiveOf(tb, q)
        <5>1. CASE l \in DOMAIN tb.rows
          <6>1. new.rows[l] = tb.rows[l] /\ l \in DOMAIN new.rows
            BY <2>1, <2>6, <5>1
          <6>2. tb.rows[l].pk = q => (l \in new.deleted <=> l \in tb.deleted)
            BY <2>1, <2>8, <3>2
          <6> QED
            BY <5>1, <6>1, <6>2 DEF LiveOf, Live
        <5>2. CASE l \notin DOMAIN tb.rows
          <6>1. l \in DOMAIN new.rows => l = x
            BY <2>1, <5>2
          <6>2. new.rows[x].pk = p
            BY <2>1
          <6> QED
            BY <3>2, <5>2, <6>1, <6>2 DEF LiveOf, Live
        <5> QED
          BY <5>1, <5>2
      <4>3. /\ LiveOf(tb, q) \subseteq {tb.index[q]}
            /\ tb.index[q] = NoLoc => c[q] = NoVal
            /\ tb.index[q] # NoLoc => /\ tb.index[q] \in LiveOf(tb, q)
                                      /\ tb.rows[tb.index[q]].val = c[q]
        BY <1>3 DEF Keys
      <4>4. tb.index[q] # NoLoc => new.rows[tb.index[q]] = tb.rows[tb.index[q]]
        BY <2>6, <4>3 DEF LiveOf, Live
      <4> QED
        BY <4>1, <4>2, <4>3, <4>4
    <3> QED
      BY <3>1, <3>2
  <2>13. e \in WalOp /\ e.pk = p /\ e.val = v /\ e.op = "insert"
    BY DEF InsertOp, WalOp
  <2>14. \A l \in DOMAIN new.rows \ DOMAIN tb.rows : l[1] = tb.active
    BY <2>1, <2>5
  <2> HIDE DEF e
  <2>15. Logged(new.wal, idx, c2, new.rows, new.deleted, segs, tb.active)
    <3>1. \A l \in new.deleted \ tb.deleted : l \in DOMAIN tb.rows /\ tb.rows[l].pk = e.pk
      BY <2>1, <2>8, <2>13
    <3>2. DOMAIN tb.rows \subseteq DOMAIN new.rows
      BY <2>1
    <3>3. e.op = "delete" => Names(e.loc, e.pk, tb.rows, segs, tb.active)
      BY <2>13
    <3>4. e \in WalOp
      BY <2>13
    <3>5. Logged(Append(tb.wal, e), idx, [c EXCEPT ![e.pk] = e.val], new.rows, new.deleted, segs, tb.active)
      BY <1>3, <1>4, <2>6, <2>14, <3>1, <3>2, <3>3, <3>4, LoggedGrows
    <3> QED
      BY <2>1, <2>13, <3>5 DEF c2
  <2>16. Ahead(new.wal, idx, new.rows, DOMAIN new.rows)
    <3>1. ASSUME ~HasEntry(tb.wal, p), idx[p] \in DOMAIN tb.rows PROVE tb.rows[idx[p]].val # v
      <4>1. idx[p] # NoLoc
        BY <1>4, <3>1 DEF RowsOK, NoLoc, Loc
      <4>2. c[p] # NoVal /\ idx[p] \notin tb.deleted /\ Names(idx[p], p, tb.rows, segs, tb.active)
        BY <1>3, <3>1, <4>1 DEF Logged, IndexNames
      <4>3. idx[p] \in LiveOf(tb, p)
        BY <3>1, <4>2 DEF LiveOf, Live, Names
      <4>4. idx[p] = tb.index[p]
        BY <1>3, <4>3 DEF Keys
      <4>5. Lookup(tb, p) = c[p] /\ tb.rows[tb.index[p]].val = c[p]
        BY <1>3, <4>1, <4>4, CleanLookup
      <4> QED
        BY <1>6, <4>1, <4>4, <4>5
    <3>2. IndexNames(idx, tb.rows, segs, tb.active)
      BY <1>3 DEF Logged
    <3>3. DOMAIN tb.rows \subseteq Loc /\ DOMAIN tb.rows \subseteq DOMAIN new.rows
      BY <1>4, <2>1 DEF RowsOK
    <3>4. e.op = "insert" /\ ~HasEntry(tb.wal, e.pk) /\ idx[e.pk] \in DOMAIN tb.rows
             => tb.rows[idx[e.pk]].val # e.val
      BY <2>13, <3>1
    <3>5. e \in WalOp
      BY <2>13
    <3>6. Ahead(Append(tb.wal, e), idx, new.rows, DOMAIN new.rows)
      <4>1. Ahead(tb.wal, idx, tb.rows, DOMAIN tb.rows) /\ tb.wal \in Seq(WalOp) /\ tb.active \in Nat
        BY <1>3, <1>4
      <4> QED
        BY <2>2, <2>6, <2>14, <3>2, <3>3, <3>4, <3>5, <4>1, AheadGrows
    <3> QED
      BY <2>1, <3>6
  <2>17. Clean(new, segs, m, idx, c2)
    BY <1>1, <2>10, <2>11, <2>12, <2>15, <2>16 DEF Clean
  <2> QED
    BY <1>1, <2>7, <2>17 DEF new, c2
<1> QED
  BY <1>1, <1>5, <1>6

\* A key deleted from a clean table.
LEMMA DeleteClean ==
    ASSUME NEW tb, WellFormed(tb), NEW segs \in SUBSET Nat, NEW m, NEW idx \in Index,
           NEW c \in [PK -> Val \cup {NoVal}], Clean(tb, segs, m, idx, c), NEW p \in PK
    PROVE  LET new == Delete(tb, p) IN
           /\ WellFormed(new) /\ Extends(tb, new) /\ new.rows = tb.rows /\ new.count = tb.count
           /\ Clean(new, segs, m, idx, [c EXCEPT ![p] = NoVal])
<1> DEFINE new == Delete(tb, p)
           c2 == [c EXCEPT ![p] = NoVal]
           x == tb.index[p]
           e == DeleteOp(p, x)
<1>1. /\ WellFormed(new)
      /\ new.active = tb.active /\ new.count = tb.count /\ new.rows = tb.rows
      /\ x = NoLoc => new = tb
      /\ x # NoLoc =>
           /\ x \in Loc
           /\ new.deleted = tb.deleted \cup {x}
           /\ new.index = [tb.index EXCEPT ![p] = NoLoc]
           /\ new.wal = Append(tb.wal, e)
  <2>1. /\ WellFormed(new)
        /\ new.active = tb.active /\ new.count = tb.count /\ new.rows = tb.rows
        /\ tb.index[p] = NoLoc => new = tb
        /\ tb.index[p] # NoLoc => Removed(tb, new, p)
    BY DeleteIs
  <2> HIDE DEF new
  <2> QED
    BY <2>1 DEF Removed
<1>2. c2[p] = NoVal /\ \A q \in PK : q # p => c2[q] = c[q]
  OBVIOUS
<1>3. /\ Stored(tb, segs) /\ Counted(m, tb.rows, segs) /\ Keys(tb, c)
      /\ Logged(tb.wal, idx, c, tb.rows, tb.deleted, segs, tb.active)
      /\ Ahead(tb.wal, idx, tb.rows, DOMAIN tb.rows)
  BY DEF Clean
<1>4. RowsOK(tb.rows) /\ tb.active \in Nat /\ tb.count \in Nat /\ tb.wal \in Seq(WalOp)
      /\ tb.index \in Index
  BY TableParts
<1> HIDE DEF new
<1>5. CASE x = NoLoc
  <2>1. c[p] = NoVal
    BY <1>3, <1>5 DEF Keys
  <2>2. c2 = c
    BY <2>1
  <2>3. Extends(tb, new)
    BY <1>1, <1>5 DEF Extends
  <2> QED
    BY <1>1, <1>5, <2>2, <2>3 DEF new
<1>6. CASE x # NoLoc
  <2>1. x \in DOMAIN tb.rows /\ tb.rows[x].pk = p /\ x \notin tb.deleted
    BY <1>3, <1>6, CleanLookup
  <2> HIDE DEF c2, x
  <2>2. Extends(tb, new)
    BY <1>1, <1>6 DEF Extends
  <2>3. Stored(new, segs) /\ Counted(m, new.rows, segs)
    BY <1>1, <1>3, <1>6, <2>1 DEF Stored
  <2>4. Keys(new, c2)
    <3> SUFFICES ASSUME NEW q \in PK
                 PROVE  /\ LiveOf(new, q) \subseteq {new.index[q]}
                        /\ new.index[q] = NoLoc => c2[q] = NoVal
                        /\ new.index[q] # NoLoc => /\ new.index[q] \in LiveOf(new, q)
                                                   /\ new.rows[new.index[q]].val = c2[q]
      BY DEF Keys
    <3>1. /\ LiveOf(tb, q) \subseteq {tb.index[q]}
          /\ tb.index[q] = NoLoc => c[q] = NoVal
          /\ tb.index[q] # NoLoc => /\ tb.index[q] \in LiveOf(tb, q)
                                    /\ tb.rows[tb.index[q]].val = c[q]
      BY <1>3 DEF Keys
    <3>2. LiveOf(new, q) = LiveOf(tb, q) \ {x}
      BY <1>1, <1>6 DEF LiveOf, Live
    <3>3. CASE q = p
      <4>1. new.index[p] = NoLoc
        BY <1>1, <1>4, <1>6 DEF Index
      <4> QED
        BY <1>2, <3>1, <3>2, <3>3, <4>1 DEF c2, x
    <3>4. CASE q # p
      <4>1. new.index[q] = tb.index[q] /\ c2[q] = c[q]
        BY <1>1, <1>2, <1>4, <1>6, <3>4 DEF Index, c2
      <4>2. x \notin LiveOf(tb, q)
        BY <2>1, <3>4 DEF LiveOf
      <4> QED
        BY <1>1, <3>1, <3>2, <4>1, <4>2
    <3> QED
      BY <3>3, <3>4
  <2>5. e \in WalOp /\ e.pk = p /\ e.val = NoVal /\ e.op = "delete" /\ e.loc = x
    BY <1>1, <1>6 DEF DeleteOp, WalOp
  <2> HIDE DEF e
  <2>6. Logged(new.wal, idx, c2, tb.rows, new.deleted, segs, tb.active)
    <3>1. \A l \in new.deleted \ tb.deleted : l \in DOMAIN tb.rows /\ tb.rows[l].pk = e.pk
      BY <1>1, <1>6, <2>1, <2>5
    <3>2. Names(e.loc, e.pk, tb.rows, segs, tb.active)
      BY <2>1, <2>5 DEF Names
    <3>3. Logged(Append(tb.wal, e), idx, [c EXCEPT ![e.pk] = e.val], tb.rows, new.deleted, segs, tb.active)
      BY <1>3, <1>4, <2>5, <3>1, <3>2, LoggedGrows
    <3> QED
      BY <1>1, <1>6, <2>5, <3>3 DEF c2
  <2>7. Ahead(new.wal, idx, tb.rows, DOMAIN tb.rows)
    <3>1. IndexNames(idx, tb.rows, segs, tb.active)
      BY <1>3 DEF Logged
    <3>2. DOMAIN tb.rows \subseteq Loc
      BY <1>4 DEF RowsOK
    <3>3. Ahead(Append(tb.wal, e), idx, tb.rows, DOMAIN tb.rows)
      BY <1>3, <1>4, <2>5, <3>1, <3>2, AheadGrows
    <3> QED
      BY <1>1, <1>6, <3>3
  <2>8. Clean(new, segs, m, idx, c2)
    BY <1>1, <2>3, <2>4, <2>6, <2>7 DEF Clean
  <2> QED
    BY <1>1, <2>2, <2>8 DEF new, c2
<1> QED
  BY <1>5, <1>6

-----------------------------------------------------------------------------
(* Flushes *)

\* The directories hold nothing that the table does not.
Covered(d, tb, segs) ==
    /\ DOMAIN d.rows \subseteq DOMAIN tb.rows /\ \A l \in DOMAIN d.rows : d.rows[l] = tb.rows[l]
    /\ d.dead \subseteq tb.deleted
    /\ segs \subseteq d.dirs

\* A table at rest that grows by rows of its active segment stays within the
\* directories.
LEMMA RestCovers ==
    ASSUME NEW tb, NEW new, NEW segs, NEW d, AtRest(tb, segs, d), Extends(tb, new)
    PROVE  Covered(d, new, segs) /\ new.active \in d.dirs
<1> QED
  BY DEF AtRest, SameRows, Extends, Covered

\* The rows that a flush leaves on disk.
LEMMA FlushedRows ==
    ASSUME NEW tb, NEW segs, NEW d, Covered(d, tb, segs)
    PROVE  SameRows(Over(tb.rows, d.rows), tb.rows) /\ d.dead \cup tb.deleted = tb.deleted
<1>1. DOMAIN Over(tb.rows, d.rows) = DOMAIN tb.rows
  BY DEF Covered, Over
<1>2. \A l \in DOMAIN tb.rows : Over(tb.rows, d.rows)[l] = tb.rows[l]
  BY DEF Over
<1>3. d.dead \cup tb.deleted = tb.deleted
  BY DEF Covered
<1> QED
  BY <1>1, <1>2, <1>3 DEF SameRows

\* A flush.
LEMMA FlushRests ==
    ASSUME NEW tb, NEW segs, NEW d, DiskOK(d), Covered(d, tb, segs), tb.active \in d.dirs
    PROVE  LET new == Flushed(d, tb) IN
           AtRest(tb, segs, new) /\ new.segs = d.segs /\ new.active = d.active
<1> DEFINE new == Flushed(d, tb)
<1>1. /\ new.dirs = d.dirs /\ new.segs = d.segs /\ new.active = d.active
      /\ new.rows = Over(tb.rows, d.rows) /\ new.dead = d.dead \cup tb.deleted
  BY FlushedIs DEF DiskOK
<1> HIDE DEF new
<1>2. SameRows(new.rows, tb.rows) /\ new.dead = tb.deleted
  BY <1>1, FlushedRows
<1>3. AtRest(tb, segs, new) /\ new.segs = d.segs /\ new.active = d.active
  BY <1>1, <1>2 DEF AtRest, Covered
<1> QED
  BY <1>3 DEF new

\* Rows that are the same have the same counts.
LEMMA SameCounts ==
    ASSUME NEW rows, NEW other, SameRows(rows, other)
    PROVE  /\ \A s : CountIn(rows, s) = CountIn(other, s)
           /\ Dense(rows) <=> Dense(other)
<1> QED
  BY DEF SameRows, CountIn, Dense

\* Tables with the same rows, tombstones, index and log, and another active segment.
LEMMA SameClean ==
    ASSUME NEW tb, NEW new, SameRows(new.rows, tb.rows), new.deleted = tb.deleted,
           new.index = tb.index, new.wal = tb.wal, NEW c, Keys(tb, c), NEW idx
    PROVE  /\ Keys(new, c)
           /\ Ahead(tb.wal, idx, tb.rows, DOMAIN tb.rows) => Ahead(new.wal, idx, new.rows, DOMAIN new.rows)
<1>1. DOMAIN new.rows = DOMAIN tb.rows /\ \A l \in DOMAIN tb.rows : new.rows[l] = tb.rows[l]
  BY DEF SameRows
<1>2. \A p : LiveOf(new, p) = LiveOf(tb, p)
  BY <1>1 DEF LiveOf, Live
<1>3. \A p, l : l \in LiveOf(tb, p) => new.rows[l] = tb.rows[l]
  BY <1>1 DEF LiveOf, Live
<1>4. Keys(new, c)
  BY <1>2, <1>3 DEF Keys
<1>5. Ahead(tb.wal, idx, tb.rows, DOMAIN tb.rows) => Ahead(new.wal, idx, new.rows, DOMAIN new.rows)
  BY <1>1 DEF Ahead
<1> QED
  BY <1>4, <1>5

\* The log is judged by the rows, not by where they are kept.
LEMMA SameLogged ==
    ASSUME NEW w, NEW idx, NEW c, NEW rows, NEW dead, NEW segs, NEW top,
           Logged(w, idx, c, rows, dead, segs, top), NEW new, SameRows(new, rows),
           NEW segs2, NEW top2, \A x : Gone(x, segs, top) => Gone(x, segs2, top2)
    PROVE  Logged(w, idx, c, new, dead, segs2, top2)
<1>1. DOMAIN new = DOMAIN rows /\ \A l \in DOMAIN rows : new[l] = rows[l]
  BY DEF SameRows
<1>2. \A x, p : Names(x, p, rows, segs, top) => Names(x, p, new, segs2, top2)
  BY <1>1 DEF Names
<1>3. \A i \in 1 .. Len(w) : w[i].op = "delete" => Names(w[i].loc, w[i].pk, new, segs2, top2)
  BY <1>2 DEF Logged
<1>4. IndexNames(idx, new, segs2, top2)
  BY <1>2 DEF Logged, IndexNames
<1> QED
  BY <1>1, <1>3, <1>4 DEF Logged

\* flush_active_segment of a segment with rows.
LEMMA SealClean ==
    ASSUME NEW tb, WellFormed(tb), NEW d, DiskOK(d), NEW segs \in SUBSET Nat,
           NEW m, DOMAIN m \subseteq Nat, NEW idx, NEW c, Clean(tb, segs, m, idx, c),
           Covered(d, tb, segs), tb.count # 0
    PROVE  LET d2 == Sealed(d, tb, m)
               t2 == Activate(tb, d2)
               s2 == segs \cup {tb.active} IN
           /\ Clean(t2, s2, d2.segs, idx, c) /\ AtRest(t2, s2, d2)
           /\ t2.active = d2.active /\ t2.count = 0
<1> DEFINE d2 == Sealed(d, tb, m)
           t2 == Activate(tb, d2)
           s2 == segs \cup {tb.active}
           a == tb.active
<1>1. /\ DiskOK(d2)
      /\ d2.dirs = d.dirs \cup {a, a + 1}
      /\ d2.rows = Over(tb.rows, d.rows) /\ d2.dead = d.dead \cup tb.deleted
      /\ d2.segs = Listing(m, tb, {a}) /\ d2.active = a + 1
  <2>1. DiskOK(d2)
    BY SealedIs
  <2> QED
    BY <2>1 DEF Sealed, Flushed, DiskOK
<1> HIDE DEF d2
<1>2. /\ WellFormed(t2)
      /\ t2.active = d2.active /\ t2.count = CountIn(d2.rows, d2.active)
      /\ t2.rows = Over(tb.rows, Within(d2.rows, {d2.active}))
      /\ t2.deleted = tb.deleted \cup {l \in d2.dead : l[1] = d2.active}
      /\ t2.index = tb.index /\ t2.wal = tb.wal
  BY <1>1, ActivateIs
<1> HIDE DEF t2
<1>3. /\ Stored(tb, segs) /\ Counted(m, tb.rows, segs) /\ Keys(tb, c)
      /\ Logged(tb.wal, idx, c, tb.rows, tb.deleted, segs, a)
      /\ Ahead(tb.wal, idx, tb.rows, DOMAIN tb.rows)
  BY DEF Clean
<1>4. RowsOK(tb.rows) /\ a \in Nat /\ tb.count \in Nat
  BY TableParts
<1>5. SameRows(d2.rows, tb.rows) /\ d2.dead = tb.deleted
  BY <1>1, FlushedRows
<1>6. \A l \in DOMAIN tb.rows : l[1] # a + 1 /\ (l[1] \in segs \/ l[1] = a)
  BY <1>3, <1>4 DEF Stored
<1>7. SameRows(t2.rows, tb.rows)
  <2>1. DOMAIN Within(d2.rows, {d2.active}) = {}
    BY <1>1, <1>5, <1>6 DEF Within, SameRows
  <2>2. DOMAIN t2.rows = DOMAIN tb.rows
    BY <1>2, <2>1 DEF Over
  <2>3. \A l \in DOMAIN tb.rows : t2.rows[l] = tb.rows[l]
    BY <1>2 DEF Over
  <2> QED
    BY <2>2, <2>3 DEF SameRows
<1>8. t2.deleted = tb.deleted
  BY <1>1, <1>2, <1>5, <1>6 DEF Stored
<1>9. \A s : CountIn(t2.rows, s) = CountIn(tb.rows, s)
  BY <1>7, SameCounts
<1>10. t2.count = 0 /\ CountIn(t2.rows, a + 1) = 0
  <2>1. {l \in DOMAIN tb.rows : l[1] = a + 1} = {}
    BY <1>6
  <2>2. CountIn(tb.rows, a + 1) = 0
    BY <2>1, FS_EmptySet DEF CountIn
  <2>3. CountIn(d2.rows, a + 1) = CountIn(tb.rows, a + 1)
    BY <1>5, SameCounts
  <2> QED
    BY <1>1, <1>2, <1>9, <2>2, <2>3
<1>11. \E l \in DOMAIN tb.rows : l[1] = a
  <2>1. <<a, 1>> \in Loc /\ <<a, 1>>[1] = a /\ <<a, 1>>[2] = 1
    BY <1>4 DEF Loc
  <2>2. 1 <= CountIn(tb.rows, a)
    BY <1>3, <1>4 DEF Stored
  <2>3. <<a, 1>> \in DOMAIN tb.rows
    BY <1>3, <1>4, <2>1, <2>2, DenseCount DEF Stored
  <2> QED
    BY <2>1, <2>3
<1>12. Stored(t2, s2)
  <2>1. Dense(t2.rows)
    BY <1>3, <1>7, SameCounts DEF Stored
  <2>2. t2.count = CountIn(t2.rows, t2.active)
    BY <1>1, <1>2, <1>10
  <2>3. ASSUME NEW s \in s2 PROVE s < t2.active /\ \E l \in DOMAIN t2.rows : l[1] = s
    <3>1. s < a + 1
      BY <1>3, <1>4 DEF Stored
    <3>2. \E l \in DOMAIN tb.rows : l[1] = s
      <4>1. CASE s = a
        BY <1>11, <4>1
      <4>2. CASE s # a
        BY <1>3, <4>2 DEF Stored
      <4> QED
        BY <4>1, <4>2
    <3> QED
      BY <1>1, <1>2, <1>7, <3>1, <3>2 DEF SameRows
  <2>4. \A l \in DOMAIN t2.rows : l[1] \in s2 \/ l[1] = t2.active
    BY <1>6, <1>7 DEF SameRows
  <2>5. t2.deleted \subseteq DOMAIN t2.rows
    BY <1>3, <1>7, <1>8 DEF Stored, SameRows
  <2> QED
    BY <2>1, <2>2, <2>3, <2>4, <2>5 DEF Stored
<1>13. Counted(d2.segs, t2.rows, s2)
  <2>1. /\ DOMAIN Listing(m, tb, {a}) = DOMAIN m \cup {a}
        /\ \A s \in {a} : Listing(m, tb, {a})[s] = CountIn(tb.rows, s)
        /\ \A s \in DOMAIN m \ {a} : Listing(m, tb, {a})[s] = m[s]
    BY DEF Listing, Over
  <2> QED
    BY <1>1, <1>3, <1>9, <2>1 DEF Counted
<1>14. Keys(t2, c) /\ Ahead(t2.wal, idx, t2.rows, DOMAIN t2.rows)
  BY <1>2, <1>3, <1>7, <1>8, SameClean
<1>15. Logged(t2.wal, idx, c, t2.rows, t2.deleted, s2, t2.active)
  <2>1. ASSUME NEW x, Gone(x, segs, a) PROVE Gone(x, s2, a + 1)
    <3>1. x \in Loc /\ x[1] \in Nat /\ x[1] < a /\ x[1] \notin segs
      BY <2>1 DEF Gone, Loc
    <3>2. x[1] < a + 1 /\ x[1] # a
      BY <1>4, <3>1
    <3> QED
      BY <3>1, <3>2 DEF Gone
  <2>2. Logged(tb.wal, idx, c, t2.rows, tb.deleted, s2, a + 1)
    BY <1>3, <1>7, <2>1, SameLogged
  <2> QED
    BY <1>1, <1>2, <1>8, <2>2
<1>16. Clean(t2, s2, d2.segs, idx, c)
  BY <1>12, <1>13, <1>14, <1>15 DEF Clean
<1>17. AtRest(t2, s2, d2)
  <2>1. SameRows(d2.rows, t2.rows)
    BY <1>5, <1>7 DEF SameRows
  <2>2. s2 \cup {t2.active} \subseteq d2.dirs
    BY <1>1, <1>2 DEF Covered
  <2> QED
    BY <1>5, <1>8, <2>1, <2>2 DEF AtRest
<1>18. /\ Clean(t2, s2, d2.segs, idx, c) /\ AtRest(t2, s2, d2)
       /\ t2.active = d2.active /\ t2.count = 0
  BY <1>2, <1>10, <1>16, <1>17
<1> QED
  BY <1>18 DEF t2, d2

\* flush_active_segment leaves a clean table with an empty active segment.
LEMMA FlushActiveClean ==
    ASSUME NEW tb, WellFormed(tb), DiskOK(disk), sealed \subseteq Nat, DOMAIN listed \subseteq Nat,
           NEW c, Clean(tb, sealed, listed, idxFile, c), Covered(disk, tb, sealed),
           tb.active \in disk.dirs, Named(tb, sealed, listed, disk), FlushActiveSegment(tb)
    PROVE  /\ Clean(t', sealed', listed', idxFile, c) /\ AtRest(t', sealed', disk')
           /\ Named(t', sealed', listed', disk') /\ t'.count = 0
<1>1. CASE tb.count = 0
  <2>1. disk' = Flushed(disk, tb) /\ t' = tb /\ sealed' = sealed /\ listed' = listed
    BY <1>1 DEF FlushActiveSegment
  <2>2. AtRest(tb, sealed, disk') /\ disk'.segs = disk.segs /\ disk'.active = disk.active
    BY <2>1, FlushRests
  <2>3. Named(tb, sealed, listed, disk')
    BY <2>2 DEF Named
  <2> QED
    BY <1>1, <2>1, <2>2, <2>3
<1>2. CASE tb.count # 0
  <2>1. /\ disk' = Sealed(disk, tb, listed) /\ listed' = disk'.segs
        /\ sealed' = sealed \cup {tb.active} /\ t' = Activate(tb, disk')
    BY <1>2 DEF FlushActiveSegment
  <2> DEFINE d2 == Sealed(disk, tb, listed)
             t2 == Activate(tb, d2)
             s2 == sealed \cup {tb.active}
  <2>2. /\ Clean(t2, s2, d2.segs, idxFile, c) /\ AtRest(t2, s2, d2)
        /\ t2.active = d2.active /\ t2.count = 0
    BY <1>2, SealClean
  <2>3. disk' = d2 /\ t' = t2 /\ sealed' = s2 /\ listed' = d2.segs
    BY <2>1
  <2> HIDE DEF d2, t2, s2
  <2>4. Named(t', sealed', listed', disk')
    BY <2>2, <2>3 DEF Named
  <2> QED
    BY <2>2, <2>3, <2>4
<1> QED
  BY <1>1, <1>2

-----------------------------------------------------------------------------
(* Recovery: the replay of the log over the rows on disk *)

\* The tables that replay_wal passes through: the rows of the segments rows0 are
\* kept, new ones are in the active segment top, and tombstones are of rows or of
\* segments that are gone.
Replaying(tb, rows0, segs, top) ==
    /\ WellFormed(tb) /\ Dense(tb.rows) /\ tb.count = CountIn(tb.rows, tb.active) /\ tb.active = top
    /\ DOMAIN rows0 \subseteq DOMAIN tb.rows /\ \A l \in DOMAIN rows0 : tb.rows[l] = rows0[l]
    /\ \A l \in DOMAIN tb.rows \ DOMAIN rows0 : l[1] = top
    /\ \A l \in DOMAIN tb.rows : l[1] \in segs \/ l[1] = top
    /\ \A s \in segs : s < top
    /\ \A l \in tb.deleted : l \in DOMAIN tb.rows \/ Gone(l, segs, top)
    /\ IndexNames(tb.index, tb.rows, segs, top)

\* What an entry does to the other keys, ...
OthersKept(tb, new, q) ==
    \A p \in PK : p # q =>
        /\ new.index[p] = tb.index[p] /\ LiveOf(new, p) = LiveOf(tb, p)
        /\ \A l \in LiveOf(tb, p) : new.rows[l] = tb.rows[l]

\* ... and to its own.
Inserted(tb, new, q, v) ==
    /\ new.index[q] \in LiveOf(new, q) /\ new.rows[new.index[q]].val = v
    /\ \A l \in DOMAIN tb.rows : Newer(new.index[q], l)
    /\ LiveOf(new, q) \subseteq (LiveOf(tb, q) \ {tb.index[q]}) \cup {new.index[q]}
    /\ LiveOf(new, q) \ {new.index[q]} \subseteq DOMAIN tb.rows
Erased(tb, new, q) ==
    new.index[q] = NoLoc /\ LiveOf(new, q) \subseteq LiveOf(tb, q) \ {tb.index[q]}

\* The live rows of other keys, when one key's rows are tombstoned and one appended.
LEMMA OthersLive ==
    ASSUME NEW tb, NEW new, NEW segs, NEW top, NEW q,
           DOMAIN tb.rows \subseteq DOMAIN new.rows, \A l \in DOMAIN tb.rows : new.rows[l] = tb.rows[l],
           \A l \in DOMAIN new.rows \ DOMAIN tb.rows : new.rows[l].pk = q,
           tb.deleted \subseteq new.deleted,
           \A l \in new.deleted \ tb.deleted : Names(l, q, tb.rows, segs, top),
           \A p \in PK : p # q => new.index[p] = tb.index[p]
    PROVE  OthersKept(tb, new, q)
<1> SUFFICES ASSUME NEW p \in PK, p # q
             PROVE  /\ new.index[p] = tb.index[p] /\ LiveOf(new, p) = LiveOf(tb, p)
                    /\ \A l \in LiveOf(tb, p) : new.rows[l] = tb.rows[l]
  BY DEF OthersKept
<1>1. ASSUME NEW l \in LiveOf(new, p) PROVE l \in LiveOf(tb, p)
  <2>1. l \in DOMAIN new.rows /\ l \notin new.deleted /\ new.rows[l].pk = p
    BY DEF LiveOf, Live
  <2>2. l \in DOMAIN tb.rows /\ l \notin tb.deleted
    BY <2>1
  <2> QED
    BY <2>1, <2>2 DEF LiveOf, Live
<1>2. ASSUME NEW l \in LiveOf(tb, p) PROVE l \in LiveOf(new, p) /\ new.rows[l] = tb.rows[l]
  <2>1. l \in DOMAIN tb.rows /\ l \notin tb.deleted /\ tb.rows[l].pk = p
    BY DEF LiveOf, Live
  <2>2. l \notin new.deleted
    BY <2>1 DEF Names
  <2> QED
    BY <2>1, <2>2 DEF LiveOf, Live
<1> QED
  BY <1>1, <1>2

\* A replayed Insert.
LEMMA ReplayInsert ==
    ASSUME NEW tb, NEW rows0, NEW segs \in SUBSET Nat, NEW top \in Nat, Replaying(tb, rows0, segs, top),
           NEW q \in PK, NEW v \in Val
    PROVE  LET new == Insert(tb, q, v) IN
           /\ Replaying(new, rows0, segs, top) /\ OthersKept(tb, new, q)
           /\ tb.deleted \subseteq new.deleted
           /\ \/ tb.index[q] # NoLoc /\ Lookup(tb, q) = v /\ Untouched(tb, new)
              \/ Inserted(tb, new, q, v)
<1> DEFINE new == Insert(tb, q, v)
           x == <<tb.active, tb.count + 1>>
<1>1. /\ WellFormed(tb) /\ Dense(tb.rows) /\ tb.count = CountIn(tb.rows, tb.active) /\ tb.active = top
      /\ DOMAIN rows0 \subseteq DOMAIN tb.rows /\ \A l \in DOMAIN rows0 : tb.rows[l] = rows0[l]
      /\ \A l \in DOMAIN tb.rows \ DOMAIN rows0 : l[1] = top
      /\ \A l \in DOMAIN tb.rows : l[1] \in segs \/ l[1] = top
      /\ \A s \in segs : s < top
      /\ \A l \in tb.deleted : l \in DOMAIN tb.rows \/ Gone(l, segs, top)
      /\ IndexNames(tb.index, tb.rows, segs, top)
  BY DEF Replaying
<1>2. RowsOK(tb.rows) /\ tb.count \in Nat /\ tb.index \in Index
  BY <1>1, TableParts
<1>3. /\ WellFormed(new) /\ new.active = tb.active
      /\ \/ tb.index[q] # NoLoc /\ Lookup(tb, q) = v /\ Untouched(tb, new)
         \/ (tb.index[q] = NoLoc \/ Lookup(tb, q) # v) /\ Appended(tb, new, q, v, x)
  BY <1>1, InsertIs
<1> HIDE DEF new
<1>4. CASE tb.index[q] # NoLoc /\ Lookup(tb, q) = v /\ Untouched(tb, new)
  <2>1. Replaying(new, rows0, segs, top)
    BY <1>1, <1>3, <1>4 DEF Replaying, Untouched
  <2>2. OthersKept(tb, new, q)
    BY <1>4 DEF OthersKept, Untouched, LiveOf, Live
  <2> QED
    BY <1>4, <2>1, <2>2 DEF new, Untouched
<1>5. CASE (tb.index[q] = NoLoc \/ Lookup(tb, q) # v) /\ Appended(tb, new, q, v, x)
  <2> HIDE DEF x
  <2>1. /\ new.count = tb.count + 1
        /\ DOMAIN new.rows = DOMAIN tb.rows \cup {x} /\ new.rows[x] = [pk |-> q, val |-> v]
        /\ \A l \in DOMAIN tb.rows \ {x} : new.rows[l] = tb.rows[l]
        /\ new.deleted = tb.deleted \cup ({tb.index[q]} \ {NoLoc})
        /\ new.index = [tb.index EXCEPT ![q] = x]
    BY <1>5 DEF Appended
  <2>2. DOMAIN new.rows \subseteq Loc
    BY <1>3, TableParts DEF RowsOK
  <2>3. x = <<top, CountIn(tb.rows, top) + 1>>
    BY <1>1 DEF x
  <2>4. /\ Dense(new.rows) /\ CountIn(new.rows, top) = tb.count + 1
        /\ x \notin DOMAIN tb.rows
    <3>1. DOMAIN new.rows = DOMAIN tb.rows \cup {<<top, CountIn(tb.rows, top) + 1>>}
      BY <2>1, <2>3
    <3>2. /\ Dense(new.rows) /\ CountIn(new.rows, top) = CountIn(tb.rows, top) + 1
          /\ <<top, CountIn(tb.rows, top) + 1>> \notin DOMAIN tb.rows
      BY <1>1, <1>2, <2>2, <3>1, AppendDense
    <3> QED
      BY <1>1, <2>3, <3>2
  <2>5. x[1] = top /\ x[2] = tb.count + 1 /\ x \in Loc /\ x # NoLoc
    BY <1>1, <1>2 DEF x, Loc, NoLoc
  <2>6. \A l \in DOMAIN tb.rows : new.rows[l] = tb.rows[l]
    BY <2>1, <2>4
  <2>7. new.index[q] = x /\ \A p \in PK : p # q => new.index[p] = tb.index[p]
    BY <1>2, <2>1 DEF Index
  <2>8. \A l \in new.deleted \ tb.deleted : Names(l, q, tb.rows, segs, top)
    BY <1>1, <2>1 DEF IndexNames
  <2>9. ASSUME NEW l \in new.deleted PROVE l \in DOMAIN tb.rows \/ Gone(l, segs, top)
    BY <1>1, <2>8 DEF Names
  <2>10. x \notin new.deleted
    <3>1. ~Gone(x, segs, top)
      BY <2>5 DEF Gone
    <3> QED
      BY <2>4, <2>9, <3>1
  <2>11. \A l \in DOMAIN new.rows \ DOMAIN tb.rows : l[1] = top /\ new.rows[l].pk = q
    BY <2>1, <2>5
  <2>12. IndexNames(new.index, new.rows, segs, top)
    <3> SUFFICES ASSUME NEW p \in PK, new.index[p] # NoLoc
                 PROVE  Names(new.index[p], p, new.rows, segs, top)
      BY DEF IndexNames
    <3>1. CASE p = q
      BY <2>1, <2>7, <3>1 DEF Names
    <3>2. CASE p # q
      <4>1. Names(tb.index[p], p, tb.rows, segs, top)
        BY <1>1, <2>7, <3>2 DEF IndexNames
      <4>2. DOMAIN tb.rows \subseteq DOMAIN new.rows /\ \A l \in DOMAIN new.rows \ DOMAIN tb.rows : l[1] = top
        BY <2>1, <2>11
      <4>3. Names(tb.index[p], p, new.rows, segs, top)
        BY <2>6, <4>1, <4>2, NamesKept
      <4> QED
        BY <2>7, <3>2, <4>3
    <3> QED
      BY <3>1, <3>2
  <2>13. Replaying(new, rows0, segs, top)
    <3>1. DOMAIN rows0 \subseteq DOMAIN new.rows /\ \A l \in DOMAIN rows0 : new.rows[l] = rows0[l]
      BY <1>1, <2>1, <2>6
    <3>2. \A l \in DOMAIN new.rows \ DOMAIN rows0 : l[1] = top
      BY <1>1, <2>1, <2>5
    <3>3. \A l \in DOMAIN new.rows : l[1] \in segs \/ l[1] = top
      BY <1>1, <2>1, <2>5
    <3>4. \A l \in new.deleted : l \in DOMAIN new.rows \/ Gone(l, segs, top)
      BY <2>1, <2>9
    <3> QED
      BY <1>1, <1>3, <2>1, <2>4, <2>12, <3>1, <3>2, <3>3, <3>4 DEF Replaying
  <2>14. OthersKept(tb, new, q)
    <3>1. DOMAIN tb.rows \subseteq DOMAIN new.rows /\ tb.deleted \subseteq new.deleted
      BY <2>1
    <3> QED
      BY <2>6, <2>7, <2>8, <2>11, <3>1, OthersLive
  <2>15. Inserted(tb, new, q, v)
    <3>1. x \in LiveOf(new, q) /\ new.rows[x].val = v
      BY <2>1, <2>10 DEF LiveOf, Live
    <3>2. ASSUME NEW l \in DOMAIN tb.rows PROVE Newer(x, l)
      <4>1. l \in Loc /\ l[1] \in Nat /\ l[2] \in Nat
        BY <1>2 DEF RowsOK, Loc
      <4>2. CASE l[1] = top
        <5>1. l[2] <= tb.count
          BY <1>1, <1>2, <4>1, <4>2, DenseCount
        <5> QED
          BY <1>2, <2>5, <4>1, <4>2, <5>1 DEF Newer
      <4>3. CASE l[1] # top
        <5>1. l[1] < top
          BY <1>1, <4>3
        <5> QED
          BY <2>5, <5>1 DEF Newer
      <4> QED
        BY <4>2, <4>3
    <3>3. ASSUME NEW l \in LiveOf(new, q), l # x PROVE l \in LiveOf(tb, q) \ {tb.index[q]} /\ l \in DOMAIN tb.rows
      <4>1. l \in DOMAIN tb.rows /\ l \notin new.deleted /\ new.rows[l].pk = q
        BY <2>1, <3>3 DEF LiveOf, Live
      <4>2. l \in LiveOf(tb, q)
        BY <2>1, <2>6, <4>1 DEF LiveOf, Live
      <4>3. l # NoLoc
        BY <1>2, <4>1 DEF RowsOK, Loc, NoLoc
      <4> QED
        BY <2>1, <4>1, <4>2, <4>3
    <3> QED
      BY <2>7, <3>1, <3>2, <3>3 DEF Inserted
  <2>16. tb.deleted \subseteq new.deleted
    BY <2>1
  <2> QED
    BY <2>13, <2>14, <2>15, <2>16 DEF new
<1> QED
  BY <1>3, <1>4, <1>5

\* A replayed Delete.
LEMMA ReplayDelete ==
    ASSUME NEW tb, NEW rows0, NEW segs \in SUBSET Nat, NEW top \in Nat, Replaying(tb, rows0, segs, top),
           NEW op \in WalOp, op.op = "delete", Names(op.loc, op.pk, tb.rows, segs, top)
    PROVE  LET new == Replay(tb, op) IN
           /\ Replaying(new, rows0, segs, top) /\ OthersKept(tb, new, op.pk)
           /\ tb.deleted \subseteq new.deleted
           /\ Erased(tb, new, op.pk)
<1> DEFINE new == Replay(tb, op)
           q == op.pk
<1>1. q \in PK /\ op.loc \in Loc
  BY DEF WalOp
<1>2. /\ WellFormed(tb) /\ Dense(tb.rows) /\ tb.count = CountIn(tb.rows, tb.active) /\ tb.active = top
      /\ \A l \in tb.deleted : l \in DOMAIN tb.rows \/ Gone(l, segs, top)
      /\ IndexNames(tb.index, tb.rows, segs, top)
  BY DEF Replaying
<1>3. RowsOK(tb.rows) /\ tb.index \in Index
  BY <1>2, TableParts
<1>4. WellFormed(new)
  BY <1>2, ReplayGrown DEF Grown
<1>5. /\ new.active = tb.active /\ new.count = tb.count /\ new.rows = tb.rows
      /\ new.deleted = tb.deleted \cup ({op.loc, tb.index[q]} \ {NoLoc})
      /\ new.index = [tb.index EXCEPT ![q] = NoLoc]
  BY <1>2 DEF Replay, WellFormed, IsTable
<1> HIDE DEF new
<1>6. new.index[q] = NoLoc /\ \A p \in PK : p # q => new.index[p] = tb.index[p]
  BY <1>1, <1>3, <1>5 DEF Index
<1>7. \A l \in new.deleted \ tb.deleted : Names(l, q, tb.rows, segs, top)
  <2>1. tb.index[q] # NoLoc => Names(tb.index[q], q, tb.rows, segs, top)
    BY <1>1, <1>2 DEF IndexNames
  <2> QED
    BY <1>5, <2>1
<1>8. Replaying(new, rows0, segs, top)
  <2>1. \A l \in new.deleted : l \in DOMAIN new.rows \/ Gone(l, segs, top)
    BY <1>2, <1>5, <1>7 DEF Names
  <2>2. IndexNames(new.index, new.rows, segs, top)
    BY <1>2, <1>5, <1>6 DEF IndexNames
  <2> QED
    BY <1>2, <1>4, <1>5, <2>1, <2>2 DEF Replaying
<1>9. OthersKept(tb, new, q)
  BY <1>5, <1>6, <1>7, OthersLive
<1>10. Erased(tb, new, q)
  <2>1. ASSUME NEW l \in LiveOf(new, q) PROVE l \in LiveOf(tb, q) /\ l # tb.index[q]
    <3>1. l \in DOMAIN tb.rows /\ l \notin new.deleted /\ tb.rows[l].pk = q
      BY <1>5 DEF LiveOf, Live
    <3>2. l # NoLoc
      BY <1>3, <3>1 DEF RowsOK, Loc, NoLoc
    <3> QED
      BY <1>5, <3>1, <3>2 DEF LiveOf, Live
  <2> QED
    BY <1>6, <2>1 DEF Erased
<1>11. tb.deleted \subseteq new.deleted
  BY <1>5
<1> QED
  BY <1>8, <1>9, <1>10, <1>11 DEF new

\* The rows of a key that have no tombstone on disk.
OnDisk(rows0, dead0, p) == {l \in DOMAIN rows0 \ dead0 : rows0[l].pk = p}

\* The index names the row, and reconcile_orphan_rows will choose it.
Current(tb, p, v) ==
    /\ tb.index[p] \in LiveOf(tb, p) /\ tb.rows[tb.index[p]].val = v
    /\ \A l \in LiveOf(tb, p) \ {tb.index[p]} : Newer(tb.index[p], l)

\* A key after k entries of the log: live are rows that were on disk, and the one the
\* index names; the last entry decides about that one.
KeyState(tb, p, w, k, idx, rows0, dead0) ==
    /\ LiveOf(tb, p) \subseteq OnDisk(rows0, dead0, p) \cup {tb.index[p]}
    /\ (\A i \in 1 .. k : w[i].pk # p) =>
           LiveOf(tb, p) = OnDisk(rows0, dead0, p) /\ tb.index[p] = idx[p]
    /\ \A i \in 1 .. k : w[i].pk = p /\ (\A j \in 1 .. k : j > i => w[j].pk # p) =>
           /\ w[i].op = "insert" => Current(tb, p, w[i].val)
           /\ w[i].op = "delete" => tb.index[p] = NoLoc

\* What the log is replayed over: idx is primary.idx, synced the index that
\* sync_primary_index_to_active_bitmaps makes of it.
Recoverable(w, idx, synced, rows0, dead0, segs, top) ==
    /\ \A p \in PK : \A l, m \in OnDisk(rows0, dead0, p) : l = m
    /\ \A p \in PK : \/ synced[p] = idx[p]
                     \/ idx[p] = NoLoc /\ synced[p] \in OnDisk(rows0, dead0, p)
    /\ IndexNames(idx, rows0, segs, top)
    /\ \A i \in 1 .. Len(w) : w[i].op = "delete" => Names(w[i].loc, w[i].pk, rows0, segs, top)
    /\ Ahead(w, idx, rows0, dead0)

\* The last of the first k entries that is about a key.
LastBy(w, k, p, i) == i \in 1 .. k /\ w[i].pk = p /\ \A j \in 1 .. k : j > i => w[j].pk # p

\* A key that the log mentions has a last entry.
LEMMA LastEntry ==
    ASSUME NEW w, NEW k \in Nat, NEW i0 \in 1 .. k, NEW p, w[i0].pk = p
    PROVE  \E i : LastBy(w, k, p, i)
<1> DEFINE E == {i \in 1 .. k : w[i].pk = p}
<1>1. E \in SUBSET Nat /\ E # {} /\ \A i \in E : i <= k
  OBVIOUS
<1>2. PICK i \in E : \A j \in E : j <= i
  <2> HIDE DEF E
  <2> QED
    BY <1>1, GreatestNat
<1>3. \A j \in 1 .. k : j > i => w[j].pk # p
  BY <1>2
<1> QED
  BY <1>3 DEF LastBy

\* A replayed Insert is passed over only when the index names a live row of this
\* content, which no other row of the key is newer than.
LEMMA NoOpIsCurrent ==
    ASSUME NEW tb, NEW rows0, NEW dead0, NEW segs \in SUBSET Nat, NEW top \in Nat,
           Replaying(tb, rows0, segs, top),
           NEW w \in Seq(WalOp), NEW idx, NEW synced, Recoverable(w, idx, synced, rows0, dead0, segs, top),
           NEW k \in 1 .. Len(w), w[k].op = "insert",
           NEW q, q = w[k].pk, KeyState(tb, q, w, k - 1, synced, rows0, dead0),
           tb.index[q] # NoLoc, Lookup(tb, q) = w[k].val
    PROVE  Current(tb, q, w[k].val)
<1>1. Len(w) \in Nat /\ w[k] \in WalOp
  OBVIOUS
<1>2. q \in PK /\ w[k].val \in Val /\ w[k].val # NoVal
  BY <1>1, ValuesDistinct DEF WalOp
<1>3. tb.index[q] \in DOMAIN tb.rows /\ tb.rows[tb.index[q]].pk = q /\ tb.rows[tb.index[q]].val = w[k].val
  BY <1>2 DEF Lookup
<1>4. CASE \A i \in 1 .. k - 1 : w[i].pk # q
  <2>1. LiveOf(tb, q) = OnDisk(rows0, dead0, q) /\ tb.index[q] = synced[q]
    BY <1>4 DEF KeyState
  <2>2. tb.index[q] \in OnDisk(rows0, dead0, q)
    <3>1. CASE synced[q] = idx[q]
      <4>1. Names(idx[q], q, rows0, segs, top)
        BY <1>2, <2>1, <3>1 DEF Recoverable, IndexNames
      <4>2. idx[q] \in DOMAIN rows0
        <5>1. ASSUME idx[q] \notin DOMAIN rows0 PROVE FALSE
          <6>1. idx[q][1] = top
            BY <1>3, <2>1, <3>1, <5>1 DEF Replaying
          <6>2. idx[q][1] < top
            BY <4>1, <5>1 DEF Names, Gone
          <6> QED
            BY <6>1, <6>2
        <5> QED
          BY <5>1
      <4>3. rows0[idx[q]] = tb.rows[idx[q]]
        BY <4>2 DEF Replaying
      <4>4. FirstOf(w, k)
        <5>1. \A j \in 1 .. Len(w) : j < k => j \in 1 .. k - 1
          BY <1>1
        <5> QED
          BY <1>4, <5>1 DEF FirstOf
      <4>5. idx[q] \notin dead0
        <5>1. idx[q] \in dead0 => rows0[idx[q]].val # w[k].val
          BY <4>2, <4>4 DEF Recoverable, Ahead
        <5> QED
          BY <1>3, <2>1, <3>1, <4>3, <5>1
      <4> QED
        BY <1>3, <2>1, <3>1, <4>2, <4>3, <4>5 DEF OnDisk
    <3>2. CASE synced[q] # idx[q]
      BY <1>2, <2>1, <3>2 DEF Recoverable
    <3> QED
      BY <3>1, <3>2
  <2>3. \A l \in LiveOf(tb, q) : l = tb.index[q]
    BY <1>2, <2>1, <2>2 DEF Recoverable
  <2> QED
    BY <1>3, <2>1, <2>2, <2>3 DEF Current
<1>5. CASE \E i \in 1 .. k - 1 : w[i].pk = q
  <2>1. k - 1 \in Nat
    BY <1>1
  <2>2. PICK i : LastBy(w, k - 1, q, i)
    BY <1>5, <2>1, LastEntry
  <2>3. /\ w[i].op = "insert" => Current(tb, q, w[i].val)
        /\ w[i].op = "delete" => tb.index[q] = NoLoc
    BY <2>2 DEF KeyState, LastBy
  <2>4. w[i].op \in {"insert", "delete"}
    <3>1. w[i] \in WalOp
      BY <1>1, <2>2 DEF LastBy
    <3> QED
      BY <3>1 DEF WalOp
  <2>5. Current(tb, q, w[i].val)
    BY <2>3, <2>4
  <2>6. w[i].val = w[k].val
    BY <1>3, <2>5 DEF Current
  <2> QED
    BY <2>5, <2>6
<1> QED
  BY <1>4, <1>5

\* One entry of the log, for every key.
LEMMA KeyStep ==
    ASSUME NEW tb, NEW rows0, NEW dead0, NEW segs \in SUBSET Nat, NEW top \in Nat,
           Replaying(tb, rows0, segs, top),
           NEW w \in Seq(WalOp), NEW idx, NEW synced, Recoverable(w, idx, synced, rows0, dead0, segs, top),
           NEW k \in 1 .. Len(w), \A p \in PK : KeyState(tb, p, w, k - 1, synced, rows0, dead0)
    PROVE  LET new == Replay(tb, w[k]) IN
           /\ Replaying(new, rows0, segs, top) /\ tb.deleted \subseteq new.deleted
           /\ \A p \in PK : KeyState(new, p, w, k, synced, rows0, dead0)
<1> DEFINE new == Replay(tb, w[k])
           q == w[k].pk
<1>1. Len(w) \in Nat /\ w[k] \in WalOp
  OBVIOUS
<1>2. q \in PK /\ w[k].op \in {"insert", "delete"} /\ (w[k].op = "insert" => w[k].val \in Val)
  BY <1>1 DEF WalOp
<1>3. /\ Replaying(new, rows0, segs, top) /\ OthersKept(tb, new, q) /\ tb.deleted \subseteq new.deleted
      /\ w[k].op = "insert" => \/ tb.index[q] # NoLoc /\ Lookup(tb, q) = w[k].val /\ Untouched(tb, new)
                               \/ Inserted(tb, new, q, w[k].val)
      /\ w[k].op = "delete" => Erased(tb, new, q)
  <2>1. CASE w[k].op = "insert"
    <3>1. new = Insert(tb, q, w[k].val)
      BY <2>1 DEF Replay
    <3>2. w[k].op # "delete"
      BY <2>1
    <3> HIDE DEF new
    <3> QED
      BY <1>2, <2>1, <3>1, <3>2, ReplayInsert
  <2>2. CASE w[k].op = "delete"
    <3>1. Names(w[k].loc, q, rows0, segs, top)
      BY <2>2 DEF Recoverable
    <3>2. Names(w[k].loc, q, tb.rows, segs, top)
      <4>1. /\ DOMAIN rows0 \subseteq DOMAIN tb.rows /\ \A l \in DOMAIN rows0 : tb.rows[l] = rows0[l]
            /\ \A l \in DOMAIN tb.rows \ DOMAIN rows0 : l[1] = top
        BY DEF Replaying
      <4> QED
        BY <3>1, <4>1, NamesKept
    <3>3. w[k].op # "insert"
      BY <2>2
    <3>4. /\ Replaying(new, rows0, segs, top) /\ OthersKept(tb, new, q)
          /\ tb.deleted \subseteq new.deleted /\ Erased(tb, new, q)
      BY <1>1, <2>2, <3>2, ReplayDelete
    <3> HIDE DEF new
    <3> QED
      BY <3>3, <3>4
  <2> QED
    BY <1>2, <2>1, <2>2
<1> HIDE DEF new
<1>4. ASSUME NEW p \in PK, p # q PROVE KeyState(new, p, w, k, synced, rows0, dead0)
  <2>1. /\ new.index[p] = tb.index[p] /\ LiveOf(new, p) = LiveOf(tb, p)
        /\ \A l \in LiveOf(tb, p) : new.rows[l] = tb.rows[l]
    BY <1>3, <1>4 DEF OthersKept
  <2>2. KeyState(tb, p, w, k - 1, synced, rows0, dead0)
    OBVIOUS
  <2>3. \A i \in 1 .. k : i # k => i \in 1 .. k - 1
    BY <1>1
  <2>4. \A i \in 1 .. k - 1 : i \in 1 .. k
    BY <1>1
  <2>5. (\A i \in 1 .. k : w[i].pk # p) =>
            LiveOf(new, p) = OnDisk(rows0, dead0, p) /\ new.index[p] = synced[p]
    BY <2>1, <2>2, <2>4 DEF KeyState
  <2>6. ASSUME NEW i \in 1 .. k, w[i].pk = p, \A j \in 1 .. k : j > i => w[j].pk # p
        PROVE  /\ w[i].op = "insert" => Current(new, p, w[i].val)
               /\ w[i].op = "delete" => new.index[p] = NoLoc
    <3>1. i \in 1 .. k - 1
      BY <1>4, <2>3, <2>6
    <3>2. \A j \in 1 .. k - 1 : j > i => w[j].pk # p
      BY <2>4, <2>6
    <3>3. /\ w[i].op = "insert" => Current(tb, p, w[i].val)
          /\ w[i].op = "delete" => tb.index[p] = NoLoc
      BY <2>2, <2>6, <3>1, <3>2 DEF KeyState
    <3>4. Current(tb, p, w[i].val) => Current(new, p, w[i].val)
      BY <2>1 DEF Current
    <3> QED
      BY <2>1, <3>3, <3>4
  <2>7. LiveOf(new, p) \subseteq OnDisk(rows0, dead0, p) \cup {new.index[p]}
    BY <2>1, <2>2 DEF KeyState
  <2> QED
    BY <2>5, <2>6, <2>7 DEF KeyState
<1>5. KeyState(new, q, w, k, synced, rows0, dead0)
  <2>1. KeyState(tb, q, w, k - 1, synced, rows0, dead0)
    BY <1>2
  <2>2. k \in 1 .. k
    BY <1>1
  <2>3. ASSUME NEW i \in 1 .. k, w[i].pk = q, \A j \in 1 .. k : j > i => w[j].pk # q PROVE i = k
    BY <1>1, <2>2, <2>3
  <2>4. LiveOf(tb, q) \subseteq OnDisk(rows0, dead0, q) \cup {tb.index[q]}
    BY <2>1 DEF KeyState
  <2>5. CASE w[k].op = "delete"
    <3>1. new.index[q] = NoLoc /\ LiveOf(new, q) \subseteq LiveOf(tb, q) \ {tb.index[q]}
      BY <1>3, <2>5 DEF Erased
    <3> QED
      BY <2>2, <2>3, <2>4, <2>5, <3>1 DEF KeyState
  <2>6. CASE w[k].op = "insert"
    <3>1. Current(new, q, w[k].val) /\ LiveOf(new, q) \subseteq OnDisk(rows0, dead0, q) \cup {new.index[q]}
      <4>1. CASE tb.index[q] # NoLoc /\ Lookup(tb, q) = w[k].val /\ Untouched(tb, new)
        <5>1. Current(tb, q, w[k].val)
          BY <2>1, <2>6, <4>1, NoOpIsCurrent
        <5>2. new.index = tb.index /\ new.rows = tb.rows /\ LiveOf(new, q) = LiveOf(tb, q)
          BY <4>1 DEF Untouched, LiveOf, Live
        <5> QED
          BY <2>4, <5>1, <5>2 DEF Current
      <4>2. CASE Inserted(tb, new, q, w[k].val)
        BY <2>4, <4>2 DEF Inserted, Current
      <4> QED
        BY <1>3, <2>6, <4>1, <4>2
    <3> QED
      BY <2>2, <2>3, <2>6, <3>1 DEF KeyState
  <2> QED
    BY <1>2, <2>5, <2>6
<1>6. \A p \in PK : KeyState(new, p, w, k, synced, rows0, dead0)
  BY <1>4, <1>5
<1>7. /\ Replaying(new, rows0, segs, top) /\ tb.deleted \subseteq new.deleted
      /\ \A p \in PK : KeyState(new, p, w, k, synced, rows0, dead0)
  BY <1>3, <1>6
<1> QED
  BY <1>7 DEF new

\* The whole log.
LEMMA LogReplayed ==
    ASSUME NEW tb, NEW rows0, NEW segs \in SUBSET Nat, NEW top \in Nat,
           Replaying(tb, rows0, segs, top), SameRows(tb.rows, rows0),
           NEW w \in Seq(WalOp), NEW idx, Recoverable(w, idx, tb.index, rows0, tb.deleted, segs, top)
    PROVE  LET new == ReplayWal(tb, w) IN
           /\ Replaying(new, rows0, segs, top) /\ tb.deleted \subseteq new.deleted
           /\ \A p \in PK : KeyState(new, p, w, Len(w), tb.index, rows0, tb.deleted)
<1>1. Len(w) \in Nat
  OBVIOUS
<1>2. PICK f : /\ f[0] = tb /\ ReplayWal(tb, w) = f[Len(w)]
               /\ \A k \in 1 .. Len(w) : f[k] = Replay(f[k - 1], w[k])
  BY <1>1, ReplaySteps
<1> DEFINE Good == {k \in Nat : /\ Replaying(f[k], rows0, segs, top) /\ tb.deleted \subseteq f[k].deleted
                                /\ \A p \in PK : KeyState(f[k], p, w, k, tb.index, rows0, tb.deleted)}
<1>3. 0 \in Good
  <2>1. ASSUME NEW p \in PK PROVE KeyState(tb, p, w, 0, tb.index, rows0, tb.deleted)
    <3>1. LiveOf(tb, p) = OnDisk(rows0, tb.deleted, p)
      BY DEF LiveOf, Live, OnDisk, SameRows
    <3>2. 1 .. 0 = {}
      OBVIOUS
    <3> QED
      BY <3>1, <3>2 DEF KeyState
  <2> QED
    BY <1>2, <2>1
<1>4. ASSUME NEW k \in 1 .. Len(w), k - 1 \in Good PROVE k \in Good
  <2>1. /\ Replaying(f[k - 1], rows0, segs, top) /\ tb.deleted \subseteq f[k - 1].deleted
        /\ \A p \in PK : KeyState(f[k - 1], p, w, k - 1, tb.index, rows0, tb.deleted)
    BY <1>4
  <2> DEFINE new == Replay(f[k - 1], w[k])
  <2>2. /\ Replaying(new, rows0, segs, top) /\ f[k - 1].deleted \subseteq new.deleted
        /\ \A p \in PK : KeyState(new, p, w, k, tb.index, rows0, tb.deleted)
    BY <2>1, KeyStep
  <2>3. f[k] = new /\ k \in Nat
    BY <1>1, <1>2
  <2> HIDE DEF new
  <2> QED
    BY <2>1, <2>2, <2>3
<1>5. Len(w) \in Good
  <2> HIDE DEF Good
  <2>1. \A k \in 0 .. Len(w) : k \in Good
    BY <1>1, <1>3, <1>4, UpTo
  <2> QED
    BY <1>1, <2>1
<1> QED
  BY <1>2, <1>5

-----------------------------------------------------------------------------
(* Recovery: the table that Table::open builds *)

\* The directories, manifest, log and primary.idx of a process that is not running.
Down(d, w, idx, c) ==
    /\ Dense(d.rows)
    /\ \A s \in DOMAIN d.segs : s < d.active /\ \E l \in DOMAIN d.rows : l[1] = s
    /\ \A l \in DOMAIN d.rows : l[1] \in DOMAIN d.segs \/ l[1] = d.active
    /\ d.dead \subseteq DOMAIN d.rows
    /\ Counted(d.segs, d.rows, DOMAIN d.segs) /\ DOMAIN d.segs \subseteq d.dirs
    /\ \A p \in PK :
         /\ \A l \in OnDisk(d.rows, d.dead, p) : d.rows[l].val = c[p]
         /\ \A l, m \in OnDisk(d.rows, d.dead, p) : l = m
         /\ c[p] # NoVal => OnDisk(d.rows, d.dead, p) # {}
    /\ Logged(w, idx, c, d.rows, d.dead, DOMAIN d.segs, d.active)
    /\ Ahead(w, idx, d.rows, d.dead)

\* Everything in the directories is loaded.
LEMMA LoadedAll ==
    ASSUME TypeInv, NEW c, Down(disk, t.wal, idxFile, c)
    PROVE  /\ LoadSegments = DOMAIN disk.segs
           /\ SameRows(Loaded.rows, disk.rows) /\ Loaded.deleted = disk.dead
<1>1. DiskOK(disk) /\ RowsOK(disk.rows) /\ disk.active \in Nat /\ DOMAIN disk.segs \subseteq Nat
  BY DEF TypeInv, DiskOK
<1>2. LoadSegments = DOMAIN disk.segs
  BY <1>1 DEF LoadSegments, Down
<1>3. /\ Loaded.rows = Over(LoadedRows, Within(disk.rows, {disk.active}))
      /\ Loaded.deleted = {l \in disk.dead : l[1] \in LoadSegments}
                              \cup {l \in disk.dead : l[1] = disk.active}
  BY LoadedIs
<1>4. ASSUME NEW l \in DOMAIN disk.rows PROVE l \in DOMAIN LoadedRows \/ l[1] = disk.active
  <2>1. CASE l[1] \in DOMAIN disk.segs
    <3>1. l \in Loc
      BY <1>1 DEF RowsOK
    <3>2. l[2] <= CountIn(disk.rows, l[1])
      BY <1>1, <3>1, DenseCount DEF Down
    <3>3. l[2] <= disk.segs[l[1]]
      BY <2>1, <3>2 DEF Down, Counted
    <3> QED
      BY <1>2, <2>1, <3>3 DEF LoadedRows
  <2> QED
    BY <2>1 DEF Down
<1>5. DOMAIN LoadedRows \subseteq DOMAIN disk.rows /\ \A l \in DOMAIN LoadedRows : LoadedRows[l] = disk.rows[l]
  BY DEF LoadedRows
<1>6. SameRows(Loaded.rows, disk.rows)
  <2> DEFINE w == Within(disk.rows, {disk.active})
  <2>1. /\ DOMAIN w = {l \in DOMAIN disk.rows : l[1] = disk.active}
        /\ \A l \in DOMAIN w : w[l] = disk.rows[l]
    BY DEF Within
  <2> HIDE DEF w
  <2>2. /\ DOMAIN Over(LoadedRows, w) = DOMAIN LoadedRows \cup DOMAIN w
        /\ \A l \in DOMAIN LoadedRows : Over(LoadedRows, w)[l] = LoadedRows[l]
        /\ \A l \in DOMAIN w \ DOMAIN LoadedRows : Over(LoadedRows, w)[l] = w[l]
    BY DEF Over
  <2>3. DOMAIN Over(LoadedRows, w) = DOMAIN disk.rows
    BY <1>4, <1>5, <2>1, <2>2
  <2>4. \A l \in DOMAIN disk.rows : Over(LoadedRows, w)[l] = disk.rows[l]
    BY <1>4, <1>5, <2>1, <2>2
  <2>5. Loaded.rows = Over(LoadedRows, w)
    BY <1>3 DEF w
  <2> QED
    BY <2>3, <2>4, <2>5 DEF SameRows
<1>7. Loaded.deleted = disk.dead
  BY <1>2, <1>3 DEF Down
<1> QED
  BY <1>2, <1>6, <1>7

\* The table the log is replayed over.
LEMMA SyncedReplays ==
    ASSUME TypeInv, NEW c, Down(disk, t.wal, idxFile, c)
    PROVE  LET S == SyncIndex(Loaded) IN
           /\ Replaying(S, disk.rows, DOMAIN disk.segs, disk.active)
           /\ SameRows(S.rows, disk.rows) /\ S.deleted = disk.dead
           /\ Recoverable(t.wal, idxFile, S.index, disk.rows, disk.dead, DOMAIN disk.segs, disk.active)
<1> DEFINE S == SyncIndex(Loaded)
           segs == DOMAIN disk.segs
           top == disk.active
<1>1. /\ WellFormed(Loaded) /\ Loaded.index = idxFile /\ WellFormed(S)
      /\ Loaded.active = top /\ Loaded.count = CountIn(disk.rows, top)
  BY LoadedIs
<1>2. SameRows(Loaded.rows, disk.rows) /\ Loaded.deleted = disk.dead
  BY LoadedAll
<1>3. /\ S.active = Loaded.active /\ S.count = Loaded.count
      /\ S.rows = Loaded.rows /\ S.deleted = Loaded.deleted
      /\ \A p \in PK : \/ S.index[p] = idxFile[p]
                       \/ idxFile[p] = NoLoc /\ S.index[p] \in LiveOf(Loaded, p)
  <2>1. [Loaded EXCEPT !.index = idxFile] = Loaded
    BY <1>1, TableParts DEF Loaded, Activate
  <2>2. idxFile \in Index
    BY DEF TypeInv
  <2> DEFINE N == SyncIndex([Loaded EXCEPT !.index = idxFile])
  <2>3. /\ N.active = Loaded.active /\ N.count = Loaded.count
        /\ N.rows = Loaded.rows /\ N.deleted = Loaded.deleted
        /\ \A p \in PK : \/ N.index[p] = idxFile[p]
                         \/ idxFile[p] = NoLoc /\ N.index[p] \in LiveOf(Loaded, p)
    BY <1>1, <2>2, LoadIndex
  <2>4. N = S
    BY <2>1
  <2> HIDE DEF N, S
  <2> QED
    BY <2>3, <2>4
<1> HIDE DEF S
<1>4. \A p : LiveOf(Loaded, p) = OnDisk(disk.rows, disk.dead, p)
  BY <1>2 DEF LiveOf, Live, OnDisk, SameRows
<1>5. SameRows(S.rows, disk.rows) /\ S.deleted = disk.dead
  BY <1>2, <1>3
<1>6. DOMAIN S.rows = DOMAIN disk.rows /\ \A l \in DOMAIN disk.rows : S.rows[l] = disk.rows[l]
  BY <1>5 DEF SameRows
<1>7. IndexNames(idxFile, disk.rows, segs, top)
  BY DEF Down, Logged
<1>8. IndexNames(S.index, S.rows, segs, top)
  <2> SUFFICES ASSUME NEW p \in PK, S.index[p] # NoLoc PROVE Names(S.index[p], p, S.rows, segs, top)
    BY DEF IndexNames
  <2>1. Names(S.index[p], p, disk.rows, segs, top)
    BY <1>3, <1>4, <1>7 DEF IndexNames, OnDisk, Names
  <2> QED
    BY <1>6, <2>1 DEF Names
<1>9. Replaying(S, disk.rows, segs, top)
  <2>1. Dense(S.rows) /\ S.count = CountIn(S.rows, S.active)
    BY <1>1, <1>3, <1>5, SameCounts DEF Down
  <2>2. /\ \A l \in DOMAIN S.rows : l[1] \in segs \/ l[1] = top
        /\ \A s \in segs : s < top
        /\ \A l \in S.deleted : l \in DOMAIN S.rows
    BY <1>5, <1>6 DEF Down
  <2> QED
    BY <1>1, <1>3, <1>6, <1>8, <2>1, <2>2 DEF Replaying
<1>10. Recoverable(t.wal, idxFile, S.index, disk.rows, disk.dead, segs, top)
  <2>1. \A p \in PK : \A l, m \in OnDisk(disk.rows, disk.dead, p) : l = m
    BY DEF Down
  <2>2. \A p \in PK : \/ S.index[p] = idxFile[p]
                      \/ idxFile[p] = NoLoc /\ S.index[p] \in OnDisk(disk.rows, disk.dead, p)
    BY <1>3, <1>4
  <2>3. \A i \in 1 .. Len(t.wal) :
            t.wal[i].op = "delete" => Names(t.wal[i].loc, t.wal[i].pk, disk.rows, segs, top)
    BY DEF Down, Logged
  <2>4. Ahead(t.wal, idxFile, disk.rows, disk.dead)
    BY DEF Down
  <2> QED
    BY <1>7, <2>1, <2>2, <2>3, <2>4 DEF Recoverable
<1> QED
  BY <1>5, <1>9, <1>10 DEF S

\* The newest live row is the one reconcile_orphan_rows keeps.
LEMMA WinnerIs ==
    ASSUME NEW tb, WellFormed(tb), NEW p, NEW x \in LiveOf(tb, p),
           \A l \in LiveOf(tb, p) \ {x} : Newer(x, l)
    PROVE  Winner(tb, p) = x
<1>1. LiveOf(tb, p) \subseteq Loc
  BY DEF LiveOf, Live, WellFormed, IsTable
<1> DEFINE y == CHOOSE l \in LiveOf(tb, p) : \A m \in LiveOf(tb, p) \ {l} : Newer(l, m)
<1>2. y \in LiveOf(tb, p) /\ \A m \in LiveOf(tb, p) \ {y} : Newer(y, m)
  OBVIOUS
<1>3. Winner(tb, p) = y
  BY DEF Winner
<1> HIDE DEF y
<1>4. y = x
  BY <1>1, <1>2, NewerOrder
<1> QED
  BY <1>3, <1>4

\* What is left to reconcile once the log is replayed.
Final(tb, c) ==
    \A p \in PK :
        /\ c[p] = NoVal => LiveOf(tb, p) = {} /\ tb.index[p] = NoLoc
        /\ c[p] # NoVal => /\ Winner(tb, p) \in LiveOf(tb, p) /\ tb.rows[Winner(tb, p)].val = c[p]
                           /\ tb.index[p] # NoLoc
                           /\ tb.index[p] \in DOMAIN tb.rows => tb.index[p] = Winner(tb, p)


\* Once the log is replayed, every key is as its content says, but for the
\* tombstones of replaced rows.
LEMMA FinalKeys ==
    ASSUME TypeInv, NEW c \in [PK -> Val \cup {NoVal}], Down(disk, t.wal, idxFile, c)
    PROVE  LET R == Replayed IN
           /\ Replaying(R, disk.rows, DOMAIN disk.segs, disk.active) /\ disk.dead \subseteq R.deleted
           /\ Final(R, c)
           /\ \A p \in PK : ~HasEntry(t.wal, p) =>
                R.index[p] = idxFile[p] /\ LiveOf(R, p) = OnDisk(disk.rows, disk.dead, p)
<1> DEFINE R == Replayed
           S == SyncIndex(Loaded)
           segs == DOMAIN disk.segs
           top == disk.active
           w == t.wal
<1>1. w \in Seq(WalOp) /\ segs \in SUBSET Nat /\ top \in Nat /\ RowsOK(disk.rows)
  BY TableParts DEF TypeInv, DiskOK
<1>2. /\ Replaying(S, disk.rows, segs, top)
      /\ SameRows(S.rows, disk.rows) /\ S.deleted = disk.dead
      /\ Recoverable(w, idxFile, S.index, disk.rows, disk.dead, segs, top)
  BY SyncedReplays
<1>3. R = ReplayWal(S, w)
  BY DEF Replayed
<1>4. /\ Replaying(R, disk.rows, segs, top) /\ S.deleted \subseteq R.deleted
      /\ \A p \in PK : KeyState(R, p, w, Len(w), S.index, disk.rows, S.deleted)
  <2> HIDE DEF R, S, w, segs, top
  <2> QED
    BY <1>1, <1>2, <1>3, LogReplayed
<1> HIDE DEF R, S, w, segs, top
<1>5. \A p \in PK : KeyState(R, p, w, Len(w), S.index, disk.rows, disk.dead)
  BY <1>2, <1>4
<1>6. Logged(w, idxFile, c, disk.rows, disk.dead, segs, top)
  BY DEF Down, w, segs, top
<1>7. ASSUME NEW p \in PK
      PROVE  /\ \A l \in OnDisk(disk.rows, disk.dead, p) : disk.rows[l].val = c[p]
             /\ \A l, m \in OnDisk(disk.rows, disk.dead, p) : l = m
             /\ c[p] # NoVal => OnDisk(disk.rows, disk.dead, p) # {}
             /\ c[p] = NoVal => OnDisk(disk.rows, disk.dead, p) = {}
  <2>1. /\ \A l \in OnDisk(disk.rows, disk.dead, p) : disk.rows[l].val = c[p]
        /\ \A l, m \in OnDisk(disk.rows, disk.dead, p) : l = m
        /\ c[p] # NoVal => OnDisk(disk.rows, disk.dead, p) # {}
    BY DEF Down
  <2>2. \A l \in OnDisk(disk.rows, disk.dead, p) : disk.rows[l].val \in Val
    BY <1>1 DEF OnDisk, RowsOK, Row
  <2> QED
    BY <2>1, <2>2, ValuesDistinct
<1>8. /\ WellFormed(R)
      /\ DOMAIN disk.rows \subseteq DOMAIN R.rows /\ \A l \in DOMAIN disk.rows : R.rows[l] = disk.rows[l]
      /\ \A l \in DOMAIN R.rows \ DOMAIN disk.rows : l[1] = top
  BY <1>4 DEF Replaying
<1>9. ASSUME NEW p \in PK, ~HasEntry(w, p)
      PROVE  /\ R.index[p] = idxFile[p] /\ LiveOf(R, p) = OnDisk(disk.rows, disk.dead, p)
             /\ c[p] = NoVal => idxFile[p] = NoLoc
             /\ c[p] # NoVal => idxFile[p] # NoLoc
                                /\ (idxFile[p] \in DOMAIN disk.rows => idxFile[p] \notin disk.dead)
  <2>1. KeyState(R, p, w, Len(w), S.index, disk.rows, disk.dead)
    BY <1>5
  <2>2. LiveOf(R, p) = OnDisk(disk.rows, disk.dead, p) /\ R.index[p] = S.index[p]
    BY <1>9, <2>1 DEF KeyState, HasEntry
  <2>3. /\ c[p] = NoVal => idxFile[p] = NoLoc
        /\ c[p] # NoVal => idxFile[p] # NoLoc
                           /\ (idxFile[p] \in DOMAIN disk.rows => idxFile[p] \notin disk.dead)
    BY <1>6, <1>9 DEF Logged
  <2>4. S.index[p] = idxFile[p] \/ (idxFile[p] = NoLoc /\ S.index[p] \in OnDisk(disk.rows, disk.dead, p))
    BY <1>2 DEF Recoverable
  <2>5. S.index[p] = idxFile[p]
    BY <1>7, <2>3, <2>4
  <2> QED
    BY <2>2, <2>3, <2>5
<1>10. ASSUME NEW p \in PK
       PROVE  /\ c[p] = NoVal => LiveOf(R, p) = {} /\ R.index[p] = NoLoc
              /\ c[p] # NoVal => /\ Winner(R, p) \in LiveOf(R, p) /\ R.rows[Winner(R, p)].val = c[p]
                                 /\ R.index[p] # NoLoc
                                 /\ R.index[p] \in DOMAIN R.rows => R.index[p] = Winner(R, p)
  <2>1. CASE ~HasEntry(w, p)
    <3>1. CASE c[p] = NoVal
      BY <1>7, <1>9, <2>1, <3>1
    <3>2. CASE c[p] # NoVal
      <4>1. PICK x : x \in OnDisk(disk.rows, disk.dead, p)
        BY <1>7, <3>2
      <4>2. x \in LiveOf(R, p) /\ \A l \in LiveOf(R, p) \ {x} : Newer(x, l)
        BY <1>7, <1>9, <2>1, <4>1
      <4>3. Winner(R, p) = x
        BY <1>8, <4>2, WinnerIs
      <4>4. R.rows[x].val = c[p]
        BY <1>7, <1>8, <4>1 DEF OnDisk
      <4>5. R.index[p] = idxFile[p] /\ idxFile[p] # NoLoc
        BY <1>9, <2>1, <3>2
      <4>6. ASSUME idxFile[p] \in DOMAIN R.rows PROVE idxFile[p] = x
        <5>1. Names(idxFile[p], p, disk.rows, segs, top)
          BY <1>6, <4>5 DEF Logged, IndexNames
        <5>2. idxFile[p] \in DOMAIN disk.rows
          <6>1. ASSUME idxFile[p] \notin DOMAIN disk.rows PROVE FALSE
            <7>1. idxFile[p][1] = top /\ idxFile[p][1] < top
              BY <1>8, <4>6, <5>1, <6>1 DEF Names, Gone
            <7> QED
              BY <1>1, <7>1
          <6> QED
            BY <6>1
        <5>3. idxFile[p] \in OnDisk(disk.rows, disk.dead, p)
          BY <1>9, <2>1, <3>2, <5>1, <5>2 DEF Names, OnDisk
        <5> QED
          BY <1>7, <4>1, <5>3
      <4> QED
        BY <3>2, <4>2, <4>3, <4>4, <4>5, <4>6
    <3> QED
      BY <3>1, <3>2
  <2>2. CASE HasEntry(w, p)
    <3>1. Len(w) \in Nat
      BY <1>1
    <3>2. PICK i : LastBy(w, Len(w), p, i)
      BY <2>2, <3>1, LastEntry DEF HasEntry
    <3>3. i \in 1 .. Len(w) /\ w[i].pk = p /\ LastOf(w, i)
      BY <3>2 DEF LastBy, LastOf
    <3>4. c[p] = w[i].val
      BY <1>6, <3>3 DEF Logged
    <3>5. w[i] \in WalOp
      BY <1>1, <3>3
    <3>6. /\ w[i].op = "insert" => Current(R, p, w[i].val)
          /\ w[i].op = "delete" => R.index[p] = NoLoc
      BY <1>5, <3>2 DEF KeyState, LastBy
    <3>7. CASE w[i].op = "insert"
      <4>1. c[p] # NoVal
        BY <3>4, <3>5, <3>7, ValuesDistinct DEF WalOp
      <4>2. /\ R.index[p] \in LiveOf(R, p) /\ R.rows[R.index[p]].val = c[p]
            /\ \A l \in LiveOf(R, p) \ {R.index[p]} : Newer(R.index[p], l)
        BY <3>4, <3>6, <3>7 DEF Current
      <4>3. Winner(R, p) = R.index[p]
        BY <1>8, <4>2, WinnerIs
      <4>4. R.index[p] # NoLoc
        BY <1>8, <4>2 DEF LiveOf, Live, WellFormed, IsTable, Loc, NoLoc
      <4> QED
        BY <4>1, <4>2, <4>3, <4>4
    <3>8. CASE w[i].op = "delete"
      <4>1. c[p] = NoVal
        BY <3>4, <3>5, <3>8 DEF WalOp
      <4>2. LiveOf(R, p) \subseteq OnDisk(disk.rows, disk.dead, p) \cup {NoLoc} /\ R.index[p] = NoLoc
        BY <1>5, <3>6, <3>8 DEF KeyState
      <4>3. NoLoc \notin LiveOf(R, p)
        BY <1>8 DEF LiveOf, Live, WellFormed, IsTable, Loc, NoLoc
      <4> QED
        BY <1>7, <4>1, <4>2, <4>3
    <3> QED
      BY <3>5, <3>7, <3>8 DEF WalOp
  <2> QED
    BY <2>1, <2>2
<1>11. Final(R, c)
  BY <1>10 DEF Final
<1>12. /\ Replaying(R, disk.rows, segs, top) /\ disk.dead \subseteq R.deleted /\ Final(R, c)
       /\ \A p \in PK : ~HasEntry(w, p) =>
            R.index[p] = idxFile[p] /\ LiveOf(R, p) = OnDisk(disk.rows, disk.dead, p)
  BY <1>2, <1>4, <1>9, <1>11
<1> QED
  BY <1>12 DEF R, w, segs, top

\* The table that Table::open has built, before it seals the active segment.
Opened == [Marked(Reconcile(Replayed), LoadSegments) EXCEPT !.wal = <<>>]
OpenedIndex == IF t.wal = <<>> THEN idxFile ELSE Replayed.index

\* What Table::open makes of the replayed table: losing versions are marked, the
\* index names the winners, and the log is empty.
LEMMA OpenedIs ==
    ASSUME TypeInv
    PROVE  LET R == Replayed IN
           /\ WellFormed(R) /\ WellFormed(Opened) /\ Opened.active = R.active /\ Opened.count = R.count
           /\ Opened.rows = R.rows /\ Opened.wal = <<>>
           /\ Opened.deleted = {l \in R.deleted \cup {l \in Live(R) : l # Winner(R, R.rows[l].pk)} :
                                   l[1] \in LoadSegments \cup {R.active}}
           /\ Opened.index = [p \in PK |-> IF LiveOf(R, p) = {} THEN R.index[p] ELSE Winner(R, p)]
<1> DEFINE R == Replayed
           rec == Reconcile(R)
           mk == Marked(rec, LoadSegments)
<1>1. WellFormed(R)
  BY LoadedIs
<1> HIDE DEF R
<1>2. WellFormed(rec)
  BY <1>1, ReconcileGrown DEF Grown
<1>3. /\ rec.active = R.active /\ rec.count = R.count /\ rec.rows = R.rows
      /\ rec.deleted = R.deleted \cup {l \in Live(R) : l # Winner(R, R.rows[l].pk)}
      /\ rec.index = [p \in PK |-> IF LiveOf(R, p) = {} THEN R.index[p] ELSE Winner(R, p)]
  BY <1>1 DEF Reconcile, WellFormed, IsTable
<1> HIDE DEF rec
<1>4. /\ WellFormed(mk)
      /\ mk.active = rec.active /\ mk.count = rec.count
      /\ mk.rows = rec.rows /\ mk.index = rec.index
      /\ mk.deleted = {l \in rec.deleted : l[1] \in LoadSegments \cup {rec.active}}
  BY <1>2, MarkedIs
<1>5. Opened = [mk EXCEPT !.wal = <<>>]
  BY DEF Opened, mk, rec, R
<1> HIDE DEF mk
<1>6. <<>> \in Seq(WalOp)
  OBVIOUS
<1>7. /\ WellFormed(Opened)
      /\ Opened.active = mk.active /\ Opened.count = mk.count /\ Opened.rows = mk.rows
      /\ Opened.deleted = mk.deleted /\ Opened.index = mk.index /\ Opened.wal = <<>>
  BY <1>4, <1>5, <1>6, WalIs
<1>8. /\ WellFormed(R) /\ WellFormed(Opened) /\ Opened.active = R.active /\ Opened.count = R.count
      /\ Opened.rows = R.rows /\ Opened.wal = <<>>
      /\ Opened.deleted = {l \in R.deleted \cup {l \in Live(R) : l # Winner(R, R.rows[l].pk)} :
                              l[1] \in LoadSegments \cup {R.active}}
      /\ Opened.index = [p \in PK |-> IF LiveOf(R, p) = {} THEN R.index[p] ELSE Winner(R, p)]
  BY <1>1, <1>3, <1>4, <1>7
<1> QED
  BY <1>8 DEF R

\* It is clean: recovery has lost nothing, resurrected nothing and doubled nothing.
LEMMA OpenedClean ==
    ASSUME TypeInv, NEW c \in [PK -> Val \cup {NoVal}], Down(disk, t.wal, idxFile, c)
    PROVE  /\ Clean(Opened, DOMAIN disk.segs, disk.segs, OpenedIndex, c)
           /\ Covered(disk, Opened, DOMAIN disk.segs)
           /\ LoadSegments = DOMAIN disk.segs /\ Opened.active = disk.active
<1> DEFINE R == Replayed
           T == Opened
           segs == DOMAIN disk.segs
           top == disk.active
<1>1. /\ WellFormed(R) /\ WellFormed(T) /\ T.active = R.active /\ T.count = R.count
      /\ T.rows = R.rows /\ T.wal = <<>>
      /\ T.deleted = {l \in R.deleted \cup {l \in Live(R) : l # Winner(R, R.rows[l].pk)} :
                         l[1] \in LoadSegments \cup {R.active}}
      /\ T.index = [p \in PK |-> IF LiveOf(R, p) = {} THEN R.index[p] ELSE Winner(R, p)]
  BY OpenedIs
<1>2. /\ Replaying(R, disk.rows, segs, top) /\ disk.dead \subseteq R.deleted /\ Final(R, c)
      /\ \A p \in PK : ~HasEntry(t.wal, p) => R.index[p] = idxFile[p]
  BY FinalKeys
<1>3. LoadSegments = segs
  BY LoadedAll
<1>4. RowsOK(disk.rows) /\ segs \subseteq Nat /\ top \in Nat
  BY DEF TypeInv, DiskOK
<1>5. /\ Dense(disk.rows)
      /\ \A s \in segs : s < top /\ \E l \in DOMAIN disk.rows : l[1] = s
      /\ \A l \in DOMAIN disk.rows : l[1] \in segs \/ l[1] = top
      /\ disk.dead \subseteq DOMAIN disk.rows
      /\ Counted(disk.segs, disk.rows, segs) /\ segs \subseteq disk.dirs
  BY DEF Down
<1>6. OpenedIndex = IF t.wal = <<>> THEN idxFile ELSE R.index
  BY DEF OpenedIndex
<1>7. t.wal = <<>> => \A p : ~HasEntry(t.wal, p)
  BY DEF HasEntry
<1> HIDE DEF R, T, segs, top
<1>8. \A p \in PK : OpenedIndex[p] = R.index[p]
  BY <1>2, <1>6, <1>7
<1>9. /\ Dense(R.rows) /\ R.count = CountIn(R.rows, R.active) /\ R.active = top
      /\ DOMAIN disk.rows \subseteq DOMAIN R.rows /\ \A l \in DOMAIN disk.rows : R.rows[l] = disk.rows[l]
      /\ \A l \in DOMAIN R.rows \ DOMAIN disk.rows : l[1] = top
      /\ \A l \in DOMAIN R.rows : l[1] \in segs \/ l[1] = top
      /\ \A l \in R.deleted : l \in DOMAIN R.rows \/ Gone(l, segs, top)
      /\ IndexNames(R.index, R.rows, segs, top)
  BY <1>2 DEF Replaying
<1>10. T.deleted \subseteq DOMAIN T.rows
  <2> SUFFICES ASSUME NEW l \in T.deleted PROVE l \in DOMAIN R.rows
    BY <1>1
  <2>1. (l \in R.deleted \/ l \in Live(R)) /\ (l[1] \in segs \/ l[1] = top)
    BY <1>1, <1>3, <1>9
  <2>2. ~Gone(l, segs, top)
    BY <1>4, <2>1 DEF Gone
  <2> QED
    BY <1>9, <2>1, <2>2 DEF Live
<1>11. Stored(T, segs)
  <2>1. \A s \in segs : s < T.active /\ \E l \in DOMAIN T.rows : l[1] = s
    BY <1>1, <1>5, <1>9
  <2> QED
    BY <1>1, <1>9, <1>10, <2>1 DEF Stored
<1>12. Counted(disk.segs, T.rows, segs)
  <2>1. ASSUME NEW s \in segs PROVE CountIn(R.rows, s) = CountIn(disk.rows, s)
    <3>1. s # top
      BY <1>4, <1>5
    <3>2. {l \in DOMAIN R.rows : l[1] = s} = {l \in DOMAIN disk.rows : l[1] = s}
      BY <1>9, <3>1
    <3> QED
      BY <3>2 DEF CountIn
  <2> QED
    BY <1>1, <1>5, <2>1 DEF Counted
<1>13. ASSUME NEW p \in PK
       PROVE  /\ c[p] = NoVal => LiveOf(T, p) = {} /\ T.index[p] = NoLoc
              /\ c[p] # NoVal => LiveOf(T, p) = {Winner(R, p)} /\ T.index[p] = Winner(R, p)
  <2>1. ASSUME NEW l PROVE l \in LiveOf(T, p) <=> l \in LiveOf(R, p) /\ l = Winner(R, p)
    <3>1. l \in DOMAIN R.rows => l[1] \in LoadSegments \cup {R.active}
      BY <1>3, <1>9
    <3>2. l \in DOMAIN R.rows /\ l \notin R.deleted /\ R.rows[l].pk = p =>
              (l \in T.deleted <=> l # Winner(R, p))
      BY <1>1, <3>1 DEF Live
    <3>3. l \in R.deleted /\ l \in DOMAIN R.rows => l \in T.deleted
      BY <1>1, <3>1
    <3> QED
      BY <1>1, <3>2, <3>3 DEF LiveOf, Live
  <2>2. /\ c[p] = NoVal => LiveOf(R, p) = {} /\ R.index[p] = NoLoc
        /\ c[p] # NoVal => Winner(R, p) \in LiveOf(R, p)
    BY <1>2 DEF Final
  <2>3. T.index[p] = IF LiveOf(R, p) = {} THEN R.index[p] ELSE Winner(R, p)
    BY <1>1
  <2>4. ASSUME c[p] = NoVal PROVE LiveOf(T, p) = {} /\ T.index[p] = NoLoc
    BY <2>1, <2>2, <2>3, <2>4
  <2>5. ASSUME c[p] # NoVal PROVE LiveOf(T, p) = {Winner(R, p)} /\ T.index[p] = Winner(R, p)
    BY <2>1, <2>2, <2>3, <2>5
  <2> QED
    BY <2>4, <2>5
<1>14. \A p \in PK : c[p] # NoVal => Winner(R, p) # NoLoc /\ T.rows[Winner(R, p)].val = c[p]
  <2>1. NoLoc \notin DOMAIN R.rows
    BY <1>1 DEF WellFormed, IsTable, Loc, NoLoc
  <2> QED
    BY <1>1, <1>2, <2>1 DEF Final, LiveOf, Live
<1>15. Keys(T, c)
  <2> SUFFICES ASSUME NEW p \in PK
               PROVE  /\ LiveOf(T, p) \subseteq {T.index[p]}
                      /\ T.index[p] = NoLoc => c[p] = NoVal
                      /\ T.index[p] # NoLoc => T.index[p] \in LiveOf(T, p) /\ T.rows[T.index[p]].val = c[p]
    BY DEF Keys
  <2> QED
    BY <1>13, <1>14
<1>16. Len(T.wal) = 0
  BY <1>1
<1>17. Logged(T.wal, OpenedIndex, c, T.rows, T.deleted, segs, T.active)
  <2>1. IndexNames(OpenedIndex, T.rows, segs, T.active)
    BY <1>1, <1>8, <1>9 DEF IndexNames
  <2>2. ASSUME NEW p \in PK
        PROVE  /\ c[p] = NoVal => OpenedIndex[p] = NoLoc
               /\ c[p] # NoVal => OpenedIndex[p] # NoLoc
                                  /\ (OpenedIndex[p] \in DOMAIN T.rows => OpenedIndex[p] \notin T.deleted)
    <3>1. /\ c[p] = NoVal => R.index[p] = NoLoc
          /\ c[p] # NoVal => /\ R.index[p] # NoLoc
                             /\ R.index[p] \in DOMAIN R.rows => R.index[p] = Winner(R, p)
      BY <1>2 DEF Final
    <3>2. c[p] # NoVal => Winner(R, p) \notin T.deleted
      <4>1. c[p] # NoVal => Winner(R, p) \in LiveOf(T, p)
        BY <1>13
      <4> QED
        BY <4>1 DEF LiveOf, Live
    <3> QED
      BY <1>1, <1>8, <3>1, <3>2
  <2>3. 1 .. Len(T.wal) = {}
    BY <1>16
  <2> QED
    BY <2>1, <2>2, <2>3 DEF Logged
<1>18. Ahead(T.wal, OpenedIndex, T.rows, DOMAIN T.rows)
  BY <1>16 DEF Ahead
<1>19. Clean(T, segs, disk.segs, OpenedIndex, c)
  BY <1>11, <1>12, <1>15, <1>17, <1>18 DEF Clean
<1>20. Covered(disk, T, segs)
  <2>1. disk.dead \subseteq T.deleted
    BY <1>1, <1>2, <1>3, <1>5, <1>9
  <2> QED
    BY <1>1, <1>5, <1>9, <2>1 DEF Covered
<1>21. T.active = top
  BY <1>1, <1>9
<1> QED
  BY <1>3, <1>19, <1>20, <1>21 DEF T, segs, top

-----------------------------------------------------------------------------
(* The inductive invariant.  What it says of rows, manifest and log holds as   *)
(* long as no death fell into one of the windows.                              *)

\* What compact() has packed: the content of every key once, in new segments with
\* the ids after the active one.
PackedInv ==
    /\ t.count = 0 /\ sealed # {}
    /\ Dense(out.rows)
    /\ \A l \in DOMAIN out.rows : l[1] > t.active /\ l[1] <= t.active + Cardinality(SegsOf(out.rows))
    /\ \A p \in PK :
         /\ \A l \in DOMAIN out.rows : out.rows[l].pk = p => l = out.index[p]
         /\ out.index[p] = NoLoc => content[p] = NoVal
         /\ out.index[p] # NoLoc => /\ out.index[p] \in DOMAIN out.rows
                                    /\ out.rows[out.index[p]].pk = p
                                    /\ out.rows[out.index[p]].val = content[p]

\* The directories while compact() renames new ones and deletes old ones.
Holds(segs, new) ==
    /\ \A l : l \in DOMAIN disk.rows <=>
                 (l \in DOMAIN out.rows /\ l[1] \in new) \/ (l \in DOMAIN t.rows /\ l[1] \in segs)
    /\ \A l \in DOMAIN disk.rows : disk.rows[l] = IF l[1] \in new THEN out.rows[l] ELSE t.rows[l]
    /\ disk.dead = {l \in t.deleted : l[1] \in segs}
    /\ segs \cup new \cup {t.active} \subseteq disk.dirs

\* What holds at each control point: between operations; while compact() renames
\* and deletes, when memory still serves the old segments; from the manifest that
\* names the new ones to the end of compact(); and in the middle of a wipe.
ServingInv == Clean(t, sealed, listed, idxFile, content) /\ Named(t, sealed, listed, disk)
UpInv == ServingInv /\ AtRest(t, sealed, disk)
RenamingInv ==
    ServingInv /\ PackedInv /\ todo \subseteq SegsOf(out.rows) /\ Holds(sealed, SegsOf(out.rows) \ todo)
DeletingInv == ServingInv /\ PackedInv /\ todo \subseteq sealed /\ Holds(todo, SegsOf(out.rows))
InstalledInv ==
    /\ Dense(disk.rows) /\ disk.dead = {} /\ SameRows(disk.rows, t.rows) /\ t.deleted = {}
    /\ sealed = DOMAIN disk.segs /\ listed = disk.segs /\ sealed \subseteq disk.dirs
    /\ \A s \in sealed : s < disk.active /\ \E l \in DOMAIN disk.rows : l[1] = s
    /\ \A l \in DOMAIN disk.rows : l[1] \in sealed
    /\ Counted(disk.segs, disk.rows, sealed)
    /\ Keys(t, content)
    /\ Logged(t.wal, idxFile, content, t.rows, {}, sealed, disk.active)
WipedInv ==
    /\ DOMAIN t.rows = {} /\ DOMAIN disk.rows = {} /\ t.deleted = {} /\ disk.dead = {}
    /\ t.active = 0 /\ t.count = 0 /\ sealed = {} /\ DOMAIN listed = {}
    /\ t.index = NoIndex /\ content = [p \in PK |-> NoVal] /\ 0 \in disk.dirs

\* As long as no death fell into a window.  Then there are never ghosts, and a
\* recovery finds files from which replay restores the content (Down).
CleanInv ==
    /\ pc # "ghosts"
    /\ pc \in {"wiping", "recopy"} => copying
    /\ pc \in {"renaming", "deleting", "installed", "saved"} => ~copying
    /\ pc = "up" => UpInv
    /\ pc = "renaming" => RenamingInv
    /\ pc = "deleting" => DeletingInv
    /\ pc \in {"installed", "saved"} => InstalledInv
    /\ pc = "saved" => idxFile = t.index
    /\ pc = "wiping" => WipedInv
    /\ pc = "down" /\ ~copying => Down(disk, t.wal, idxFile, content)

\* The files of a table in use whose manifest is the one on disk.
LEMMA CleanFiles ==
    ASSUME NEW tb, WellFormed(tb), NEW segs, NEW m, NEW idx, NEW c, Clean(tb, segs, m, idx, c),
           NEW d, SameRows(d.rows, tb.rows), d.dead = tb.deleted, segs \subseteq d.dirs,
           d.segs = m, d.active = tb.active
    PROVE  Down(d, tb.wal, idx, c)
<1>1. /\ Stored(tb, segs) /\ Counted(m, tb.rows, segs) /\ Keys(tb, c)
      /\ Logged(tb.wal, idx, c, tb.rows, tb.deleted, segs, tb.active)
      /\ Ahead(tb.wal, idx, tb.rows, DOMAIN tb.rows)
  BY DEF Clean
<1>2. DOMAIN d.rows = DOMAIN tb.rows /\ \A l \in DOMAIN tb.rows : d.rows[l] = tb.rows[l]
  BY DEF SameRows
<1>3. (\A s : CountIn(d.rows, s) = CountIn(tb.rows, s)) /\ Dense(d.rows)
  BY <1>1, SameCounts DEF Stored
<1>4. DOMAIN d.segs = segs
  BY <1>1 DEF Counted
<1>5. Counted(d.segs, d.rows, DOMAIN d.segs)
  BY <1>1, <1>3, <1>4 DEF Counted
<1>6. /\ \A s \in DOMAIN d.segs : s < d.active /\ \E l \in DOMAIN d.rows : l[1] = s
      /\ \A l \in DOMAIN d.rows : l[1] \in DOMAIN d.segs \/ l[1] = d.active
      /\ d.dead \subseteq DOMAIN d.rows
  BY <1>1, <1>2, <1>4 DEF Stored
<1>7. ASSUME NEW p \in PK
      PROVE  /\ \A l \in OnDisk(d.rows, d.dead, p) : d.rows[l].val = c[p]
             /\ \A l, m2 \in OnDisk(d.rows, d.dead, p) : l = m2
             /\ c[p] # NoVal => OnDisk(d.rows, d.dead, p) # {}
  <2>1. OnDisk(d.rows, d.dead, p) = LiveOf(tb, p)
    BY <1>2 DEF OnDisk, LiveOf, Live
  <2>2. /\ LiveOf(tb, p) \subseteq {tb.index[p]}
        /\ tb.index[p] = NoLoc => c[p] = NoVal
        /\ tb.index[p] # NoLoc => tb.index[p] \in LiveOf(tb, p) /\ tb.rows[tb.index[p]].val = c[p]
    BY <1>1 DEF Keys
  <2>3. NoLoc \notin LiveOf(tb, p)
    BY DEF LiveOf, Live, WellFormed, IsTable, Loc, NoLoc
  <2>4. \A l \in LiveOf(tb, p) : l \in DOMAIN tb.rows
    BY DEF LiveOf, Live
  <2> QED
    BY <1>2, <2>1, <2>2, <2>3, <2>4
<1>8. Logged(tb.wal, idx, c, d.rows, d.dead, DOMAIN d.segs, d.active)
  BY <1>1, <1>4, SameLogged
<1>9. Ahead(tb.wal, idx, d.rows, d.dead)
  BY <1>1, <1>2, <1>6 DEF Ahead
<1> QED
  BY <1>3, <1>4, <1>5, <1>6, <1>7, <1>8, <1>9 DEF Down

\* The index is saved: it has every key's row.
LEMMA SavedIndex ==
    ASSUME NEW tb, WellFormed(tb), NEW c, Keys(tb, c), NEW segs, NEW top
    PROVE  /\ Logged(<<>>, tb.index, c, tb.rows, tb.deleted, segs, top)
           /\ Ahead(<<>>, tb.index, tb.rows, DOMAIN tb.rows)
           /\ \A w, idx : Logged(w, idx, c, tb.rows, tb.deleted, segs, top)
                            => Logged(w, tb.index, c, tb.rows, tb.deleted, segs, top)
<1>1. ASSUME NEW p \in PK
      PROVE  /\ c[p] = NoVal => tb.index[p] = NoLoc
             /\ c[p] # NoVal => tb.index[p] # NoLoc /\ tb.index[p] \notin tb.deleted
             /\ tb.index[p] # NoLoc => Names(tb.index[p], p, tb.rows, segs, top)
  <2>1. CASE tb.index[p] = NoLoc
    BY <2>1 DEF Keys
  <2>2. CASE tb.index[p] # NoLoc
    <3>1. /\ tb.index[p] \in DOMAIN tb.rows /\ tb.rows[tb.index[p]].pk = p
          /\ tb.rows[tb.index[p]].val = c[p] /\ tb.index[p] \notin tb.deleted
      BY <2>2, CleanLookup
    <3>2. tb.rows[tb.index[p]].val \in Val
      BY <3>1 DEF WellFormed, IsTable, Row
    <3> QED
      BY <2>2, <3>1, <3>2, ValuesDistinct DEF Names
  <2> QED
    BY <2>1, <2>2
<1>2. IndexNames(tb.index, tb.rows, segs, top)
  BY <1>1 DEF IndexNames
<1>3. 1 .. Len(<<>>) = {}
  OBVIOUS
<1>4. Logged(<<>>, tb.index, c, tb.rows, tb.deleted, segs, top)
  BY <1>1, <1>2, <1>3 DEF Logged
<1>5. Ahead(<<>>, tb.index, tb.rows, DOMAIN tb.rows)
  BY <1>3 DEF Ahead
<1>6. ASSUME NEW w, NEW idx, Logged(w, idx, c, tb.rows, tb.deleted, segs, top)
      PROVE  Logged(w, tb.index, c, tb.rows, tb.deleted, segs, top)
  BY <1>1, <1>2, <1>6 DEF Logged
<1> QED
  BY <1>4, <1>5, <1>6

\* Rows applied, and flushed.
LEMMA CleanRows ==
    ASSUME TypeInv, CleanInv, NEW p \in PK, DeleteRow(p) \/ \E v \in Val : WriteRow(p, v)
    PROVE  CleanInv'
<1>1. /\ pc = "up" /\ pc' = "up" /\ sealed' = sealed /\ listed' = listed /\ idxFile' = idxFile
      /\ disk' = Flushed(disk, t')
  BY DEF DeleteRow, WriteRow
<1>2. /\ Clean(t, sealed, listed, idxFile, content) /\ Named(t, sealed, listed, disk)
      /\ AtRest(t, sealed, disk)
  BY <1>1 DEF CleanInv, UpInv, ServingInv
<1>3. /\ WellFormed(t) /\ sealed \in SUBSET Nat /\ idxFile \in Index
      /\ content \in [PK -> Val \cup {NoVal}] /\ DiskOK(disk)
  BY DEF TypeInv, Control
<1>4. ASSUME NEW new, WellFormed(new), Extends(t, new), NEW c, Clean(new, sealed, listed, idxFile, c),
             t' = Marked(new, sealed), content' = c
      PROVE  CleanInv'
  <2>1. Stored(new, sealed)
    BY <1>4 DEF Clean
  <2>2. WellFormed(t') /\ t'.active = new.active /\ Untouched(new, t')
    BY <1>4, <2>1, MarkedKeeps
  <2>3. Clean(t', sealed, listed, idxFile, c)
    BY <1>4, <2>2, UntouchedClean
  <2>4. Extends(t, t')
    BY <1>4, <2>2 DEF Extends, Untouched
  <2>5. Covered(disk, t', sealed) /\ t'.active \in disk.dirs
    BY <1>2, <2>4, RestCovers
  <2>6. AtRest(t', sealed, disk') /\ disk'.segs = disk.segs /\ disk'.active = disk.active
    BY <1>1, <1>3, <2>5, FlushRests
  <2>7. Named(t', sealed, listed, disk')
    BY <1>2, <2>4, <2>6 DEF Named, Extends
  <2>8. UpInv'
    BY <1>1, <1>4, <2>3, <2>6, <2>7 DEF UpInv, ServingInv
  <2> QED
    BY <1>1, <2>8 DEF CleanInv
<1>5. ASSUME DeleteRow(p) PROVE CleanInv'
  <2> DEFINE new == Delete(t, p)
  <2>1. /\ WellFormed(new) /\ Extends(t, new)
        /\ Clean(new, sealed, listed, idxFile, [content EXCEPT ![p] = NoVal])
    BY <1>2, <1>3, DeleteClean
  <2>2. t' = Marked(new, sealed) /\ content' = [content EXCEPT ![p] = NoVal]
    BY <1>5 DEF DeleteRow
  <2> HIDE DEF new
  <2> QED
    BY <1>4, <2>1, <2>2
<1>6. ASSUME NEW v \in Val, WriteRow(p, v) PROVE CleanInv'
  <2> DEFINE ins == Insert(t, p, v)
             new == Reconcile(ins)
             c == [content EXCEPT ![p] = v]
  <2>1. WellFormed(ins) /\ Extends(t, ins) /\ Clean(ins, sealed, listed, idxFile, c)
    BY <1>2, <1>3, InsertClean
  <2>2. t' = Marked(new, sealed) /\ content' = c
    BY <1>6 DEF WriteRow, Applied
  <2> HIDE DEF ins, c
  <2>3. \A q \in PK : LiveOf(ins, q) \subseteq {ins.index[q]}
    BY <2>1 DEF Clean, Keys
  <2>4. WellFormed(new) /\ new.active = ins.active /\ Untouched(ins, new)
    BY <2>1, <2>3, ReconcileKeeps
  <2> HIDE DEF new
  <2>5. Clean(new, sealed, listed, idxFile, c)
    BY <2>1, <2>4, UntouchedClean
  <2>6. Extends(t, new)
    BY <2>1, <2>4 DEF Extends, Untouched
  <2> QED
    BY <1>4, <2>2, <2>4, <2>5, <2>6
<1> QED
  BY <1>5, <1>6

\* flush_active_segment at rest, after changes that have not reached the directories.
LEMMA FlushUp ==
    ASSUME TypeInv, UpInv, NEW tb, WellFormed(tb), Extends(t, tb),
           NEW c, Clean(tb, sealed, listed, idxFile, c), FlushActiveSegment(tb),
           idxFile' = idxFile, content' = c
    PROVE  UpInv' /\ t'.count = 0
<1>1. DiskOK(disk) /\ sealed \subseteq Nat /\ DOMAIN listed \subseteq Nat
  BY DEF TypeInv
<1>2. Named(t, sealed, listed, disk) /\ AtRest(t, sealed, disk)
  BY DEF UpInv, ServingInv
<1>3. Covered(disk, tb, sealed) /\ tb.active \in disk.dirs
  BY <1>2, RestCovers
<1>4. Named(tb, sealed, listed, disk)
  BY <1>2 DEF Named, Extends
<1>5. /\ Clean(t', sealed', listed', idxFile, c) /\ AtRest(t', sealed', disk')
      /\ Named(t', sealed', listed', disk') /\ t'.count = 0
  BY <1>1, <1>3, <1>4, FlushActiveClean
<1> QED
  BY <1>5 DEF UpInv, ServingInv

\* Every live row deleted: no key has content.
LEMMA AllDeleted ==
    ASSUME TypeInv, UpInv
    PROVE  LET tb == DeleteLive(t) IN
           /\ WellFormed(tb) /\ Extends(t, tb)
           /\ Clean(tb, sealed, listed, idxFile, [p \in PK |-> NoVal])
<1> DEFINE N == Cardinality(Live(t))
           left(k) == [p \in PK |-> IF \E j \in 1 .. k : KeyAt(t, j) = p THEN NoVal ELSE content[p]]
<1>1. /\ WellFormed(t) /\ sealed \in SUBSET Nat /\ idxFile \in Index
      /\ content \in [PK -> Val \cup {NoVal}]
  BY DEF TypeInv, Control
<1>2. Clean(t, sealed, listed, idxFile, content) /\ Keys(t, content)
  BY DEF UpInv, ServingInv, Clean
<1>3. /\ N \in Nat
      /\ \A k \in 1 .. N : KeyAt(t, k) \in PK
      /\ \A l \in Live(t) : \E k \in 1 .. N : KeyAt(t, k) = t.rows[l].pk
      /\ \E f : /\ f[0] = t /\ DeleteLive(t) = f[N]
                /\ \A k \in 1 .. N : f[k] = Delete(f[k - 1], KeyAt(t, k))
  BY <1>1, DeleteSteps
<1> HIDE DEF N
<1>4. PICK f : /\ f[0] = t /\ DeleteLive(t) = f[N]
               /\ \A k \in 1 .. N : f[k] = Delete(f[k - 1], KeyAt(t, k))
  BY <1>3
<1> DEFINE Good == {k \in Nat : /\ WellFormed(f[k]) /\ Extends(t, f[k])
                                /\ Clean(f[k], sealed, listed, idxFile, left(k))}
<1>5. \A k \in Nat : left(k) \in [PK -> Val \cup {NoVal}]
  BY <1>1
<1>6. 0 \in Good
  <2>1. left(0) = content
    <3>1. 1 .. 0 = {}
      OBVIOUS
    <3>2. \A p \in PK : left(0)[p] = content[p]
      BY <3>1
    <3> QED
      BY <1>1, <3>2
  <2>2. Extends(t, t)
    BY DEF Extends
  <2> HIDE DEF left
  <2> QED
    BY <1>1, <1>2, <1>4, <2>1, <2>2
<1>7. ASSUME NEW k \in 1 .. N, k - 1 \in Good PROVE k \in Good
  <2> DEFINE q == KeyAt(t, k)
             old == f[k - 1]
             new == Delete(old, q)
  <2>1. WellFormed(old) /\ Extends(t, old) /\ Clean(old, sealed, listed, idxFile, left(k - 1))
    BY <1>7
  <2>2. k \in Nat /\ k - 1 \in Nat /\ q \in PK /\ f[k] = new
    BY <1>3, <1>4
  <2>3. left(k) = [left(k - 1) EXCEPT ![q] = NoVal]
    <3>1. \A j : j \in 1 .. k <=> j \in 1 .. k - 1 \/ j = k
      BY <2>2
    <3>2. ASSUME NEW p \in PK PROVE left(k)[p] = [left(k - 1) EXCEPT ![q] = NoVal][p]
      BY <2>2, <3>1
    <3>3. left(k) \in [PK -> Val \cup {NoVal}] /\ left(k - 1) \in [PK -> Val \cup {NoVal}]
      BY <1>5, <2>2
    <3> HIDE DEF left
    <3> QED
      BY <3>2, <3>3
  <2>4. left(k - 1) \in [PK -> Val \cup {NoVal}]
    BY <1>5, <2>2
  <2> HIDE DEF left, old, q
  <2>5. /\ WellFormed(new) /\ Extends(old, new)
        /\ Clean(new, sealed, listed, idxFile, [left(k - 1) EXCEPT ![q] = NoVal])
    BY <1>1, <2>1, <2>2, <2>4, DeleteClean
  <2> HIDE DEF new
  <2>6. Extends(t, new)
    BY <2>1, <2>5 DEF Extends
  <2> QED
    BY <2>2, <2>3, <2>5, <2>6
<1>8. N \in Good
  <2> HIDE DEF Good
  <2>1. \A k \in 0 .. N : k \in Good
    BY <1>3, <1>6, <1>7, UpTo
  <2> QED
    BY <1>3, <2>1
<1>9. left(N) = [p \in PK |-> NoVal]
  <2> SUFFICES ASSUME NEW p \in PK, ~ \E j \in 1 .. N : KeyAt(t, j) = p PROVE content[p] = NoVal
    OBVIOUS
  <2>1. t.index[p] = NoLoc
    <3>1. ASSUME t.index[p] # NoLoc PROVE FALSE
      <4>1. t.index[p] \in LiveOf(t, p)
        BY <1>2, <3>1 DEF Keys
      <4>2. t.index[p] \in Live(t) /\ t.rows[t.index[p]].pk = p
        BY <4>1 DEF LiveOf
      <4> QED
        BY <1>3, <4>2
    <3> QED
      BY <3>1
  <2> QED
    BY <1>2, <2>1 DEF Keys
<1>10. WellFormed(f[N]) /\ Extends(t, f[N]) /\ Clean(f[N], sealed, listed, idxFile, left(N))
  BY <1>8
<1> HIDE DEF left
<1> QED
  BY <1>4, <1>9, <1>10

\* The flushes.
LEMMA CleanFlushes ==
    ASSUME TypeInv, CleanInv, SaveIndex \/ Rotate \/ EndCopy \/ DeleteAllRows
    PROVE  CleanInv'
<1>1. pc = "up" /\ pc' = "up"
  BY DEF SaveIndex, Rotate, EndCopy, DeleteAllRows
<1>2. UpInv
  BY <1>1 DEF CleanInv
<1>3. SUFFICES UpInv'
  BY <1>1 DEF CleanInv
<1>4. Clean(t, sealed, listed, idxFile, content) /\ Extends(t, t) /\ WellFormed(t)
  BY <1>2 DEF UpInv, ServingInv, Extends, TypeInv
<1>5. CASE SaveIndex
  <2>1. /\ idxFile' = t.index /\ t' = [t EXCEPT !.wal = <<>>]
        /\ sealed' = sealed /\ listed' = listed /\ disk' = disk /\ content' = content
    BY <1>5 DEF SaveIndex, history
  <2>2. <<>> \in Seq(WalOp)
    OBVIOUS
  <2>3. /\ WellFormed(t')
        /\ t'.active = t.active /\ t'.count = t.count /\ t'.rows = t.rows
        /\ t'.deleted = t.deleted /\ t'.index = t.index /\ t'.wal = <<>>
    BY <1>4, <2>1, <2>2, WalIs
  <2>4. Stored(t, sealed) /\ Counted(listed, t.rows, sealed) /\ Keys(t, content)
    BY <1>4 DEF Clean
  <2>5. Keys(t', content) /\ Stored(t', sealed) /\ Counted(listed, t'.rows, sealed)
    BY <2>3, <2>4 DEF Keys, LiveOf, Live, Stored
  <2>6. /\ Logged(<<>>, t'.index, content, t'.rows, t'.deleted, sealed, t'.active)
        /\ Ahead(<<>>, t'.index, t'.rows, DOMAIN t'.rows)
    BY <2>3, <2>5, SavedIndex
  <2>7. Clean(t', sealed, listed, t'.index, content)
    BY <2>3, <2>5, <2>6 DEF Clean
  <2>8. AtRest(t', sealed, disk) /\ Named(t', sealed, listed, disk)
    BY <1>2, <2>3 DEF UpInv, ServingInv, AtRest, Named
  <2> QED
    BY <2>1, <2>3, <2>7, <2>8 DEF UpInv, ServingInv
<1>6. CASE Rotate \/ EndCopy
  <2>1. FlushActiveSegment(t) /\ idxFile' = idxFile /\ content' = content
    BY <1>6 DEF Rotate, EndCopy, history
  <2> QED
    BY <1>2, <1>4, <2>1, FlushUp
<1>7. CASE DeleteAllRows
  <2> DEFINE none == [p \in PK |-> NoVal]
             tb == DeleteLive(t)
             new == Marked(tb, sealed)
  <2>1. FlushActiveSegment(new) /\ idxFile' = idxFile /\ content' = none
    BY <1>7 DEF DeleteAllRows
  <2>2. WellFormed(tb) /\ Extends(t, tb) /\ Clean(tb, sealed, listed, idxFile, none)
    BY <1>2, AllDeleted
  <2> HIDE DEF tb, none
  <2>3. WellFormed(new) /\ new.active = tb.active /\ Untouched(tb, new)
    BY <2>2, MarkedKeeps DEF Clean
  <2> HIDE DEF new
  <2>4. Clean(new, sealed, listed, idxFile, none)
    BY <2>2, <2>3, UntouchedClean
  <2>5. Extends(t, new)
    BY <2>2, <2>3 DEF Extends, Untouched
  <2> QED
    BY <1>2, <2>1, <2>3, <2>4, <2>5, FlushUp
<1> QED
  BY <1>5, <1>6, <1>7

-----------------------------------------------------------------------------
(* The steps of compact() *)

\* After a flush every row is in an immutable segment.
LEMMA AllSealed ==
    ASSUME NEW tb, WellFormed(tb), NEW segs, Stored(tb, segs), tb.count = 0
    PROVE  /\ \A l \in DOMAIN tb.rows : l \in Loc /\ l[1] \in Nat /\ l[1] \in segs /\ l[1] < tb.active
           /\ \A l \in tb.deleted : l \in DOMAIN tb.rows
<1>1. RowsOK(tb.rows) /\ tb.active \in Nat
  BY TableParts
<1>2. /\ Dense(tb.rows) /\ tb.count = CountIn(tb.rows, tb.active)
      /\ \A s \in segs : s < tb.active
      /\ \A l \in DOMAIN tb.rows : l[1] \in segs \/ l[1] = tb.active
      /\ tb.deleted \subseteq DOMAIN tb.rows
  BY DEF Stored
<1>3. ASSUME NEW l \in DOMAIN tb.rows PROVE l \in Loc /\ l[1] \in Nat /\ l[1] # tb.active
  <2>1. l \in Loc /\ l[1] \in Nat /\ l[2] \in Nat /\ l[2] > 0
    BY <1>1 DEF RowsOK, Loc
  <2>2. l[2] <= CountIn(tb.rows, l[1])
    BY <1>1, <1>2, <2>1, DenseCount
  <2>3. l[1] # tb.active
    BY <1>2, <2>1, <2>2
  <2> QED
    BY <2>1, <2>3
<1> QED
  BY <1>2, <1>3

\* What is packed is the table's content.
LEMMA PacksContent ==
    ASSUME NEW tb, WellFormed(tb), NEW segs, Stored(tb, segs), tb.count = 0,
           NEW c, Keys(tb, c), NEW o, o = Packed(tb, segs)
    PROVE  /\ Dense(o.rows)
           /\ \A l \in DOMAIN o.rows : l[1] > tb.active /\ l[1] <= tb.active + Cardinality(SegsOf(o.rows))
           /\ \A p \in PK :
                /\ \A l \in DOMAIN o.rows : o.rows[l].pk = p => l = o.index[p]
                /\ o.index[p] = NoLoc => c[p] = NoVal
                /\ o.index[p] # NoLoc => /\ o.index[p] \in DOMAIN o.rows
                                         /\ o.rows[o.index[p]].pk = p
                                         /\ o.rows[o.index[p]].val = c[p]
<1> DEFINE live == Survivors(tb, segs)
<1>1. /\ Copies(o.rows, tb.rows, live)
      /\ DOMAIN o.rows \subseteq Loc /\ Bounded(o) /\ Dense(o.rows)
      /\ \A s \in SegsOf(o.rows) : s \in Nat /\ s > tb.active /\ tb.active + 1 .. s \subseteq SegsOf(o.rows)
      /\ \A p \in PK : IF \E x \in DOMAIN o.rows : o.rows[x].pk = p
                       THEN o.index[p] \in DOMAIN o.rows /\ o.rows[o.index[p]].pk = p
                       ELSE o.index[p] = NoLoc
  <2> DEFINE P == Packed(tb, segs)
  <2>1. /\ Copies(P.rows, tb.rows, Survivors(tb, segs))
        /\ DOMAIN P.rows \subseteq Loc /\ Bounded(P) /\ Dense(P.rows)
        /\ \A s \in SegsOf(P.rows) : s \in Nat /\ s > tb.active
                                      /\ tb.active + 1 .. s \subseteq SegsOf(P.rows)
        /\ P.index \in [PK -> DOMAIN P.rows \cup {NoLoc}]
        /\ \A p \in PK : IF \E x \in DOMAIN P.rows : P.rows[x].pk = p
                         THEN P.index[p] \in DOMAIN P.rows /\ P.rows[P.index[p]].pk = p
                         ELSE P.index[p] = NoLoc
    BY PackedIs
  <2>2. o = P
    OBVIOUS
  <2> HIDE DEF P
  <2> QED
    BY <2>1, <2>2
<1>2. live = Live(tb)
  <2> SUFFICES ASSUME NEW l \in Live(tb) PROVE l \in live
    BY DEF Survivors
  <2>1. l \in DOMAIN tb.rows
    BY DEF Live
  <2>2. l[1] \in segs /\ l \in Loc
    BY <2>1, AllSealed
  <2>3. tb.rows[l].pk \in PK
    BY <2>1 DEF WellFormed, IsTable, Row
  <2>4. l = tb.index[tb.rows[l].pk]
    BY <2>3 DEF Keys, LiveOf
  <2>5. l # NoLoc
    BY <2>2 DEF Loc, NoLoc
  <2> QED
    BY <2>2, <2>3, <2>4, <2>5 DEF Survivors, IndexedLocs
<1> HIDE DEF live
<1>3. PICK g \in [DOMAIN o.rows -> live] :
        /\ \A x \in DOMAIN o.rows : o.rows[x] = tb.rows[g[x]]
        /\ \A x, y \in DOMAIN o.rows : g[x] = g[y] => x = y
        /\ \A l \in live : \E x \in DOMAIN o.rows : g[x] = l
  BY <1>1 DEF Copies
<1>4. ASSUME NEW p \in PK, NEW x \in DOMAIN o.rows, o.rows[x].pk = p
      PROVE  g[x] = tb.index[p] /\ g[x] # NoLoc /\ o.rows[x].val = c[p]
  <2>1. g[x] \in LiveOf(tb, p)
    BY <1>2, <1>3, <1>4 DEF LiveOf
  <2>2. g[x] = tb.index[p]
    BY <2>1 DEF Keys
  <2>3. g[x] # NoLoc
    BY <2>1 DEF LiveOf, Live, WellFormed, IsTable, Loc, NoLoc
  <2>4. tb.rows[g[x]].val = c[p]
    BY <2>2, <2>3 DEF Keys
  <2> QED
    BY <1>3, <2>2, <2>3, <2>4
<1>5. ASSUME NEW p \in PK
      PROVE  /\ \A l \in DOMAIN o.rows : o.rows[l].pk = p => l = o.index[p]
             /\ o.index[p] = NoLoc => c[p] = NoVal
             /\ o.index[p] # NoLoc => /\ o.index[p] \in DOMAIN o.rows
                                      /\ o.rows[o.index[p]].pk = p
                                      /\ o.rows[o.index[p]].val = c[p]
  <2>1. CASE \E x \in DOMAIN o.rows : o.rows[x].pk = p
    <3>1. o.index[p] \in DOMAIN o.rows /\ o.rows[o.index[p]].pk = p
      BY <1>1, <2>1
    <3>2. o.rows[o.index[p]].val = c[p] /\ g[o.index[p]] = tb.index[p]
      BY <1>4, <3>1
    <3>3. \A l \in DOMAIN o.rows : o.rows[l].pk = p => l = o.index[p]
      BY <1>3, <1>4, <3>1, <3>2
    <3>4. o.index[p] # NoLoc
      BY <1>1, <3>1 DEF Loc, NoLoc
    <3> QED
      BY <3>1, <3>2, <3>3, <3>4
  <2>2. CASE ~ \E x \in DOMAIN o.rows : o.rows[x].pk = p
    <3>1. o.index[p] = NoLoc
      BY <1>1, <2>2
    <3>2. LiveOf(tb, p) = {}
      BY <1>2, <1>3, <2>2 DEF LiveOf
    <3>3. c[p] = NoVal
      BY <3>2 DEF Keys
    <3> QED
      BY <2>2, <3>1, <3>3
  <2> QED
    BY <2>1, <2>2
<1>6. ASSUME NEW l \in DOMAIN o.rows
      PROVE  l[1] > tb.active /\ l[1] <= tb.active + Cardinality(SegsOf(o.rows))
  <2> DEFINE a == tb.active
             s == l[1]
             U == SegsOf(o.rows)
  <2>1. s \in U
    BY DEF SegsOf
  <2>2. s \in Nat /\ s > a /\ a \in Nat /\ a + 1 .. s \in SUBSET U
    BY <1>1, <2>1, TableParts
  <2>3. IsFiniteSet(U)
    <3>1. RowsOK(o.rows)
      BY PackedOK
    <3> QED
      BY <3>1, CountOK
  <2> HIDE DEF a, s, U
  <2>4. Cardinality(a + 1 .. s) <= Cardinality(U) /\ IsFiniteSet(a + 1 .. s)
    BY <2>2, <2>3, FS_Subset
  <2>5. a + 1 \in Int /\ s \in Int /\ ~ (a + 1 > s)
    BY <2>2
  <2>6. Cardinality(a + 1 .. s) = s - (a + 1) + 1
    BY <2>5, FS_Interval
  <2>7. Cardinality(U) \in Nat
    BY <2>3, FS_CardinalityType
  <2>8. s > a /\ s <= a + Cardinality(U)
    BY <2>2, <2>4, <2>6, <2>7
  <2> QED
    BY <2>8 DEF a, s, U
<1> QED
  BY <1>1, <1>5, <1>6

\* compact() up to the temporary directory.
LEMMA CleanCompactBegin ==
    ASSUME TypeInv, CleanInv, CompactBegin, WellFormed(t')
    PROVE  CleanInv'
<1>1. pc = "up" /\ FlushActiveSegment(t) /\ idxFile' = idxFile /\ content' = content
      /\ copying' = copying /\ ~copying
  BY DEF CompactBegin, history
<1>2. UpInv /\ WellFormed(t)
  BY <1>1 DEF CleanInv, TypeInv
<1>3. Clean(t, sealed, listed, idxFile, content) /\ Extends(t, t)
  BY <1>2 DEF UpInv, ServingInv, Extends
<1>4. UpInv' /\ t'.count = 0
  BY <1>1, <1>2, <1>3, FlushUp
<1>5. /\ ServingInv' /\ Stored(t', sealed') /\ Keys(t', content')
      /\ SameRows(disk'.rows, t'.rows) /\ disk'.dead = t'.deleted
      /\ sealed' \cup {t'.active} \subseteq disk'.dirs
  BY <1>4 DEF UpInv, ServingInv, Clean, AtRest
<1>6. sealed' # {} => HasFiles(disk', sealed')
  <2>1. \A s \in sealed' : \E l \in DOMAIN t'.rows : l[1] = s
    BY <1>5 DEF Stored
  <2> QED
    BY <1>5, <2>1 DEF HasFiles, SameRows
<1> DEFINE go == WorthIt(t', sealed') /\ HasFiles(disk', sealed')
<1>7. /\ pc' = IF go THEN "renaming" ELSE "up"
      /\ out' = IF go THEN Packed(t', sealed') ELSE NoOutput
      /\ todo' = SegsOf(out'.rows)
  <2>1. ~ (sealed' # {} /\ IndexedLocs(t') = {} /\ ~HasFiles(disk', sealed'))
    BY <1>6
  <2> QED
    BY <2>1 DEF CompactBegin, SegsOf
<1>8. CASE ~go
  BY <1>4, <1>7, <1>8 DEF CleanInv
<1>9. CASE go
  <2>1. out' = Packed(t', sealed') /\ pc' = "renaming"
    BY <1>7, <1>9
  <2>2. sealed' # {}
    BY <1>9 DEF HasFiles
  <2>3. PackedInv'
    <3>1. /\ Dense(out'.rows)
          /\ \A l \in DOMAIN out'.rows :
                l[1] > t'.active /\ l[1] <= t'.active + Cardinality(SegsOf(out'.rows))
          /\ \A p \in PK :
               /\ \A l \in DOMAIN out'.rows : out'.rows[l].pk = p => l = out'.index[p]
               /\ out'.index[p] = NoLoc => content'[p] = NoVal
               /\ out'.index[p] # NoLoc => /\ out'.index[p] \in DOMAIN out'.rows
                                           /\ out'.rows[out'.index[p]].pk = p
                                           /\ out'.rows[out'.index[p]].val = content'[p]
      BY <1>4, <1>5, <2>1, PacksContent
    <3> QED
      BY <1>4, <2>2, <3>1 DEF PackedInv
  <2>4. Holds(sealed, SegsOf(out.rows) \ todo)'
    <3>1. SegsOf(out'.rows) \ todo' = {}
      BY <1>7
    <3>2. /\ \A l \in DOMAIN t'.rows : l[1] \in sealed'
          /\ \A l \in t'.deleted : l \in DOMAIN t'.rows
      BY <1>4, <1>5, AllSealed
    <3>3. /\ \A l : l \in DOMAIN disk'.rows <=> l \in DOMAIN t'.rows /\ l[1] \in sealed'
          /\ \A l \in DOMAIN disk'.rows : disk'.rows[l] = t'.rows[l]
      BY <1>5, <3>2 DEF SameRows
    <3>4. disk'.dead = {l \in t'.deleted : l[1] \in sealed'}
      BY <1>5, <3>2
    <3> QED
      BY <1>5, <3>1, <3>3, <3>4 DEF Holds
  <2>5. RenamingInv'
    BY <1>5, <1>7, <2>3, <2>4 DEF RenamingInv
  <2> QED
    BY <1>1, <2>1, <2>5 DEF CleanInv
<1> QED
  BY <1>8, <1>9

\* New and old segments are told apart by their ids.
LEMMA PackedApart ==
    ASSUME TypeInv, ServingInv, PackedInv
    PROVE  /\ t.active \in Nat /\ SegsOf(out.rows) \subseteq Nat /\ \A u \in SegsOf(out.rows) : u > t.active
           /\ \A s \in sealed : s \in Nat /\ s < t.active
           /\ \A l \in DOMAIN t.rows : l \in Loc /\ l[1] \in Nat /\ l[1] \in sealed
           /\ \A l \in t.deleted : l \in DOMAIN t.rows
           /\ \A l \in DOMAIN out.rows : l[1] \in SegsOf(out.rows)
<1>1. WellFormed(t) /\ Stored(t, sealed) /\ t.count = 0 /\ sealed \subseteq Nat
  BY DEF TypeInv, ServingInv, Clean, PackedInv
<1>2. /\ \A l \in DOMAIN t.rows : l \in Loc /\ l[1] \in Nat /\ l[1] \in sealed
      /\ \A l \in t.deleted : l \in DOMAIN t.rows
  BY <1>1, AllSealed
<1>3. \A s \in sealed : s \in Nat /\ s < t.active
  BY <1>1 DEF Stored
<1>4. SegsOf(out.rows) \subseteq Nat /\ t.active \in Nat
  BY CountOK, TableParts DEF TypeInv
<1>5. \A u \in SegsOf(out.rows) : u > t.active
  BY DEF SegsOf, PackedInv
<1>6. \A l \in DOMAIN out.rows : l[1] \in SegsOf(out.rows)
  BY DEF SegsOf
<1> QED
  BY <1>2, <1>3, <1>4, <1>5, <1>6

\* A temporary directory gets its final name.
LEMMA CleanCompactRename ==
    ASSUME TypeInv, CleanInv, CompactRename
    PROVE  CleanInv'
<1>1. /\ pc = "renaming" /\ t' = t /\ sealed' = sealed /\ listed' = listed /\ idxFile' = idxFile
      /\ out' = out /\ copying' = copying /\ content' = content
  BY DEF CompactRename, history
<1>2. /\ ServingInv /\ PackedInv /\ todo \subseteq SegsOf(out.rows)
      /\ Holds(sealed, SegsOf(out.rows) \ todo) /\ ~copying
  BY <1>1 DEF CleanInv, RenamingInv
<1>3. PackedInv'
  BY <1>1, <1>2 DEF PackedInv
<1>4. CASE todo = {}
  <2>1. todo' = sealed /\ pc' = "deleting" /\ disk' = disk
    BY <1>4 DEF CompactRename
  <2>2. ServingInv'
    BY <1>1, <1>2, <2>1 DEF ServingInv
  <2>3. SegsOf(out.rows) \ todo = SegsOf(out.rows)
    BY <1>4
  <2>4. Holds(todo, SegsOf(out.rows))'
    BY <1>1, <1>2, <2>1, <2>3 DEF Holds
  <2>5. DeletingInv'
    BY <1>1, <1>3, <2>1, <2>2, <2>4 DEF DeletingInv
  <2> QED
    BY <1>1, <1>2, <2>1, <2>5 DEF CleanInv
<1>5. CASE todo # {}
  <2>1. PICK s \in todo :
           /\ disk' = [WithoutDirs(disk, {s}) EXCEPT
                          !.dirs = @ \cup {s}, !.rows = Over(Within(out.rows, {s}), @)]
           /\ todo' = todo \ {s} /\ pc' = pc
    BY <1>5 DEF CompactRename
  <2> DEFINE d == WithoutDirs(disk, {s})
             new == SegsOf(out.rows) \ todo
             w == Within(out.rows, {s})
             k == Within(disk.rows, disk.dirs \ {s})
  <2>2. /\ DiskOK(d) /\ d.dirs = disk.dirs \ {s} /\ d.segs = disk.segs /\ d.active = disk.active
        /\ d.rows = k /\ d.dead = {l \in disk.dead : l[1] \notin {s}}
    <3>1. DiskOK(disk)
      BY DEF TypeInv
    <3>2. DiskOK(d)
      BY <3>1, WithoutDirsIs
    <3> QED
      BY <3>1, <3>2 DEF WithoutDirs, DiskOK
  <2>3. disk' = [d EXCEPT !.dirs = @ \cup {s}, !.rows = Over(w, @)]
    BY <2>1
  <2> HIDE DEF d
  <2>4. /\ disk'.dirs = d.dirs \cup {s} /\ disk'.rows = Over(w, d.rows)
        /\ disk'.dead = d.dead /\ disk'.segs = d.segs /\ disk'.active = d.active
    BY <2>2, <2>3 DEF DiskOK
  <2>5. /\ DOMAIN w = {l \in DOMAIN out.rows : l[1] = s} /\ \A l \in DOMAIN w : w[l] = out.rows[l]
        /\ DOMAIN k = {l \in DOMAIN disk.rows : l[1] \in disk.dirs /\ l[1] # s}
        /\ \A l \in DOMAIN k : k[l] = disk.rows[l]
    BY DEF Within
  <2> HIDE DEF w, k
  <2>6. /\ DOMAIN Over(w, k) = DOMAIN w \cup DOMAIN k
        /\ \A l \in DOMAIN w : Over(w, k)[l] = w[l]
        /\ \A l \in DOMAIN k \ DOMAIN w : Over(w, k)[l] = k[l]
    BY OverIs
  <2>7. s \in SegsOf(out.rows) /\ s \in Nat /\ s > t.active /\ s \notin sealed /\ s \notin new
        /\ s # t.active
    BY <1>2, PackedApart
  <2>8. /\ \A l : l \in DOMAIN disk.rows <=>
                     (l \in DOMAIN out.rows /\ l[1] \in new) \/ (l \in DOMAIN t.rows /\ l[1] \in sealed)
        /\ \A l \in DOMAIN disk.rows : disk.rows[l] = IF l[1] \in new THEN out.rows[l] ELSE t.rows[l]
        /\ disk.dead = {l \in t.deleted : l[1] \in sealed}
        /\ sealed \cup new \cup {t.active} \subseteq disk.dirs
    BY <1>2 DEF Holds
  <2>9. SegsOf(out.rows) \ todo' = new \cup {s}
    BY <2>1, <2>7
  <2>10. \A l \in DOMAIN t.rows : l[1] \in sealed
    BY <1>2, PackedApart
  <2> HIDE DEF new
  <2>11. DOMAIN k = DOMAIN disk.rows
    BY <2>5, <2>7, <2>8
  <2>12. \A l : l \in DOMAIN disk'.rows <=>
            (l \in DOMAIN out.rows /\ l[1] \in new \cup {s}) \/ (l \in DOMAIN t.rows /\ l[1] \in sealed)
    BY <2>2, <2>4, <2>5, <2>6, <2>8, <2>11
  <2>13. ASSUME NEW l \in DOMAIN disk'.rows
         PROVE  disk'.rows[l] = IF l[1] \in new \cup {s} THEN out.rows[l] ELSE t.rows[l]
    <3>1. CASE l \in DOMAIN w
      BY <2>2, <2>4, <2>5, <2>6, <3>1
    <3>2. CASE l \notin DOMAIN w
      <4>1. l \in DOMAIN k /\ disk'.rows[l] = k[l] /\ k[l] = disk.rows[l]
        BY <2>2, <2>4, <2>5, <2>6, <3>2
      <4>2. l[1] # s
        BY <2>5, <4>1
      <4> QED
        BY <2>8, <2>11, <4>1, <4>2
    <3> QED
      BY <3>1, <3>2
  <2>14. disk'.dead = {l \in t.deleted : l[1] \in sealed}
    BY <2>2, <2>4, <2>7, <2>8
  <2>15. sealed \cup (new \cup {s}) \cup {t.active} \subseteq disk'.dirs
    BY <2>2, <2>4, <2>8
  <2>16. Holds(sealed, SegsOf(out.rows) \ todo)'
    BY <1>1, <2>9, <2>12, <2>13, <2>14, <2>15 DEF Holds
  <2>17. ServingInv'
    BY <1>1, <1>2, <2>2, <2>4 DEF ServingInv, Named
  <2>18. RenamingInv'
    BY <1>1, <1>2, <1>3, <2>1, <2>16, <2>17 DEF RenamingInv
  <2> QED
    BY <1>1, <1>2, <2>1, <2>18 DEF CleanInv
<1> QED
  BY <1>4, <1>5

\* An old directory is removed.
LEMMA CleanCompactDelete ==
    ASSUME TypeInv, CleanInv, CompactDelete
    PROVE  CleanInv'
<1>1. /\ pc = "deleting" /\ pc' = pc /\ t' = t /\ sealed' = sealed /\ listed' = listed
      /\ idxFile' = idxFile /\ out' = out /\ copying' = copying /\ content' = content
  BY DEF CompactDelete, history
<1>2. /\ ServingInv /\ PackedInv /\ todo \subseteq sealed /\ Holds(todo, SegsOf(out.rows)) /\ ~copying
  BY <1>1 DEF CleanInv, DeletingInv
<1>3. PICK s \in todo : disk' = WithoutDirs(disk, {s}) /\ todo' = todo \ {s}
  BY DEF CompactDelete
<1> DEFINE new == SegsOf(out.rows)
           k == Within(disk.rows, disk.dirs \ {s})
<1>4. /\ disk'.dirs = disk.dirs \ {s} /\ disk'.segs = disk.segs /\ disk'.active = disk.active
      /\ disk'.rows = k /\ disk'.dead = {l \in disk.dead : l[1] \notin {s}}
  BY <1>3 DEF WithoutDirs, TypeInv, DiskOK
<1>5. /\ DOMAIN k = {l \in DOMAIN disk.rows : l[1] \in disk.dirs /\ l[1] # s}
      /\ \A l \in DOMAIN k : k[l] = disk.rows[l]
  BY DEF Within
<1> HIDE DEF k
<1>6. /\ \A l : l \in DOMAIN disk.rows <=>
                   (l \in DOMAIN out.rows /\ l[1] \in new) \/ (l \in DOMAIN t.rows /\ l[1] \in todo)
      /\ \A l \in DOMAIN disk.rows : disk.rows[l] = IF l[1] \in new THEN out.rows[l] ELSE t.rows[l]
      /\ disk.dead = {l \in t.deleted : l[1] \in todo}
      /\ todo \cup new \cup {t.active} \subseteq disk.dirs
  BY <1>2 DEF Holds
<1>7. /\ t.active \in Nat /\ new \subseteq Nat /\ \A u \in new : u > t.active
      /\ s \in Nat /\ s < t.active
  BY <1>2, PackedApart
<1>8. s \notin new /\ s # t.active
  BY <1>7
<1> HIDE DEF new
<1>9. \A l : l \in DOMAIN disk'.rows <=>
          (l \in DOMAIN out.rows /\ l[1] \in new) \/ (l \in DOMAIN t.rows /\ l[1] \in todo')
  BY <1>3, <1>4, <1>5, <1>6, <1>8
<1>10. \A l \in DOMAIN disk'.rows : disk'.rows[l] = IF l[1] \in new THEN out.rows[l] ELSE t.rows[l]
  BY <1>4, <1>5, <1>6
<1>11. disk'.dead = {l \in t.deleted : l[1] \in todo'}
  BY <1>3, <1>4, <1>6
<1>12. todo' \cup new \cup {t.active} \subseteq disk'.dirs
  BY <1>3, <1>4, <1>6, <1>8
<1>13. Holds(todo, SegsOf(out.rows))'
  BY <1>1, <1>9, <1>10, <1>11, <1>12 DEF Holds, new
<1>14. PackedInv' /\ ServingInv'
  BY <1>1, <1>2, <1>4 DEF PackedInv, ServingInv, Named
<1>15. DeletingInv'
  BY <1>1, <1>2, <1>3, <1>13, <1>14 DEF DeletingInv
<1> QED
  BY <1>1, <1>2, <1>15 DEF CleanInv

\* The new segments and the new index replace the old ones.
LEMMA CleanCompactInstall ==
    ASSUME TypeInv, CleanInv, CompactInstall, WellFormed(t')
    PROVE  CleanInv'
<1> DEFINE new == SegsOf(out.rows)
           keep == Within(t.rows, {t.active})
<1>1. /\ pc = "deleting" /\ todo = {} /\ pc' = "installed" /\ sealed' = new
      /\ listed' = Listing(Unlisting(listed, sealed), out, new)
      /\ disk' = [disk EXCEPT !.segs = listed', !.active = 1 + t.active + Cardinality(new)]
      /\ t' = [t EXCEPT !.rows = Over(out.rows, keep), !.index = out.index,
                        !.deleted = {l \in @ : l[1] = t.active}]
      /\ idxFile' = idxFile /\ copying' = copying /\ content' = content
  BY DEF CompactInstall, SegsOf, history
<1>2. /\ ServingInv /\ PackedInv /\ Holds({}, new) /\ ~copying
  BY <1>1 DEF CleanInv, DeletingInv
<1>3. /\ t.active \in Nat /\ new \subseteq Nat /\ \A u \in new : u > t.active
      /\ \A s \in sealed : s \in Nat /\ s < t.active
      /\ \A l \in DOMAIN t.rows : l \in Loc /\ l[1] \in Nat /\ l[1] \in sealed
      /\ \A l \in t.deleted : l \in DOMAIN t.rows
      /\ \A l \in DOMAIN out.rows : l[1] \in new
  BY <1>2, PackedApart
<1>4. /\ Dense(out.rows)
      /\ \A l \in DOMAIN out.rows : l[1] > t.active /\ l[1] <= t.active + Cardinality(new)
      /\ \A p \in PK :
           /\ \A l \in DOMAIN out.rows : out.rows[l].pk = p => l = out.index[p]
           /\ out.index[p] = NoLoc => content[p] = NoVal
           /\ out.index[p] # NoLoc => /\ out.index[p] \in DOMAIN out.rows
                                      /\ out.rows[out.index[p]].pk = p
                                      /\ out.rows[out.index[p]].val = content[p]
  BY <1>2 DEF PackedInv
<1>5. Cardinality(new) \in Nat
  BY CountOK, FS_CardinalityType DEF TypeInv
<1>6. \A s \in new : \E l \in DOMAIN out.rows : l[1] = s
  BY DEF SegsOf
<1>7. /\ \A l : l \in DOMAIN disk.rows <=> l \in DOMAIN out.rows
      /\ \A l \in DOMAIN disk.rows : disk.rows[l] = out.rows[l]
      /\ disk.dead = {} /\ new \subseteq disk.dirs
  BY <1>2, <1>3 DEF Holds
<1>8. /\ disk'.dirs = disk.dirs /\ disk'.rows = disk.rows /\ disk'.dead = disk.dead
      /\ disk'.segs = listed' /\ disk'.active = 1 + t.active + Cardinality(new)
  BY <1>1 DEF TypeInv, DiskOK
<1>9. /\ t'.rows = Over(out.rows, keep) /\ t'.index = out.index /\ t'.wal = t.wal
      /\ t'.deleted = {l \in t.deleted : l[1] = t.active}
  BY <1>1 DEF TypeInv, WellFormed, IsTable
<1>10. DOMAIN keep = {}
  <2>1. \A l \in DOMAIN t.rows : l[1] # t.active
    BY <1>3
  <2> QED
    BY <2>1 DEF Within
<1> HIDE DEF new, keep
<1>11. DOMAIN t'.rows = DOMAIN out.rows /\ \A l \in DOMAIN out.rows : t'.rows[l] = out.rows[l]
  <2>1. /\ DOMAIN Over(out.rows, keep) = DOMAIN out.rows \cup DOMAIN keep
        /\ \A l \in DOMAIN out.rows : Over(out.rows, keep)[l] = out.rows[l]
    BY OverIs
  <2> QED
    BY <1>9, <1>10, <2>1
<1>12. t'.deleted = {}
  <2>1. \A l \in t.deleted : l[1] # t.active
    BY <1>3
  <2> QED
    BY <1>9, <2>1
<1>13. SameRows(disk'.rows, t'.rows) /\ SameRows(disk'.rows, out.rows)
  BY <1>7, <1>8, <1>11 DEF SameRows
<1>14. Dense(disk'.rows) /\ \A s : CountIn(disk'.rows, s) = CountIn(out.rows, s)
  BY <1>4, <1>13, SameCounts
<1>15. DOMAIN disk'.segs = new /\ Counted(disk'.segs, disk'.rows, new)
  <2> DEFINE m == Unlisting(listed, sealed)
  <2>1. DOMAIN listed = sealed
    BY <1>2 DEF ServingInv, Clean, Counted
  <2>2. DOMAIN m = {}
    BY <2>1 DEF Unlisting
  <2>3. disk'.segs = Listing(m, out, new)
    BY <1>1, <1>8
  <2> HIDE DEF m
  <2>4. /\ DOMAIN Listing(m, out, new) = DOMAIN m \cup new
        /\ \A s \in new : Listing(m, out, new)[s] = CountIn(out.rows, s)
    BY DEF Listing, Over
  <2>5. DOMAIN disk'.segs = new /\ \A s \in new : disk'.segs[s] = CountIn(out.rows, s)
    BY <2>2, <2>3, <2>4
  <2> QED
    BY <1>14, <2>5 DEF Counted
<1>16. ASSUME NEW s \in new PROVE s < disk'.active /\ \E l \in DOMAIN disk'.rows : l[1] = s
  <2>1. PICK l \in DOMAIN out.rows : l[1] = s
    BY <1>6
  <2>2. s <= t.active + Cardinality(new) /\ s \in Nat
    BY <1>3, <1>4, <2>1
  <2>3. s < 1 + t.active + Cardinality(new)
    BY <1>3, <1>5, <2>2
  <2> QED
    BY <1>7, <1>8, <2>1, <2>3
<1>17. Keys(t', content)
  <2> SUFFICES ASSUME NEW p \in PK
               PROVE  /\ LiveOf(t', p) \subseteq {t'.index[p]}
                      /\ t'.index[p] = NoLoc => content[p] = NoVal
                      /\ t'.index[p] # NoLoc =>
                            t'.index[p] \in LiveOf(t', p) /\ t'.rows[t'.index[p]].val = content[p]
    BY DEF Keys
  <2>1. LiveOf(t', p) = {l \in DOMAIN out.rows : out.rows[l].pk = p}
    BY <1>11, <1>12 DEF LiveOf, Live
  <2> QED
    BY <1>4, <1>9, <1>11, <2>1
<1>18. Logged(t'.wal, idxFile, content, t'.rows, {}, new, disk'.active)
  <2>1. Logged(t.wal, idxFile, content, t.rows, t.deleted, sealed, t.active)
    BY <1>2 DEF ServingInv, Clean
  <2>2. ASSUME NEW x, NEW p, Names(x, p, t.rows, sealed, t.active)
        PROVE  x \notin DOMAIN t'.rows /\ Names(x, p, t'.rows, new, disk'.active)
    <3>1. x \in Loc /\ x[1] \in Nat /\ x[1] < t.active
      BY <1>3, <2>2 DEF Names, Gone, Loc
    <3>2. x[1] \notin new
      BY <1>3, <3>1
    <3>3. x[1] < disk'.active
      BY <1>3, <1>5, <1>8, <3>1
    <3>4. x \notin DOMAIN t'.rows
      BY <1>3, <1>11, <3>2
    <3> QED
      BY <3>1, <3>2, <3>3, <3>4 DEF Names, Gone
  <2>3. \A i \in 1 .. Len(t.wal) :
            t.wal[i].op = "delete" => Names(t.wal[i].loc, t.wal[i].pk, t'.rows, new, disk'.active)
    BY <2>1, <2>2 DEF Logged
  <2>4. IndexNames(idxFile, t'.rows, new, disk'.active)
    BY <2>1, <2>2 DEF Logged, IndexNames
  <2> QED
    BY <1>9, <2>1, <2>3, <2>4 DEF Logged
<1>19. InstalledInv'
  <2>1. sealed' = DOMAIN disk'.segs /\ listed' = disk'.segs /\ sealed' \subseteq disk'.dirs
    BY <1>1, <1>7, <1>8, <1>15
  <2>2. \A l \in DOMAIN disk'.rows : l[1] \in new
    BY <1>3, <1>7, <1>8
  <2>3. disk'.dead = {}
    BY <1>7, <1>8
  <2> QED
    BY <1>1, <1>12, <1>13, <1>14, <1>15, <1>16, <1>17, <1>18, <2>1, <2>2, <2>3 DEF InstalledInv
<1> QED
  BY <1>1, <1>2, <1>19 DEF CleanInv

\* primary.idx catches up with the new segments.
LEMMA CleanCompactSaveIndex ==
    ASSUME TypeInv, CleanInv, CompactSaveIndex
    PROVE  CleanInv'
<1>1. /\ pc = "installed" /\ pc' = "saved" /\ idxFile' = t.index /\ t' = t /\ sealed' = sealed
      /\ listed' = listed /\ disk' = disk /\ copying' = copying /\ content' = content
  BY DEF CompactSaveIndex, history
<1>2. InstalledInv /\ ~copying /\ WellFormed(t)
  BY <1>1 DEF CleanInv, TypeInv
<1>3. Logged(t.wal, idxFile, content, t.rows, t.deleted, sealed, disk.active) /\ Keys(t, content)
  BY <1>2 DEF InstalledInv
<1>4. Logged(t.wal, t.index, content, t.rows, t.deleted, sealed, disk.active)
  BY <1>2, <1>3, SavedIndex
<1>5. InstalledInv'
  BY <1>1, <1>2, <1>4 DEF InstalledInv
<1> QED
  BY <1>1, <1>2, <1>5 DEF CleanInv

\* The log is truncated and a new active segment begun.
LEMMA CleanCompactEnd ==
    ASSUME TypeInv, CleanInv, CompactEnd
    PROVE  CleanInv'
<1> DEFINE base == [t EXCEPT !.wal = <<>>, !.rows = Within(@, sealed),
                             !.deleted = {l \in @ : l[1] \in sealed}]
<1>1. /\ pc = "saved" /\ pc' = "up" /\ disk' = [disk EXCEPT !.dirs = @ \cup {disk.active}]
      /\ t' = Activate(base, disk') /\ idxFile' = idxFile /\ sealed' = sealed
      /\ listed' = listed /\ content' = content
  BY DEF CompactEnd, history
<1>2. InstalledInv /\ idxFile = t.index
  BY <1>1 DEF CleanInv
<1>3. DiskOK(disk) /\ WellFormed(t) /\ disk.active \in Nat
  BY DEF TypeInv, DiskOK
<1>4. /\ DOMAIN disk' = DOMAIN disk
      /\ disk'.dirs = disk.dirs \cup {disk.active} /\ disk'.rows = disk.rows /\ disk'.dead = disk.dead
      /\ disk'.segs = disk.segs /\ disk'.active = disk.active
  BY <1>1, <1>3 DEF DiskOK
<1>5. DiskOK(disk')
  BY <1>3, <1>4 DEF DiskOK
<1>6. /\ DOMAIN base = DOMAIN t /\ base.active = t.active /\ base.count = t.count
      /\ base.flushed = t.flushed /\ base.rows = Within(t.rows, sealed) /\ base.index = t.index
      /\ base.deleted = {l \in t.deleted : l[1] \in sealed} /\ base.wal = <<>>
  BY <1>3 DEF WellFormed, IsTable
<1> HIDE DEF base
<1>7. WellFormed(base)
  <2>1. RowsOK(base.rows)
    BY <1>3, <1>6, WithinOK, TableParts
  <2>2. <<>> \in Seq(WalOp)
    OBVIOUS
  <2> QED
    BY <1>3, <1>6, <2>1, <2>2, TableParts
<1>8. /\ WellFormed(t')
      /\ t'.active = disk'.active /\ t'.count = CountIn(disk'.rows, disk'.active)
      /\ t'.rows = Over(base.rows, Within(disk'.rows, {disk'.active}))
      /\ t'.deleted = base.deleted \cup {l \in disk'.dead : l[1] = disk'.active}
      /\ t'.index = base.index /\ t'.wal = base.wal
  <2> DEFINE new == Activate(base, disk')
  <2>1. /\ WellFormed(new)
        /\ new.active = disk'.active /\ new.count = CountIn(disk'.rows, disk'.active)
        /\ new.rows = Over(base.rows, Within(disk'.rows, {disk'.active}))
        /\ new.deleted = base.deleted \cup {l \in disk'.dead : l[1] = disk'.active}
        /\ new.index = base.index /\ new.wal = base.wal
    BY <1>5, <1>7, ActivateIs
  <2>2. t' = new
    BY <1>1
  <2> HIDE DEF new
  <2> QED
    BY <2>1, <2>2
<1>9. /\ Dense(disk.rows) /\ disk.dead = {} /\ SameRows(disk.rows, t.rows) /\ t.deleted = {}
      /\ sealed = DOMAIN disk.segs /\ listed = disk.segs /\ sealed \subseteq disk.dirs
      /\ \A s \in sealed : s < disk.active /\ \E l \in DOMAIN disk.rows : l[1] = s
      /\ \A l \in DOMAIN disk.rows : l[1] \in sealed
      /\ Counted(disk.segs, disk.rows, sealed)
      /\ Keys(t, content)
  BY <1>2 DEF InstalledInv
<1>10. SameRows(t'.rows, t.rows)
  <2> DEFINE a == Within(t.rows, sealed)
             b == Within(disk.rows, {disk.active})
  <2>1. DOMAIN a = DOMAIN t.rows /\ \A l \in DOMAIN t.rows : a[l] = t.rows[l]
    BY <1>9 DEF Within, SameRows
  <2>2. DOMAIN b = {}
    <3>1. \A l \in DOMAIN disk.rows : l[1] # disk.active
      BY <1>3, <1>9
    <3> QED
      BY <3>1 DEF Within
  <2>3. t'.rows = Over(a, b)
    BY <1>4, <1>6, <1>8
  <2> HIDE DEF a, b
  <2>4. DOMAIN Over(a, b) = DOMAIN a \cup DOMAIN b /\ \A l \in DOMAIN a : Over(a, b)[l] = a[l]
    BY OverIs
  <2> QED
    BY <2>1, <2>2, <2>3, <2>4 DEF SameRows
<1>11. t'.deleted = t.deleted /\ t'.index = t.index /\ t'.wal = <<>>
  BY <1>4, <1>6, <1>8, <1>9
<1>12. SameRows(t'.rows, disk.rows) /\ SameRows(disk.rows, t'.rows)
  BY <1>9, <1>10 DEF SameRows
<1>13. Dense(t'.rows) /\ \A s : CountIn(t'.rows, s) = CountIn(disk.rows, s)
  BY <1>9, <1>12, SameCounts
<1>14. Stored(t', sealed)
  <2>1. DOMAIN t'.rows = DOMAIN disk.rows
    BY <1>12 DEF SameRows
  <2>2. t'.active = disk.active /\ t'.count = CountIn(t'.rows, t'.active)
    BY <1>4, <1>8, <1>13
  <2>3. t'.deleted = {}
    BY <1>9, <1>11
  <2> QED
    BY <1>9, <1>13, <2>1, <2>2, <2>3 DEF Stored
<1>15. Counted(listed, t'.rows, sealed)
  BY <1>9, <1>13 DEF Counted
<1>16. Keys(t', content)
  <2>1. DOMAIN t'.rows = DOMAIN t.rows /\ \A l \in DOMAIN t.rows : t'.rows[l] = t.rows[l]
    BY <1>10 DEF SameRows
  <2>2. \A p : LiveOf(t', p) = LiveOf(t, p) /\ \A l \in LiveOf(t, p) : t'.rows[l] = t.rows[l]
    BY <1>11, <2>1 DEF LiveOf, Live
  <2> QED
    BY <1>9, <1>11, <2>2 DEF Keys
<1>17. /\ Logged(<<>>, t'.index, content, t'.rows, t'.deleted, sealed, t'.active)
       /\ Ahead(<<>>, t'.index, t'.rows, DOMAIN t'.rows)
  BY <1>8, <1>16, SavedIndex
<1>18. Clean(t', sealed, listed, t'.index, content)
  BY <1>11, <1>14, <1>15, <1>16, <1>17 DEF Clean
<1>19. AtRest(t', sealed, disk')
  BY <1>4, <1>8, <1>9, <1>11, <1>12 DEF AtRest
<1>20. Named(t', sealed, listed, disk')
  BY <1>4, <1>8, <1>9 DEF Named
<1>21. UpInv'
  BY <1>1, <1>2, <1>11, <1>18, <1>19, <1>20 DEF UpInv, ServingInv
<1> QED
  BY <1>1, <1>21 DEF CleanInv

\* compact(), step by step.  There are no ghost segments to purge.
LEMMA CleanCompact ==
    ASSUME TypeInv, CleanInv, Compact, TypeInv'
    PROVE  CleanInv'
<1>1. WellFormed(t')
  BY DEF TypeInv
<1>2. CASE PurgeGhosts
  BY <1>2 DEF PurgeGhosts, CleanInv
<1> QED
  BY <1>1, <1>2, CleanCompactBegin, CleanCompactRename, CleanCompactDelete, CleanCompactInstall,
     CleanCompactSaveIndex, CleanCompactEnd DEF Compact

-----------------------------------------------------------------------------
(* Wipes, deaths and recovery *)

\* An empty table is clean.
LEMMA EmptyIsClean ==
    ASSUME NEW tb, WellFormed(tb), DOMAIN tb.rows = {}, tb.deleted = {}, tb.count = 0,
           tb.index = NoIndex, tb.wal = <<>>, NEW m, DOMAIN m = {},
           NEW c, c = [p \in PK |-> NoVal]
    PROVE  Clean(tb, {}, m, NoIndex, c)
<1>1. tb.active \in Nat
  BY DEF WellFormed, IsTable
<1>2. Dense(tb.rows)
  <2>1. \A l \in Loc : ~ (l[2] <= 0)
    BY DEF Loc
  <2>2. 0 \in Nat
    OBVIOUS
  <2> QED
    BY <2>1, <2>2 DEF Dense
<1>3. CountIn(tb.rows, tb.active) = 0
  <2>1. {l \in DOMAIN tb.rows : l[1] = tb.active} = {}
    OBVIOUS
  <2> QED
    BY <2>1, FS_EmptySet DEF CountIn
<1>4. Stored(tb, {}) /\ Counted(m, tb.rows, {})
  BY <1>2, <1>3 DEF Stored, Counted
<1>5. Keys(tb, c)
  BY DEF Keys, LiveOf, Live, NoIndex
<1>6. /\ Logged(<<>>, tb.index, c, tb.rows, tb.deleted, {}, tb.active)
      /\ Ahead(<<>>, tb.index, tb.rows, DOMAIN tb.rows)
  BY <1>5, SavedIndex
<1> QED
  BY <1>4, <1>5, <1>6 DEF Clean

\* A wipe, and the copy that starts over after a death, leave an empty table.
LEMMA CleanWipes ==
    ASSUME TypeInv, CleanInv, WipeDirs \/ Recopy \/ WipeLog
    PROVE  CleanInv'
<1>1. t.wal \in Seq(WalOp)
  BY DEF TypeInv, WellFormed, IsTable
<1>2. CASE WipeDirs \/ Recopy
  <2>1. /\ disk' = [EmptyDisk EXCEPT !.segs = disk.segs, !.active = disk.active]
        /\ t' = [EmptyTable EXCEPT !.wal = t.wal] /\ sealed' = {} /\ listed' = <<>>
        /\ pc' = "wiping" /\ content' = [p \in PK |-> NoVal]
    BY <1>2 DEF WipeDirs, Recopy
  <2>2. copying'
    BY <1>2 DEF WipeDirs, Recopy, CleanInv
  <2>3. /\ t'.active = 0 /\ t'.count = 0 /\ t'.deleted = {} /\ t'.index = NoIndex
        /\ DOMAIN t'.rows = {}
    BY <1>1, <2>1, EmptyTableIs
  <2>4. disk'.dirs = {0} /\ disk'.rows = <<>> /\ disk'.dead = {} /\ DOMAIN <<>> = {}
    BY <2>1 DEF EmptyDisk, NoRows
  <2>5. WipedInv'
    BY <2>1, <2>3, <2>4 DEF WipedInv
  <2> QED
    BY <2>1, <2>2, <2>5 DEF CleanInv
<1>3. CASE WipeLog
  <2>1. /\ pc = "wiping" /\ pc' = "up" /\ idxFile' = NoIndex /\ t' = [t EXCEPT !.wal = <<>>]
        /\ sealed' = sealed /\ listed' = listed /\ disk' = disk /\ content' = content
    BY <1>3 DEF WipeLog, history
  <2>2. WipedInv /\ WellFormed(t)
    BY <2>1 DEF CleanInv, TypeInv
  <2>3. <<>> \in Seq(WalOp)
    OBVIOUS
  <2>4. /\ WellFormed(t')
        /\ t'.active = t.active /\ t'.count = t.count /\ t'.rows = t.rows
        /\ t'.deleted = t.deleted /\ t'.index = t.index /\ t'.wal = <<>>
    BY <2>1, <2>2, <2>3, WalIs
  <2>5. Clean(t', {}, listed, NoIndex, content)
    BY <2>2, <2>4, EmptyIsClean DEF WipedInv
  <2>6. AtRest(t', {}, disk) /\ Named(t', {}, listed, disk)
    BY <2>2, <2>4 DEF WipedInv, AtRest, Named, SameRows
  <2>7. UpInv'
    BY <2>1, <2>2, <2>5, <2>6 DEF UpInv, ServingInv, WipedInv
  <2> QED
    BY <2>1, <2>7 DEF CleanInv
<1> QED
  BY <1>2, <1>3

\* A death outside the windows leaves files from which the table can be recovered.
LEMMA CleanCrash ==
    ASSUME TypeInv, CleanInv, Crash, Windows = {}
    PROVE  CleanInv'
<1>1. /\ pc # "down" /\ pc' = "down" /\ t' = [EmptyTable EXCEPT !.wal = t.wal]
      /\ disk' = disk /\ idxFile' = idxFile /\ copying' = copying /\ content' = content
  BY DEF Crash
<1>2. t'.wal = t.wal
  BY <1>1 DEF EmptyTable
<1>3. SUFFICES ASSUME ~copying PROVE Down(disk, t.wal, idxFile, content)
  BY <1>1, <1>2 DEF CleanInv
<1>4. WellFormed(t)
  BY DEF TypeInv
<1>5. \A w \in {"leftover", "dropped", "unlisted"} : w \notin Windows
  OBVIOUS
<1>6. CASE pc = "up"
  <2>1. /\ Clean(t, sealed, listed, idxFile, content)
        /\ SameRows(disk.rows, t.rows) /\ disk.dead = t.deleted /\ sealed \subseteq disk.dirs
    BY <1>6 DEF CleanInv, UpInv, ServingInv, AtRest
  <2>2. disk.segs = listed /\ disk.active = t.active
    BY <1>3, <1>5, <1>6 DEF Windows
  <2> QED
    BY <1>4, <2>1, <2>2, CleanFiles
<1>7. ASSUME ServingInv, PackedInv, Holds(sealed, {}) PROVE Down(disk, t.wal, idxFile, content)
  <2>1. disk.segs = listed /\ disk.active = t.active /\ Clean(t, sealed, listed, idxFile, content)
    BY <1>7 DEF ServingInv, PackedInv, Named
  <2>2. /\ \A l \in DOMAIN t.rows : l[1] \in sealed
        /\ \A l \in t.deleted : l \in DOMAIN t.rows
    BY <1>7, PackedApart
  <2>3. SameRows(disk.rows, t.rows) /\ disk.dead = t.deleted /\ sealed \subseteq disk.dirs
    BY <1>7, <2>2 DEF Holds, SameRows
  <2> QED
    BY <1>4, <2>1, <2>3, CleanFiles
<1>8. CASE pc = "renaming"
  <2>1. RenamingInv
    BY <1>8 DEF CleanInv
  <2>2. \A l \in DOMAIN out.rows : l[1] \in todo
    BY <1>5, <1>8 DEF Windows
  <2>3. SegsOf(out.rows) \ todo = {}
    BY <2>2 DEF SegsOf
  <2> QED
    BY <1>7, <2>1, <2>3 DEF RenamingInv
<1>9. CASE pc = "deleting"
  <2>1. DeletingInv
    BY <1>9 DEF CleanInv
  <2>2. DOMAIN out.rows = {} /\ todo = sealed
    BY <1>5, <1>9 DEF Windows
  <2>3. SegsOf(out.rows) = {}
    BY <2>2 DEF SegsOf
  <2> QED
    BY <1>7, <2>1, <2>2, <2>3 DEF DeletingInv
<1>10. CASE pc \in {"installed", "saved"}
  <2>1. InstalledInv
    BY <1>10 DEF CleanInv
  <2>2. /\ Dense(disk.rows) /\ disk.dead = {} /\ SameRows(disk.rows, t.rows) /\ t.deleted = {}
        /\ sealed = DOMAIN disk.segs /\ sealed \subseteq disk.dirs
        /\ \A s \in sealed : s < disk.active /\ \E l \in DOMAIN disk.rows : l[1] = s
        /\ \A l \in DOMAIN disk.rows : l[1] \in sealed
        /\ Counted(disk.segs, disk.rows, sealed)
        /\ Keys(t, content)
        /\ Logged(t.wal, idxFile, content, t.rows, {}, sealed, disk.active)
    BY <2>1 DEF InstalledInv
  <2>3. DOMAIN disk.rows = DOMAIN t.rows /\ \A l \in DOMAIN t.rows : disk.rows[l] = t.rows[l]
    BY <2>2 DEF SameRows
  <2>4. ASSUME NEW p \in PK
        PROVE  /\ \A l \in OnDisk(disk.rows, disk.dead, p) : disk.rows[l].val = content[p]
               /\ \A l, m \in OnDisk(disk.rows, disk.dead, p) : l = m
               /\ content[p] # NoVal => OnDisk(disk.rows, disk.dead, p) # {}
    <3>1. OnDisk(disk.rows, disk.dead, p) = LiveOf(t, p)
      BY <2>2, <2>3 DEF OnDisk, LiveOf, Live
    <3>2. /\ LiveOf(t, p) \subseteq {t.index[p]}
          /\ t.index[p] = NoLoc => content[p] = NoVal
          /\ t.index[p] # NoLoc => t.index[p] \in LiveOf(t, p) /\ t.rows[t.index[p]].val = content[p]
      BY <2>2 DEF Keys
    <3>3. NoLoc \notin LiveOf(t, p)
      BY <1>4 DEF LiveOf, Live, WellFormed, IsTable, Loc, NoLoc
    <3>4. \A l \in LiveOf(t, p) : l \in DOMAIN t.rows
      BY DEF LiveOf, Live
    <3> QED
      BY <2>3, <3>1, <3>2, <3>3, <3>4
  <2>5. Logged(t.wal, idxFile, content, disk.rows, disk.dead, DOMAIN disk.segs, disk.active)
    BY <2>2, SameLogged
  <2>6. Ahead(t.wal, idxFile, disk.rows, disk.dead)
    BY <2>2 DEF Ahead
  <2> QED
    BY <2>2, <2>4, <2>5, <2>6 DEF Down
<1>11. pc \in {"up", "renaming", "deleting", "installed", "saved"}
  BY <1>1, <1>3 DEF TypeInv, Control, CleanInv
<1> QED
  BY <1>6, <1>8, <1>9, <1>10, <1>11

\* Table::open.
LEMMA CleanOpen ==
    ASSUME TypeInv, CleanInv, Open
    PROVE  CleanInv'
<1>1. pc = "down" /\ pc' = (IF copying THEN "recopy" ELSE "up") /\ copying' = copying
      /\ content' = content /\ idxFile' = OpenedIndex
  BY DEF Open, OpenedIndex, history
<1>2. CASE copying
  BY <1>1, <1>2 DEF CleanInv
<1>3. CASE ~copying
  <2> DEFINE segs == DOMAIN disk.segs
  <2>1. Down(disk, t.wal, idxFile, content) /\ content \in [PK -> Val \cup {NoVal}]
    BY <1>1, <1>3 DEF CleanInv, TypeInv, Control
  <2>2. /\ Clean(Opened, segs, disk.segs, OpenedIndex, content)
        /\ Covered(disk, Opened, segs)
        /\ LoadSegments = segs /\ Opened.active = disk.active
    BY <2>1, OpenedClean
  <2>3. WellFormed(Opened)
    BY OpenedIs
  <2>4. DiskOK(disk) /\ segs \in SUBSET Nat /\ DOMAIN disk.segs \subseteq Nat
    BY DEF TypeInv, DiskOK
  <2> HIDE DEF segs
  <2>5. CASE Opened.count = 0
    <3> DEFINE d == Flushed(disk, Opened)
    <3>1. /\ t' = Opened /\ sealed' = LoadSegments /\ listed' = disk.segs
          /\ disk' = [d EXCEPT !.dirs = @ \cup {Opened.active}]
      BY <2>5 DEF Open, Opened
    <3>2. /\ DOMAIN d = {"dirs", "rows", "dead", "segs", "active"}
          /\ d.dirs = disk.dirs /\ d.segs = disk.segs /\ d.active = disk.active
          /\ d.rows = Over(Opened.rows, disk.rows) /\ d.dead = disk.dead \cup Opened.deleted
      BY <2>4, FlushedIs DEF DiskOK
    <3> HIDE DEF d
    <3>3. /\ disk'.dirs = disk.dirs \cup {Opened.active} /\ disk'.segs = disk.segs
          /\ disk'.active = disk.active
          /\ disk'.rows = Over(Opened.rows, disk.rows) /\ disk'.dead = disk.dead \cup Opened.deleted
      BY <3>1, <3>2
    <3>4. SameRows(Over(Opened.rows, disk.rows), Opened.rows) /\ disk.dead \cup Opened.deleted = Opened.deleted
      BY <2>2, FlushedRows
    <3>5. AtRest(Opened, segs, disk')
      BY <2>2, <3>3, <3>4 DEF AtRest, Covered
    <3>6. Named(Opened, segs, disk.segs, disk')
      BY <2>2, <3>3 DEF Named
    <3>7. UpInv'
      BY <1>1, <2>2, <3>1, <3>5, <3>6 DEF UpInv, ServingInv
    <3> QED
      BY <1>1, <1>3, <3>7 DEF CleanInv
  <2>6. CASE Opened.count # 0
    <3> DEFINE d2 == Sealed(disk, Opened, disk.segs)
               t2 == Activate(Opened, d2)
               s2 == segs \cup {Opened.active}
    <3>1. /\ disk' = Sealed(disk, Opened, disk.segs) /\ listed' = disk'.segs
          /\ sealed' = LoadSegments \cup {Opened.active} /\ t' = Activate(Opened, disk')
      BY <2>6 DEF Open, Opened
    <3>2. /\ Clean(t2, s2, d2.segs, OpenedIndex, content) /\ AtRest(t2, s2, d2)
          /\ t2.active = d2.active /\ t2.count = 0
      BY <2>2, <2>3, <2>4, <2>6, SealClean
    <3>3. disk' = d2 /\ t' = t2 /\ sealed' = s2 /\ listed' = d2.segs
      BY <2>2, <3>1
    <3> HIDE DEF d2, t2, s2
    <3>4. UpInv'
      BY <1>1, <3>2, <3>3 DEF UpInv, ServingInv, Named
    <3> QED
      BY <1>1, <1>3, <3>4 DEF CleanInv
  <2> QED
    BY <2>5, <2>6
<1> QED
  BY <1>2, <1>3

\* reload_if_needed finds nothing to reload: the manifest names what is loaded.
LEMMA CleanReload ==
    ASSUME TypeInv, CleanInv, ReloadIfNeeded
    PROVE  CleanInv'
<1>1. pc = "up" /\ sealed = {} /\ DOMAIN disk.segs # {} /\ disk.segs = listed
  BY DEF ReloadIfNeeded
<1>2. DOMAIN listed = sealed
  BY <1>1 DEF CleanInv, UpInv, ServingInv, Clean, Counted
<1> QED
  BY <1>1, <1>2

-----------------------------------------------------------------------------
(* The theorems *)

\* What every reachable state satisfies.
Inv == TypeInv /\ (exposure = {} => CleanInv)

\* A new table satisfies the invariant.
LEMMA InitInv == Init => Inv
<1> SUFFICES ASSUME Init PROVE Inv
  OBVIOUS
<1>1. TypeInv
  BY InitTypes
<1>2. /\ WellFormed(t) /\ DOMAIN t.rows = {} /\ t.deleted = {} /\ t.count = 0 /\ t.active = 0
      /\ t.index = NoIndex /\ t.wal = <<>>
  BY <1>1 DEF TypeInv, Init, EmptyTable
<1>3. DOMAIN listed = {} /\ sealed = {} /\ idxFile = NoIndex /\ content = [p \in PK |-> NoVal]
  BY DEF Init
<1>4. Clean(t, sealed, listed, idxFile, content)
  BY <1>2, <1>3, EmptyIsClean
<1>5. AtRest(t, sealed, disk) /\ Named(t, sealed, listed, disk)
  BY <1>2, <1>3 DEF Init, EmptyDisk, NoRows, AtRest, SameRows, Named
<1>6. CleanInv
  BY <1>4, <1>5 DEF Init, CleanInv, UpInv, ServingInv
<1> QED
  BY <1>1, <1>6 DEF Inv

\* Every step keeps the invariant; a death in one of the windows makes it trivial,
\* for exposure never shrinks.
LEMMA NextInv == Inv /\ [Next]_vars => Inv'
<1> SUFFICES ASSUME Inv, [Next]_vars PROVE Inv'
  OBVIOUS
<1>1. TypeInv /\ TypeInv'
  BY NextTypes DEF Inv
<1>2. SUFFICES ASSUME exposure' = {} PROVE CleanInv'
  BY <1>1 DEF Inv
<1>3. CASE UNCHANGED vars
  <2>1. exposure = {} /\ CleanInv
    BY <1>2, <1>3 DEF vars, history, Inv
  <2> QED
    BY <1>3, <2>1 DEF vars, work, bounds, history, CleanInv, UpInv, RenamingInv, DeletingInv,
       InstalledInv, WipedInv, ServingInv, PackedInv, Holds
<1>4. CASE Crash
  <2>1. exposure = {} /\ Windows = {}
    BY <1>2, <1>4 DEF Crash
  <2> QED
    BY <1>1, <1>4, <2>1, CleanCrash DEF Inv
<1>5. CASE \E p \in PK : DeleteRow(p) \/ \E v \in Val : WriteRow(p, v)
  <2>1. exposure = {} /\ CleanInv
    BY <1>2, <1>5 DEF DeleteRow, WriteRow, Inv
  <2> QED
    BY <1>1, <1>5, <2>1, CleanRows
<1>6. CASE SaveIndex \/ Rotate \/ EndCopy \/ DeleteAllRows
  <2>1. exposure = {} /\ CleanInv
    BY <1>2, <1>6 DEF SaveIndex, Rotate, EndCopy, DeleteAllRows, history, Inv
  <2> QED
    BY <1>1, <1>6, <2>1, CleanFlushes
<1>7. CASE Compact
  <2>1. exposure = {} /\ CleanInv
    BY <1>2, <1>7 DEF Compact, CompactBegin, CompactRename, CompactDelete, CompactInstall,
       CompactSaveIndex, CompactEnd, PurgeGhosts, history, Inv
  <2> QED
    BY <1>1, <1>7, <2>1, CleanCompact
<1>8. CASE WipeDirs \/ Recopy \/ WipeLog
  <2>1. exposure = {} /\ CleanInv
    BY <1>2, <1>8 DEF WipeDirs, Recopy, WipeLog, history, Inv
  <2> QED
    BY <1>1, <1>8, <2>1, CleanWipes
<1>9. CASE Open \/ ReloadIfNeeded
  <2>1. exposure = {} /\ CleanInv
    BY <1>2, <1>9 DEF Open, ReloadIfNeeded, history, Inv
  <2> QED
    BY <1>1, <1>9, <2>1, CleanOpen, CleanReload
<1> QED
  BY <1>3, <1>4, <1>5, <1>6, <1>7, <1>8, <1>9 DEF Next

\* Rows found by the index are the rows a scan finds.
LEMMA KeysRead ==
    ASSUME WellFormed(t), Keys(t, content)
    PROVE  \A p \in PK : Reads(p, content[p])
<1> SUFFICES ASSUME NEW p \in PK PROVE Reads(p, content[p])
  OBVIOUS
<1>1. NoLoc \notin DOMAIN t.rows
  BY DEF WellFormed, IsTable, Loc, NoLoc
<1>2. CASE t.index[p] = NoLoc
  <2>1. LiveOf(t, p) = {} /\ content[p] = NoVal
    BY <1>1, <1>2 DEF Keys, LiveOf, Live
  <2>2. Lookup(t, p) = NoVal
    BY <1>1, <1>2 DEF Lookup
  <2>3. Cardinality(LiveOf(t, p)) = 0
    BY <2>1, FS_EmptySet
  <2>4. {t.rows[l].val : l \in LiveOf(t, p)} = {}
    BY <2>1
  <2> QED
    BY <2>1, <2>2, <2>3, <2>4 DEF Reads
<1>3. CASE t.index[p] # NoLoc
  <2>1. /\ Lookup(t, p) = content[p] /\ t.index[p] \in DOMAIN t.rows
        /\ t.rows[t.index[p]].val = content[p]
    BY <1>3, CleanLookup
  <2>2. LiveOf(t, p) = {t.index[p]}
    BY <1>3 DEF Keys
  <2>3. content[p] # NoVal
    <3>1. t.rows[t.index[p]].val \in Val
      BY <2>1 DEF WellFormed, IsTable, Row
    <3> QED
      BY <2>1, <3>1, ValuesDistinct
  <2>4. Cardinality(LiveOf(t, p)) = 1
    BY <2>2, FS_Singleton
  <2>5. {t.rows[l].val : l \in LiveOf(t, p)} = {content[p]}
    BY <2>1, <2>2
  <2> QED
    BY <2>1, <2>3, <2>4, <2>5 DEF Reads
<1> QED
  BY <1>2, <1>3

\* What a key reads as is its content, by scan and by lookup: no compaction, wipe,
\* removal of all rows, death outside the windows or recovery loses a row, brings one
\* back or doubles one.
THEOREM ContentTheorem == Spec => []ContentIsKept
<1>1. Inv => ContentIsKept
  <2> SUFFICES ASSUME Inv, pc \in {"up", "installed", "saved"}, exposure = {}
               PROVE  \A p \in PK : Reads(p, content[p])
    BY DEF ContentIsKept
  <2>1. WellFormed(t) /\ CleanInv
    BY DEF Inv, TypeInv
  <2>2. Keys(t, content)
    BY <2>1 DEF CleanInv, UpInv, ServingInv, Clean, InstalledInv
  <2> QED
    BY <2>1, <2>2, KeysRead
<1> QED
  BY <1>1, InitInv, NextInv, PTL DEF Spec

\* What is on disk is what is loaded: no directory is left behind for a later segment
\* to find, and none that holds a loaded row is removed.
THEOREM StrayTheorem == Spec => []NoStrayRows
<1>1. Inv => NoStrayRows
  <2> SUFFICES ASSUME Inv, pc = "up", exposure = {}
               PROVE  DOMAIN disk.rows = DOMAIN t.rows /\ \A l \in DOMAIN t.rows : l[1] \in disk.dirs
    BY DEF NoStrayRows
  <2>1. Stored(t, sealed) /\ AtRest(t, sealed, disk)
    BY DEF Inv, CleanInv, UpInv, ServingInv, Clean
  <2> QED
    BY <2>1 DEF Stored, AtRest, SameRows
<1> QED
  BY <1>1, InitInv, NextInv, PTL DEF Spec
=============================================================================
