------------------------ MODULE MCSecondaryIndexes ------------------------
(* Two keys, two contents, two columns and room for one in the cache;      *)
(* segments of two rows.                                                   *)
EXTENDS SecondaryIndexes, TLC
Columns == Permutations(Field)
=============================================================================
