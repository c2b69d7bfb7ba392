--------------------------- MODULE MCMirrorTable ---------------------------
(***************************************************************************)
(* MirrorTable for TLC: keys and contents are interchangeable.             *)
(***************************************************************************)
EXTENDS MirrorTable, TLC

Symmetry == Permutations(PK) \cup Permutations(Val)

=============================================================================
