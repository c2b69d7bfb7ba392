-------------------------- MODULE MCCdcReplication --------------------------
(***************************************************************************)
(* CdcReplication for TLC: keys and contents are interchangeable.          *)
(***************************************************************************)
EXTENDS CdcReplication, TLC

Symmetry == Permutations(PK) \cup Permutations(Val)

=============================================================================
