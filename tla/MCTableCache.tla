---------------------------- MODULE MCTableCache ----------------------------
(***************************************************************************)
(* TableCache for TLC: who owns which table, and the operations reloaded.  *)
(***************************************************************************)
EXTENDS TableCache, TLC

CONSTANTS k1, k2, k3, w1, w2

TwoWorkers == k1 :> w1 @@ k2 :> w2
OneWorker == k1 :> w1 @@ k2 :> w1 @@ k3 :> w1
Symmetry == Permutations(Inst)
OpsOne == {{}, {k1}}

=============================================================================
