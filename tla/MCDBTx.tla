------------------------------ MODULE MCDBTx ------------------------------
(* Bounds and symmetry for the model checking of DBTx. *)
EXTENDS DBTx, TLC
CONSTANTS f1, f2, t1, t2, c1, c2, c3

Symmetry == Permutations(Funcs) \cup Permutations(Txs) \cup Permutations(Conns)
=============================================================================
